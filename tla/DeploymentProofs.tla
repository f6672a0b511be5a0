--------------------------- MODULE DeploymentProofs ---------------------------
(***************************************************************************)
(* For any number of processes, runs, resources and configurations: a plan  *)
(* is applied exactly or not at all, every run executes one configuration,  *)
(* and no collection takes away what an unfinished run needs to be          *)
(* hydrated, unless it fell between the puts of the run's start.            *)
(***************************************************************************)
EXTENDS Deployment, TLAPS

\* What a row of applied_resources may hold.
Cell == {Absent} \cup UNION {{c[r] : r \in Resource} : c \in Config}
Rows == [Resource -> Cell]

Graph(c) == [kind |-> "graph", of |-> c]
Manifest(c) == [kind |-> "manifest", of |-> [r \in Tools |-> c[r]]]

\* The artifacts a pinning process has still to put.
Puts(c) == {Parts(c), <<Manifest(c)>>, <<>>}

Listed == [at : {"listed"}, want : Config, seen : Rows]
Planned == [at : {"noop", "confirm"}, want : Config, seen : Rows, base : Rows]
Collecting == [at : {"snapshots", "artifacts"}, want : Config]
Pinning == UNION {[at : {"pin", "start"}, want : {c}, puts : Puts(c)] : c \in Config}
Command == {Idle} \cup Listed \cup Planned \cup Collecting \cup Pinning

Row == [status : {"none", "running", "interrupted", "finished"}, digest : Config \cup {NoConfig}]

\* The types of the processes' commands and of the rows of the runs.
Typed ==
  /\ applied \in Rows
  /\ proc \in [Process -> Command]
  /\ runs \in [Run -> Row]
  /\ \A r \in Run : runs[r].status # "none" => runs[r].digest \in Config

\* What a process about to start a run has put so far is there, unless another's
\* delete fell between its puts.
Kept(p) ==
  /\ Putting(p) => Graph(proc[p].want) \in artifacts
  /\ proc[p].at = "start" => Hydrates(proc[p].want)
PinKept == \A p \in Process : p \notin raced => Kept(p)

\* The inductive invariant: a run hydrates from the start because what its process
\* had put was kept, and later because its row keeps it.
IndInv == TypeOK /\ Typed /\ OneConfigPerRun /\ PinKept /\ SurvivingRunsHydrate

-----------------------------------------------------------------------------
\* The parts of a snapshot, in order.
LEMMA PartsFacts ==
  ASSUME NEW c
  PROVE  /\ Parts(c) = <<Graph(c), Manifest(c)>> /\ Parts(c)[1] = Graph(c)
         /\ Head(Parts(c)) = Graph(c) /\ Tail(Parts(c)) = <<Manifest(c)>>
         /\ Artifacts(c) = {Graph(c), Manifest(c)}
         /\ Tail(<<Manifest(c)>>) = <<>> /\ Head(<<Manifest(c)>>) = Manifest(c)
         /\ Parts(c) # <<>> /\ Parts(c) # <<Manifest(c)>> /\ <<Manifest(c)>> # <<>>
<1>1. Parts(c) = <<Graph(c), Manifest(c)>>
  BY DEF Parts, Graph, Manifest
<1>2. Graph(c) # Manifest(c)
  BY DEF Graph, Manifest
<1> DEFINE g == Graph(c) m == Manifest(c)
<1>3. /\ <<g, m>>[1] = g /\ Head(<<g, m>>) = g /\ Tail(<<g, m>>) = <<m>>
      /\ Tail(<<m>>) = <<>> /\ Head(<<m>>) = m
      /\ <<g, m>> # <<>> /\ <<g, m>> # <<m>> /\ <<m>> # <<>>
      /\ {<<g, m>>[i] : i \in DOMAIN <<g, m>>} = {g, m}
  <2> HIDE DEF g, m
  <2> QED
    OBVIOUS
<1> QED
  BY <1>1, <1>3 DEF Artifacts

\* A command by where it is.
LEMMA CommandCases ==
  ASSUME NEW x \in Command
  PROVE  /\ x.at = "listed" => x \in Listed
         /\ x.at \in {"noop", "confirm"} => x \in Planned
         /\ x.at \in {"snapshots", "artifacts"} => x \in Collecting
         /\ x.at \in {"pin", "start"} =>
              x \in [at : {"pin", "start"}, want : {x.want}, puts : Puts(x.want)] /\ x.want \in Config
         /\ x # Idle => x.want \in Config
<1>1. CASE x = Idle
  BY <1>1 DEF Idle
<1>2. CASE x \in Listed
  BY <1>2 DEF Listed, Idle
<1>3. CASE x \in Planned
  BY <1>3 DEF Planned, Idle
<1>4. CASE x \in Collecting
  BY <1>4 DEF Collecting, Idle
<1>5. CASE x \in Pinning
  <2>1. PICK c \in Config : x \in [at : {"pin", "start"}, want : {c}, puts : Puts(c)]
    BY <1>5 DEF Pinning
  <2> QED
    BY <2>1
<1> QED
  BY <1>1, <1>2, <1>3, <1>4, <1>5 DEF Command

\* A configuration is a state of the rows.
LEMMA ConfigRows == \A c \in Config : c \in Rows
<1> SUFFICES ASSUME NEW c \in Config PROVE c \in Rows
  OBVIOUS
<1>1. \A r \in Resource : c[r] \in Cell
  BY DEF Cell
<1>2. c = [r \in Resource |-> c[r]]
  BY DeploymentAssumption
<1> QED
  BY <1>1, <1>2 DEF Rows

\* executePlan leaves rows, and exactly the wanted ones when the plan was
\* computed from the rows that are there.
LEMMA ExecutedRows ==
  ASSUME NEW rows \in Rows, NEW seen, NEW want \in Config
  PROVE  /\ Executed(rows, seen, want) \in Rows
         /\ seen = rows => Executed(rows, seen, want) = want
<1>1. want \in Rows /\ want = [r \in Resource |-> want[r]]
  BY ConfigRows, DeploymentAssumption
<1>2. Executed(rows, seen, want) \in Rows
  BY <1>1 DEF Executed, Rows
<1>3. ASSUME seen = rows PROVE Executed(rows, seen, want) = want
  <2>1. \A r \in Resource : (IF r \in Operations(seen, want) THEN want[r] ELSE rows[r]) = want[r]
    BY <1>3 DEF Operations
  <2>2. Executed(rows, seen, want) = [r \in Resource |-> want[r]]
    BY <2>1 DEF Executed
  <2> QED
    BY <1>1, <2>2
<1> QED
  BY <1>2, <1>3
-----------------------------------------------------------------------------
\* The initial states.
LEMMA InitInv == Init => IndInv
<1> SUFFICES ASSUME Init PROVE IndInv
  OBVIOUS
<1>1. TypeOK
  BY DEF Init, TypeOK, NoRun
<1>2. Typed
  BY DEF Init, Typed, Rows, Cell, Command, Row, NoRun
<1>3. PinKept
  BY DEF Init, PinKept, Kept, Putting, Idle
<1>4. OneConfigPerRun /\ SurvivingRunsHydrate
  BY DEF Init, OneConfigPerRun, SurvivingRunsHydrate, Unfinished, NoRun
<1> QED
  BY <1>1, <1>2, <1>3, <1>4 DEF IndInv

\* One process goes on to its next command.
LEMMA ProcStep ==
  ASSUME Typed, NEW p \in Process, NEW x \in Command, proc' = [proc EXCEPT ![p] = x]
  PROVE  /\ proc' \in [Process -> Command] /\ proc'[p] = x
         /\ \A q \in Process : q # p => proc'[q] = proc[q]
BY DEF Typed

\* A process's puts are still there after a step that does not touch its command
\* and leaves its artifacts and snapshots.
LEMMA KeptFrame ==
  ASSUME NEW q, Kept(q), proc'[q] = proc[q],
         snapshots \subseteq snapshots', artifacts \subseteq artifacts'
  PROVE  Kept(q)'
<1>1. Putting(q)' <=> Putting(q)
  BY DEF Putting, Parts
<1>2. Graph(proc[q].want)' = Graph(proc[q].want)
  BY DEF Graph
<1>3. Hydrates(proc[q].want) => Hydrates(proc[q].want)'
  BY DEF Hydrates, Parts
<1> QED
  BY <1>1, <1>2, <1>3 DEF Kept

\* What unfinished runs pinned is still there after a step that changes no row and
\* leaves artifacts and snapshots.
LEMMA RunsFrame ==
  ASSUME SurvivingRunsHydrate, UNCHANGED <<runs, risky>>,
         snapshots \subseteq snapshots', artifacts \subseteq artifacts'
  PROVE  SurvivingRunsHydrate'
BY DEF SurvivingRunsHydrate, Unfinished, Hydrates, Parts

\* A step to a command that neither puts nor starts, in a store that only grew.
LEMMA Harmless ==
  ASSUME IndInv, NEW p \in Process, NEW x \in Command, proc' = [proc EXCEPT ![p] = x],
         x.at \notin {"pin", "start"}, raced \ {p} \subseteq raced', UNCHANGED <<runs, risky>>,
         snapshots \subseteq snapshots', artifacts \subseteq artifacts'
  PROVE  PinKept' /\ SurvivingRunsHydrate'
<1>1. /\ proc' \in [Process -> Command] /\ proc'[p] = x
      /\ \A q \in Process : q # p => proc'[q] = proc[q]
  BY ProcStep DEF IndInv
<1>2. Kept(p)'
  BY <1>1 DEF Kept, Putting
<1>3. ASSUME NEW q \in Process, q # p, q \notin raced' PROVE Kept(q)'
  <2>1. Kept(q) /\ proc'[q] = proc[q]
    BY <1>1, <1>3 DEF IndInv, PinKept
  <2> QED
    BY <2>1, KeptFrame
<1>4. SurvivingRunsHydrate'
  BY RunsFrame DEF IndInv
<1> QED
  BY <1>2, <1>3, <1>4 DEF PinKept

\* A configuration is deployed: the store keeps its types and only grows.
LEMMA DeployTypes ==
  ASSUME TypeOK, NEW c \in Config, Deploy(c)
  PROVE  /\ current' \in Config \cup {NoConfig} /\ snapshots' \subseteq Config
         /\ artifacts' \subseteq UNION {Artifacts(d) : d \in Config}
         /\ snapshots \subseteq snapshots' /\ artifacts \subseteq artifacts'
BY DEF TypeOK, Deploy

\* Planning and applying: the step leaves the runs alone, changes the store at
\* most by a deployment, and ends in a command that neither collects nor pins.
LEMMA ApplyStep ==
  ASSUME IndInv, NEW p \in Process,
         \/ \E c \in Config : ListApplied(p, c)
         \/ Fingerprint(p) \/ ApplyNothing(p) \/ ApplyPlan(p) \/ Quit(p)
  PROVE  IndInv'
<1>0. /\ TypeOK /\ Typed /\ runs' = runs /\ used' = used /\ risky' = risky
      /\ raced' \in {raced, raced \ {p}}
  BY DEF IndInv, ListApplied, Fingerprint, ApplyNothing, ApplyPlan, Quit, ghosts
<1>1. proc[p] \in Command /\ applied \in Rows
  BY <1>0 DEF Typed
<1>2. \E x \in Command :
        /\ proc' = [proc EXCEPT ![p] = x]
        /\ x.at \notin {"pin", "start"}
  <2>1. CASE \E c \in Config : ListApplied(p, c)
    <3>1. PICK c \in Config : ListApplied(p, c)
      BY <2>1
    <3> DEFINE x == [at |-> "listed", want |-> c, seen |-> applied]
    <3>2. x \in Listed /\ x.at = "listed"
      BY <1>1 DEF Listed
    <3>3. proc' = [proc EXCEPT ![p] = x]
      BY <3>1 DEF ListApplied
    <3> HIDE DEF x
    <3> QED
      BY <3>2, <3>3 DEF Command
  <2>2. CASE Fingerprint(p)
    <3>1. proc[p].want \in Config /\ proc[p].seen \in Rows
      BY <1>1, <2>2, CommandCases DEF Fingerprint, Listed
    <3>2. PICK a \in {"noop", "confirm"} :
            proc' = [proc EXCEPT ![p] = [at |-> a, want |-> proc[p].want, seen |-> proc[p].seen,
                                         base |-> applied]]
      BY <2>2 DEF Fingerprint
    <3> DEFINE x == [at |-> a, want |-> proc[p].want, seen |-> proc[p].seen, base |-> applied]
    <3>3. x \in Planned /\ x.at = a
      BY <1>1, <3>1 DEF Planned
    <3>4. proc' = [proc EXCEPT ![p] = x]
      BY <3>2
    <3> HIDE DEF x
    <3> QED
      BY <3>3, <3>4 DEF Command
  <2>3. CASE ApplyNothing(p) \/ ApplyPlan(p) \/ Quit(p)
    <3>1. proc' = [proc EXCEPT ![p] = Idle]
      BY <2>3 DEF ApplyNothing, ApplyPlan, Quit
    <3>2. Idle \in Command /\ Idle.at = "idle"
      BY DEF Command, Idle
    <3> QED
      BY <3>1, <3>2
  <2> QED
    BY <2>1, <2>2, <2>3
<1>3. /\ applied' \in Rows /\ current' \in Config \cup {NoConfig} /\ snapshots' \subseteq Config
      /\ artifacts' \subseteq UNION {Artifacts(d) : d \in Config}
      /\ snapshots \subseteq snapshots' /\ artifacts \subseteq artifacts'
  <2>1. CASE UNCHANGED store
    BY <1>0, <1>1, <2>1 DEF store, TypeOK
  <2>2. CASE ApplyNothing(p)
    <3>1. proc[p].want \in Config
      BY <1>1, <2>2, CommandCases DEF ApplyNothing, Planned
    <3> QED
      BY <1>0, <1>1, <2>2, <3>1, DeployTypes DEF ApplyNothing
  <2>3. CASE ApplyPlan(p) /\ BaselineHolds(p)
    <3>1. proc[p].want \in Config
      BY <1>1, <2>3, CommandCases DEF ApplyPlan, Planned
    <3>2. Deploy(proc[p].want) /\ applied' = Executed(applied, proc[p].seen, proc[p].want)
      BY <2>3 DEF ApplyPlan
    <3> QED
      BY <1>0, <1>1, <3>1, <3>2, DeployTypes, ExecutedRows
  <2> QED
    BY <2>1, <2>2, <2>3 DEF ListApplied, Fingerprint, ApplyPlan, Quit
<1>4. Typed'
  BY <1>0, <1>2, <1>3, ProcStep DEF Typed
<1>5. TypeOK'
  BY <1>0, <1>3 DEF TypeOK, Rows
<1>6. OneConfigPerRun'
  BY <1>0 DEF IndInv, OneConfigPerRun
<1>7. PinKept' /\ SurvivingRunsHydrate'
  BY <1>0, <1>2, <1>3, Harmless
<1> QED
  BY <1>4, <1>5, <1>6, <1>7 DEF IndInv

-----------------------------------------------------------------------------
\* A run's row changes its status only, or goes.
LEMMA RowsKept ==
  ASSUME IndInv, UNCHANGED <<store, proc, raced, risky>>, runs' \in [Run -> Row],
         \A r \in Run : runs'[r].digest = runs[r].digest /\
                        (runs[r].status = "none" => runs'[r].status = "none"),
         \A r \in Run : runs'[r].status \in {"running", "interrupted"} =>
                        runs[r].status \in {"running", "interrupted"},
         \A r \in Run : used'[r] \subseteq used[r] \cup {runs[r].digest} /\
                        (used'[r] # used[r] => runs[r].status # "none"),
         used' \in [Run -> SUBSET (Config \cup {NoConfig})]
  PROVE  IndInv'
<1>0. TypeOK /\ Typed /\ OneConfigPerRun
  BY DEF IndInv
<1>1. UNCHANGED <<applied, current, snapshots, artifacts, proc, raced, risky>>
  BY DEF store
<1>2. used' \in [Run -> SUBSET Config]
  BY <1>0 DEF TypeOK, Typed
<1>3. TypeOK' /\ Typed'
  BY <1>0, <1>1, <1>2 DEF TypeOK, Typed, Row
<1>4. OneConfigPerRun'
  BY <1>0 DEF OneConfigPerRun
<1>5. PinKept'
  BY <1>1, KeptFrame DEF IndInv, PinKept
<1>6. SurvivingRunsHydrate'
  BY <1>1 DEF IndInv, SurvivingRunsHydrate, Unfinished, Hydrates
<1> QED
  BY <1>3, <1>4, <1>5, <1>6 DEF IndInv

\* A run pauses or ends, or resumes from its pinned snapshot.
LEMMA RunRowStep == ASSUME IndInv, NEW r \in Run, Pause(r) \/ Resume(r) PROVE IndInv'
<1>0. runs \in [Run -> Row] /\ used \in [Run -> SUBSET Config] /\ UNCHANGED <<store, proc, raced, risky>>
  BY DEF IndInv, Typed, TypeOK, Pause, Resume, ghosts
<1>1. PICK s \in {"running", "interrupted", "finished"} : runs' = [runs EXCEPT ![r].status = s]
  BY DEF Pause, Resume
<1>2. /\ runs[r].status \in {"running", "interrupted"}
      /\ used' = used \/ used' = [used EXCEPT ![r] = @ \cup {runs[r].digest}]
  BY DEF Pause, Resume, ResumeConfig, ghosts
<1>3. [runs[r] EXCEPT !.status = s] \in Row
  BY <1>0 DEF Row
<1>4. /\ runs' \in [Run -> Row]
      /\ \A q \in Run : runs'[q].digest = runs[q].digest
      /\ \A q \in Run : q # r => runs'[q] = runs[q]
  BY <1>0, <1>1, <1>3 DEF Row
<1>5. /\ used' \in [Run -> SUBSET (Config \cup {NoConfig})]
      /\ \A q \in Run : used'[q] \subseteq used[q] \cup {runs[q].digest}
      /\ \A q \in Run : q # r => used'[q] = used[q]
  <2>1. runs[r].digest \in Config \cup {NoConfig}
    BY <1>0 DEF Row
  <2> QED
    BY <1>0, <1>2, <2>1
<1> QED
  BY <1>0, <1>2, <1>4, <1>5, RowsKept

\* Before a run: the retention's sweep of finished rows, or none.
LEMMA BeginStep ==
  ASSUME IndInv, NEW p \in Process, NEW c \in Config, Sweep(p, c) \/ Pin(p, c)
  PROVE  IndInv'
<1> DEFINE x == [at |-> "snapshots", want |-> c]
           y == [at |-> "pin", want |-> c, puts |-> Parts(c)]
<1>0. /\ TypeOK /\ Typed /\ OneConfigPerRun
      /\ UNCHANGED <<applied, current, snapshots, artifacts, raced, risky>>
  BY DEF IndInv, Sweep, Pin, store, ghosts
<1>1. /\ x \in Command /\ x.at = "snapshots" /\ x.want = c
      /\ y \in Command /\ y.at = "pin" /\ y.want = c /\ y.puts = Parts(c)
  BY DEF Command, Collecting, Pinning, Puts
<1>2. proc' = [proc EXCEPT ![p] = x] \/ proc' = [proc EXCEPT ![p] = y]
  BY DEF Sweep, Pin
<1> HIDE DEF x, y
<1>3. /\ proc' \in [Process -> Command] /\ proc'[p] \in {x, y}
      /\ \A q \in Process : q # p => proc'[q] = proc[q]
  BY <1>0, <1>1, <1>2, ProcStep
<1>4. PICK old \in SUBSET {r \in Run : runs[r].status = "finished"} :
        /\ \A r \in Run : runs'[r] = IF r \in old THEN NoRun ELSE runs[r]
        /\ \A r \in Run : used'[r] = IF r \in old THEN {} ELSE used[r]
        /\ runs' \in [Run -> Row] /\ used' \in [Run -> SUBSET Config]
  <2>1. NoRun \in Row
    BY DEF NoRun, Row
  <2>2. CASE Sweep(p, c)
    <3>1. PICK old \in SUBSET {r \in Run : runs[r].status = "finished"} :
            /\ runs' = [r \in Run |-> IF r \in old THEN NoRun ELSE runs[r]]
            /\ used' = [r \in Run |-> IF r \in old THEN {} ELSE used[r]]
      BY <2>2 DEF Sweep
    <3> QED
      BY <1>0, <2>1, <3>1 DEF TypeOK, Typed
  <2>3. CASE Pin(p, c)
    <3>1. runs' = runs /\ used' = used
      BY <2>3 DEF Pin, ghosts
    <3> WITNESS {} \in SUBSET {r \in Run : runs[r].status = "finished"}
    <3> QED
      BY <1>0, <3>1 DEF TypeOK, Typed
  <2> QED
    BY <2>2, <2>3
<1>5. NoRun.status = "none" /\ NoRun.digest = NoConfig
  BY DEF NoRun
<1>6. TypeOK' /\ Typed'
  BY <1>0, <1>3, <1>4, <1>5 DEF TypeOK, Typed
<1>7. OneConfigPerRun'
  BY <1>0, <1>4, <1>5 DEF OneConfigPerRun
<1>8. PinKept'
  <2>1. Kept(p)'
    BY <1>1, <1>3 DEF Kept, Putting, Parts
  <2>2. ASSUME NEW q \in Process, q # p, q \notin raced' PROVE Kept(q)'
    <3>1. Kept(q) /\ proc'[q] = proc[q]
      BY <1>0, <1>3, <2>2 DEF IndInv, PinKept
    <3> QED
      BY <1>0, <3>1, KeptFrame
  <2> QED
    BY <2>1, <2>2 DEF PinKept
<1>9. SurvivingRunsHydrate'
  BY <1>0, <1>4, <1>5 DEF IndInv, SurvivingRunsHydrate, Unfinished, Hydrates
<1> QED
  BY <1>6, <1>7, <1>8, <1>9 DEF IndInv

\* The collection's two deletes keep what unfinished runs refer to, and what the
\* processes have put that they do not fall upon.
LEMMA PruneStep ==
  ASSUME IndInv, NEW p \in Process, PruneSnapshots(p) \/ PruneArtifacts(p)
  PROVE  IndInv'
<1>0. /\ TypeOK /\ Typed /\ OneConfigPerRun
      /\ UNCHANGED <<applied, current, runs, used, risky>>
      /\ raced \subseteq raced' /\ raced' \subseteq Process
  BY DEF IndInv, PruneSnapshots, PruneArtifacts, TypeOK
<1> DEFINE c == proc[p].want
           x == [proc[p] EXCEPT !.at = "artifacts"]
           y == [at |-> "pin", want |-> c, puts |-> Parts(c)]
<1>1. proc[p] \in Collecting /\ proc[p].at \in {"snapshots", "artifacts"} /\ c \in Config
  <2>1. proc[p] \in Command /\ proc[p].at \in {"snapshots", "artifacts"}
    BY <1>0 DEF Typed, PruneSnapshots, PruneArtifacts
  <2>2. proc[p] \in Collecting
    BY <2>1, CommandCases
  <2> QED
    BY <2>1, <2>2 DEF Collecting
<1>2. /\ x \in Command /\ x.at = "artifacts"
      /\ y \in Command /\ y.at = "pin" /\ y.want = c /\ y.puts = Parts(c)
  BY <1>1 DEF Command, Collecting, Pinning, Puts
<1>3. proc' = [proc EXCEPT ![p] = x] \/ proc' = [proc EXCEPT ![p] = y]
  BY DEF PruneSnapshots, PruneArtifacts
<1> HIDE DEF x, y
<1>4. /\ proc' \in [Process -> Command] /\ proc'[p] \in {x, y}
      /\ \A q \in Process : q # p => proc'[q] = proc[q]
  BY <1>0, <1>2, <1>3, ProcStep
<1>5. \/ snapshots' = {d \in snapshots : Referenced(d)} /\ artifacts' = artifacts
      \/ snapshots' = snapshots /\ artifacts' = {a \in artifacts : Needed(a)}
  BY DEF PruneSnapshots, PruneArtifacts
<1>6. TypeOK' /\ Typed'
  BY <1>0, <1>4, <1>5 DEF TypeOK, Typed
<1>7. OneConfigPerRun'
  BY <1>0 DEF OneConfigPerRun
<1>8. ASSUME NEW d, d \in snapshots, Graph(d) \in artifacts, Referenced(d) \/ PruneArtifacts(p)
      PROVE  Hydrates(d)'
  <2>1. Parts(d)[1] = Graph(d) /\ Needed(Graph(d))
    BY <1>8, PartsFacts DEF Needed
  <2>2. d \in snapshots' /\ Graph(d) \in artifacts'
    BY <1>8, <2>1 DEF PruneSnapshots, PruneArtifacts
  <2> QED
    BY <2>1, <2>2 DEF Hydrates
<1>9. PinKept'
  <2> SUFFICES ASSUME NEW q \in Process, q \notin raced' PROVE Kept(q)'
    BY DEF PinKept
  <2>1. CASE q = p
    <3>1. proc'[q] \in {x, y}
      BY <1>4, <2>1
    <3> QED
      BY <1>2, <3>1 DEF Kept, Putting, Parts
  <2>2. CASE q # p
    <3>1. proc'[q] = proc[q] /\ Kept(q)
      BY <1>0, <1>4, <2>2 DEF IndInv, PinKept
    <3>2. (Putting(q)' <=> Putting(q)) /\ Graph(proc[q].want)' = Graph(proc[q].want)
      BY <3>1 DEF Putting, Parts, Graph
    <3>3. CASE PruneSnapshots(p)
      <4>1. proc[q].at # "start" /\ artifacts' = artifacts
        BY <3>3 DEF PruneSnapshots
      <4> QED
        BY <3>1, <3>2, <4>1 DEF Kept
    <3>4. CASE PruneArtifacts(p)
      <4>1. ~Putting(q)
        BY <3>4 DEF PruneArtifacts
      <4>2. PICK d : d = proc[q].want
        OBVIOUS
      <4>3. ASSUME proc[q].at = "start" PROVE Hydrates(d)'
        <5>1. d \in snapshots /\ Graph(d) \in artifacts
          BY <3>1, <4>2, <4>3, PartsFacts DEF Kept, Hydrates
        <5> QED
          BY <1>8, <3>4, <5>1
      <4> QED
        BY <3>1, <3>2, <4>1, <4>2, <4>3 DEF Kept, Hydrates
    <3> QED
      BY <3>3, <3>4
  <2> QED
    BY <2>1, <2>2
<1>10. SurvivingRunsHydrate'
  <2> SUFFICES ASSUME NEW r \in Run, Unfinished(r), r \notin risky PROVE Hydrates(runs[r].digest)'
    BY <1>0 DEF SurvivingRunsHydrate, Unfinished
  <2>1. PICK d : d = runs[r].digest
    OBVIOUS
  <2>2. d \in snapshots /\ Graph(d) \in artifacts /\ Referenced(d)
    BY <2>1, PartsFacts DEF IndInv, SurvivingRunsHydrate, Hydrates, Referenced
  <2>3. Hydrates(d)'
    BY <1>8, <2>2
  <2> QED
    BY <1>0, <2>1, <2>3 DEF Hydrates
<1> QED
  BY <1>6, <1>7, <1>9, <1>10 DEF IndInv

\* Persist puts the graph first, then the manifest, then the snapshot.
LEMMA PutStep ==
  ASSUME IndInv, NEW p \in Process, PutArtifact(p) \/ PutSnapshot(p)
  PROVE  IndInv'
<1>0. /\ TypeOK /\ Typed /\ OneConfigPerRun
      /\ UNCHANGED <<applied, current, runs, used, raced, risky>>
      /\ snapshots \subseteq snapshots' /\ artifacts \subseteq artifacts'
  BY DEF IndInv, PutArtifact, PutSnapshot, ghosts
<1> DEFINE c == proc[p].want
           x == [proc[p] EXCEPT !.puts = Tail(@)]
           y == [proc[p] EXCEPT !.at = "start"]
<1>1. /\ proc[p] \in [at : {"pin", "start"}, want : {c}, puts : Puts(c)]
      /\ proc[p].at = "pin" /\ c \in Config
  <2>1. proc[p] \in Command /\ proc[p].at = "pin"
    BY <1>0 DEF Typed, PutArtifact, PutSnapshot
  <2> QED
    BY <2>1, CommandCases
<1>2. proc[p].puts \in Puts(c) /\ \A z \in [at : {"pin", "start"}, want : {c}, puts : Puts(c)] : z \in Command
  BY <1>1 DEF Command, Pinning
<1>3. CASE PutArtifact(p)
  <2>1. /\ proc[p].puts # <<>> /\ artifacts' = artifacts \cup {Head(proc[p].puts)}
        /\ proc' = [proc EXCEPT ![p] = x] /\ snapshots' = snapshots
    BY <1>3 DEF PutArtifact
  <2>2. /\ Tail(proc[p].puts) \in Puts(c) /\ Head(proc[p].puts) \in Artifacts(c)
        /\ proc[p].puts = Parts(c) => Head(proc[p].puts) = Graph(c)
        /\ Tail(proc[p].puts) # Parts(c)
    BY <1>2, <2>1, PartsFacts DEF Puts
  <2>3. x \in Command /\ x.at = "pin" /\ x.want = c /\ x.puts = Tail(proc[p].puts)
    BY <1>1, <1>2, <2>2
  <2> HIDE DEF x
  <2>4. /\ proc' \in [Process -> Command] /\ proc'[p] = x
        /\ \A q \in Process : q # p => proc'[q] = proc[q]
    BY <1>0, <2>1, <2>3, ProcStep
  <2>5. TypeOK' /\ Typed'
    BY <1>0, <1>1, <2>1, <2>2, <2>4 DEF TypeOK, Typed
  <2>6. OneConfigPerRun' /\ SurvivingRunsHydrate'
    BY <1>0, RunsFrame DEF IndInv, OneConfigPerRun
  <2>7. PinKept'
    <3>1. ASSUME p \notin raced PROVE Kept(p)'
      <4>1. Graph(c) \in artifacts'
        BY <1>1, <2>1, <2>2, <3>1 DEF IndInv, PinKept, Kept, Putting
      <4>2. proc'[p].want = c /\ proc'[p].at = "pin"
        BY <2>3, <2>4
      <4> QED
        BY <4>1, <4>2 DEF Kept, Graph
    <3>2. ASSUME NEW q \in Process, q # p, q \notin raced PROVE Kept(q)'
      BY <1>0, <2>4, <3>2, KeptFrame DEF IndInv, PinKept
    <3> QED
      BY <1>0, <3>1, <3>2 DEF PinKept
  <2> QED
    BY <2>5, <2>6, <2>7 DEF IndInv
<1>4. CASE PutSnapshot(p)
  <2>1. /\ proc[p].puts = <<>> /\ snapshots' = snapshots \cup {c}
        /\ proc' = [proc EXCEPT ![p] = y] /\ artifacts' = artifacts
    BY <1>4 DEF PutSnapshot
  <2>2. y \in Command /\ y.at = "start" /\ y.want = c
    BY <1>1, <1>2
  <2> HIDE DEF y
  <2>3. /\ proc' \in [Process -> Command] /\ proc'[p] = y
        /\ \A q \in Process : q # p => proc'[q] = proc[q]
    BY <1>0, <2>1, <2>2, ProcStep
  <2>4. TypeOK' /\ Typed'
    BY <1>0, <1>1, <2>1, <2>3 DEF TypeOK, Typed
  <2>5. OneConfigPerRun' /\ SurvivingRunsHydrate'
    BY <1>0, RunsFrame DEF IndInv, OneConfigPerRun
  <2>6. PinKept'
    <3>1. ASSUME p \notin raced PROVE Kept(p)'
      <4>1. Graph(c) \in artifacts /\ Parts(c)[1] = Graph(c)
        BY <1>1, <2>1, <3>1, PartsFacts DEF IndInv, PinKept, Kept, Putting
      <4>2. proc'[p].want = c /\ proc'[p].at = "start"
        BY <2>2, <2>3
      <4>3. Hydrates(proc[p].want)'
        BY <2>1, <4>1, <4>2 DEF Hydrates
      <4> QED
        BY <4>2, <4>3 DEF Kept, Putting
    <3>2. ASSUME NEW q \in Process, q # p, q \notin raced PROVE Kept(q)'
      BY <1>0, <2>3, <3>2, KeptFrame DEF IndInv, PinKept
    <3> QED
      BY <1>0, <3>1, <3>2 DEF PinKept
  <2> QED
    BY <2>4, <2>5, <2>6 DEF IndInv
<1> QED
  BY <1>3, <1>4

\* The run's row refers to the snapshot that was put.
LEMMA StartStep ==
  ASSUME IndInv, NEW p \in Process, NEW r \in Run, StartRun(p, r)
  PROVE  IndInv'
<1> DEFINE c == proc[p].want
           w == [status |-> "running", digest |-> c]
<1>0. /\ TypeOK /\ Typed /\ OneConfigPerRun
      /\ UNCHANGED <<applied, current, snapshots, artifacts>>
      /\ proc[p].at = "start"
      /\ runs' = [runs EXCEPT ![r] = w] /\ used' = [used EXCEPT ![r] = {c}]
      /\ proc' = [proc EXCEPT ![p] = Idle]
      /\ raced' = raced \ {p}
      /\ risky' = IF p \in raced THEN risky \cup {r} ELSE risky \ {r}
  BY DEF IndInv, StartRun, store
<1>1. c \in Config
  BY <1>0, CommandCases DEF Typed
<1>2. w \in Row /\ w.status = "running" /\ w.digest = c
  BY <1>1 DEF Row
<1> HIDE DEF w
<1>3. /\ runs' \in [Run -> Row] /\ runs'[r] = w /\ used' \in [Run -> SUBSET Config] /\ used'[r] = {c}
      /\ \A q \in Run : q # r => runs'[q] = runs[q] /\ used'[q] = used[q]
  BY <1>0, <1>1, <1>2 DEF TypeOK, Typed
<1>4. Idle \in Command /\ Idle.at = "idle"
  BY DEF Command, Idle
<1>5. /\ proc' \in [Process -> Command] /\ proc'[p] = Idle
      /\ \A q \in Process : q # p => proc'[q] = proc[q]
  BY <1>0, <1>4, ProcStep
<1>6. TypeOK' /\ Typed'
  BY <1>0, <1>1, <1>2, <1>3, <1>5 DEF TypeOK, Typed, Row
<1>7. OneConfigPerRun'
  BY <1>0, <1>2, <1>3 DEF OneConfigPerRun
<1>8. PinKept'
  <2>1. Kept(p)'
    BY <1>4, <1>5 DEF Kept, Putting
  <2>2. ASSUME NEW q \in Process, q # p, q \notin raced' PROVE Kept(q)'
    <3>1. Kept(q) /\ proc'[q] = proc[q]
      BY <1>0, <1>5, <2>2 DEF IndInv, PinKept
    <3> QED
      BY <1>0, <3>1, KeptFrame
  <2> QED
    BY <2>1, <2>2 DEF PinKept
<1>9. SurvivingRunsHydrate'
  <2>1. p \notin raced => Hydrates(c)
    BY <1>0 DEF IndInv, PinKept, Kept
  <2>2. ASSUME r \notin risky' PROVE Hydrates(runs[r].digest)'
    <3>1. p \notin raced /\ runs'[r].digest = c
      BY <1>0, <1>2, <1>3, <2>2
    <3> QED
      BY <1>0, <2>1, <3>1 DEF Hydrates
  <2>3. ASSUME NEW q \in Run, q # r, Unfinished(q)', q \notin risky' PROVE Hydrates(runs[q].digest)'
    <3>1. runs'[q] = runs[q] /\ q \notin risky
      BY <1>0, <1>3, <2>3
    <3> QED
      BY <1>0, <2>3, <3>1 DEF IndInv, SurvivingRunsHydrate, Unfinished, Hydrates
  <2> QED
    BY <2>2, <2>3 DEF SurvivingRunsHydrate
<1> QED
  BY <1>6, <1>7, <1>8, <1>9 DEF IndInv

\* Every step keeps the inductive invariant.
LEMMA NextInv == IndInv /\ [Next]_vars => IndInv'
<1> SUFFICES ASSUME IndInv, [Next]_vars PROVE IndInv'
  OBVIOUS
<1>1. CASE UNCHANGED vars
  <2>1. TypeOK' /\ Typed' /\ OneConfigPerRun'
    BY <1>1 DEF vars, IndInv, TypeOK, Typed, OneConfigPerRun
  <2>2. PinKept'
    BY <1>1, KeptFrame DEF vars, IndInv, PinKept
  <2>3. SurvivingRunsHydrate'
    BY <1>1, RunsFrame DEF vars, IndInv
  <2> QED
    BY <2>1, <2>2, <2>3 DEF IndInv
<1>2. CASE Next
  BY <1>2, ApplyStep, RunRowStep, BeginStep, PruneStep, PutStep, StartStep DEF Next
<1> QED
  BY <1>1, <1>2

-----------------------------------------------------------------------------
\* The deployment state keeps its types: only configurations are deployed,
\* pinned and executed, and only parts of configurations are stored.
THEOREM TypeCorrect == Spec => []TypeOK
<1>1. IndInv => TypeOK
  BY DEF IndInv
<1> QED
  BY <1>1, InitInv, NextInv, PTL DEF Spec

\* Every part of a run, over any number of resumes, executes the configuration
\* it was started with.
THEOREM ExecutesOneConfig == Spec => []OneConfigPerRun
<1>1. IndInv => OneConfigPerRun
  BY DEF IndInv
<1> QED
  BY <1>1, InitInv, NextInv, PTL DEF Spec

\* The snapshot an unfinished run pinned can always be hydrated, whatever any
\* number of processes apply, collect and start, unless the deletes of another's
\* collection fell between the puts of the run's own start.
THEOREM UnfinishedHydrate == Spec => []SurvivingRunsHydrate
<1>1. IndInv => SurvivingRunsHydrate
  BY DEF IndInv
<1> QED
  BY <1>1, InitInv, NextInv, PTL DEF Spec

\* A plan computed from one state of the rows is applied exactly or not at all.
THEOREM AppliesExactly == Spec => PlanIsExact
<1> DEFINE Exact == \A p \in Process : ApplyPlan(p) /\ proc[p].seen = proc[p].base
                      => (applied' = proc[p].want /\ current' = applied') \/ UNCHANGED store
<1>1. ASSUME IndInv PROVE Exact
  <2> SUFFICES ASSUME NEW p \in Process, ApplyPlan(p), proc[p].seen = proc[p].base
               PROVE  (applied' = proc[p].want /\ current' = applied') \/ UNCHANGED store
    OBVIOUS
  <2>1. CASE BaselineHolds(p)
    <3>1. proc[p].want \in Config /\ applied \in Rows
      BY <1>1, CommandCases DEF IndInv, Typed, ApplyPlan, Planned
    <3>2. /\ proc[p].seen = applied /\ Deploy(proc[p].want)
          /\ applied' = Executed(applied, proc[p].seen, proc[p].want)
      BY <2>1 DEF BaselineHolds, ApplyPlan
    <3> QED
      BY <3>1, <3>2, ExecutedRows DEF Deploy
  <2>2. CASE ~BaselineHolds(p)
    BY <2>2 DEF ApplyPlan
  <2> QED
    BY <2>1, <2>2
<1>2. IndInv => [Exact]_vars
  BY <1>1
<1> QED
  BY <1>2, InitInv, NextInv, PTL DEF Spec, PlanIsExact
=============================================================================
