------------------------- MODULE PolicyProofs ---------------------------------
(***************************************************************************)
(* Which policy a run executes under.  For any number of writers, runners   *)
(* and configurations (PolicySnapshot): a resumed run executes under the    *)
(* policies it pinned, and so does a first attempt whose policy file nobody *)
(* wrote since it was compared.  For any policies and any nesting of calls  *)
(* (PolicyMerge): what is in force inside is what all of them allow.  For   *)
(* any change of one (EffectPermits): the plan tells what it lets through.  *)
(***************************************************************************)
EXTENDS PolicySnapshot, PolicyMerge, EffectPermits, TLAPS

\* Where a run has a pinned snapshot: from the moment it is pinned, and not
\* before the row exists.
PinHeld(r) ==
  /\ rpc[r] \in {"root", "running", "paused", "ended"} => pin[r] # NoFile
  /\ rpc[r] = "pin" => pin[r] = NoFile
  /\ pinned[r] => pin[r] # NoFile
  /\ pin[r] = NoFile => used[r] = {}

\* What a first attempt executes: the configuration it compared with the file
\* and pinned, having used no policy before the root's.
FirstAttempt(r) ==
  ~pinned[r] =>
    /\ rpc[r] \in {"root", "running"} => pin[r] = rrc[r]
    /\ rpc[r] \in {"pin", "root"} => used[r] = {}
    /\ rpc[r] \in {"pin", "root", "running"} /\ quiet[r] => policyFile \in {NoFile, rrc[r]}

\* ResumedFromPin and UndisturbedFromPin of one run.
FromPin(r) == \A u \in used[r] : u.by => u.grants = Grants[pin[r]][u.name]
Undisturbed(r) ==
  rpc[r] = "running" /\ ~pinned[r] /\ quiet[r] =>
    \A u \in used[r] : u.grants = Grants[pin[r]][u.name]

RunInv(r) == PinHeld(r) /\ FirstAttempt(r) /\ FromPin(r) /\ Undisturbed(r)

\* The inductive invariant.
IndInv == TypeOK /\ \A r \in Runner : RunInv(r)

\* What a policy permits is an authority, and its name a name.
LEMMA GrantsTyped ==
  ASSUME NEW c \in Config, NEW n \in DOMAIN Grants[c]
  PROVE  n \in Names /\ Grants[c][n] \in Authority
BY DEF Names, Authority

\* The initial states: nothing pinned, nothing used.
LEMMA InitInv == Init => IndInv
BY FileAssumption
DEF Init, IndInv, TypeOK, File, RunInv, PinHeld, FirstAttempt, FromPin, Undisturbed

\* compiledWorkflowEvaluator finds the policy in the graph of this attempt, in
\* the file, or nowhere; a resume looks at the graph only.
LEMMA OriginCases ==
  ASSUME TypeOK, NEW g \in Config, NEW name \in DOMAIN Grants[g], NEW fromPin \in BOOLEAN,
         NEW c, c = Origin(g, name, fromPin), c # Torn
  PROVE  /\ c \in Config /\ name \in DOMAIN Grants[c]
         /\ fromPin => c = g
         /\ c = g \/ c = policyFile
BY FileAssumption DEF TypeOK, File, Origin

\* The graph of an attempt under way is a configuration.
LEMMA GraphTyped ==
  ASSUME IndInv, NEW r \in Runner, rpc[r] \in {"root", "running"}
  PROVE  Graph(r) \in Config
BY DEF IndInv, TypeOK, RunInv, PinHeld, Graph

\* The policy of a workflow is evaluated: the types and the run's invariant.
LEMMA EvaluatedStep ==
  ASSUME IndInv, NEW r \in Runner, rpc[r] \in {"root", "running"},
         NEW name \in DOMAIN Grants[Graph(r)],
         CompiledWorkflowEvaluator(r, name, "running")
  PROVE  TypeOK' /\ RunInv(r)'
<1> DEFINE c == Origin(Graph(r), name, pinned[r])
           u == [name |-> name, by |-> pinned[r], grants |-> Grants[c][name]]
<1>1. Graph(r) \in Config
  BY GraphTyped
<1>2. pinned[r] \in BOOLEAN /\ pin[r] \in Config
  BY DEF IndInv, TypeOK, RunInv, PinHeld
<1>3. UNCHANGED <<source, configFile, policyFile, wpc, wrc, rrc, pin, pinned, quiet>>
  BY DEF CompiledWorkflowEvaluator, Evaluated, writer
<1>4. CASE c = Torn
  <2>1. rpc' = [rpc EXCEPT ![r] = "ended"] /\ used' = used
    BY <1>4 DEF CompiledWorkflowEvaluator, Evaluated, Goto
  <2>2. TypeOK'
    BY <1>3, <2>1 DEF IndInv, TypeOK
  <2>3. RunInv(r)'
    BY <1>2, <1>3, <2>1, FileAssumption
    DEF IndInv, TypeOK, RunInv, PinHeld, FirstAttempt, FromPin, Undisturbed
  <2> QED
    BY <2>2, <2>3
<1>5. CASE c # Torn
  <2>1. /\ c \in Config /\ name \in DOMAIN Grants[c]
        /\ pinned[r] => c = Graph(r)
        /\ c = Graph(r) \/ c = policyFile
    BY <1>1, <1>2, <1>5, OriginCases DEF IndInv
  <2> HIDE DEF c
  <2>2. /\ rpc' = [rpc EXCEPT ![r] = "running"]
        /\ used' = [used EXCEPT ![r] = @ \cup {u}]
    BY <1>5 DEF CompiledWorkflowEvaluator, Evaluated, Goto, c
  <2>3. u \in [name : Names, by : BOOLEAN, grants : Authority]
    BY <1>2, <2>1, GrantsTyped
  <2>4. /\ u.name = name /\ u.by = pinned[r] /\ u.grants = Grants[c][name]
    OBVIOUS
  <2> HIDE DEF u
  <2>5. used[r]' = used[r] \cup {u} /\ rpc[r]' = "running"
    BY <2>2 DEF IndInv, TypeOK
  <2>6. TypeOK'
    BY <1>3, <2>2, <2>3 DEF IndInv, TypeOK
  <2>7. PinHeld(r)'
    BY <1>2, <1>3, <2>5, FileAssumption DEF PinHeld
  <2>8. FirstAttempt(r)'
    BY <1>3, <2>5 DEF IndInv, RunInv, FirstAttempt
  <2>9. FromPin(r)'
    <3>1. pinned[r] => c = pin[r]
      BY <2>1 DEF Graph
    <3> QED
      BY <1>3, <2>4, <2>5, <3>1 DEF IndInv, RunInv, FromPin
  <2>10. Undisturbed(r)'
    <3>1. SUFFICES ASSUME ~pinned[r], quiet[r], NEW v \in used[r] \cup {u}
                   PROVE  v.grants = Grants[pin[r]][v.name]
      BY <1>3, <2>5 DEF Undisturbed
    <3>2. pin[r] = rrc[r] /\ policyFile \in {NoFile, rrc[r]}
      BY <3>1 DEF IndInv, RunInv, FirstAttempt
    <3>3. c = pin[r]
      BY <2>1, <3>1, <3>2, FileAssumption DEF Graph
    <3>4. CASE v \in used[r]
      <4>1. rpc[r] = "running"
        BY <3>1, <3>4 DEF IndInv, RunInv, FirstAttempt
      <4> QED
        BY <3>1, <3>4, <4>1 DEF IndInv, RunInv, Undisturbed
    <3>5. CASE v = u
      BY <2>4, <3>3, <3>5
    <3> QED
      BY <3>4, <3>5
  <2> QED
    BY <2>6, <2>7, <2>8, <2>9, <2>10 DEF RunInv
<1> QED
  BY <1>4, <1>5

\* A step of one run leaves the others as they are: what RunInv says of a run
\* is about its own variables and the policy file.
LEMMA OthersKept ==
  ASSUME IndInv, NEW s \in Runner, NEW r \in Runner, r # s, Run(s)
  PROVE  RunInv(r)'
<1> USE DEF TypeOK, Goto
<1>1. /\ policyFile' = policyFile /\ rpc[r]' = rpc[r] /\ rrc[r]' = rrc[r]
      /\ pin[r]' = pin[r] /\ pinned[r]' = pinned[r] /\ used[r]' = used[r]
      /\ quiet[r]' = quiet[r]
  <2> USE DEF IndInv
  <2>1. CASE Command(s) \/ AssertSnapshotMatchesStored(s)
    BY <2>1 DEF Command, AssertSnapshotMatchesStored
  <2>2. CASE AssertSnapshotMatchesCompiled(s)
    BY <2>2 DEF AssertSnapshotMatchesCompiled, Compared
  <2>3. CASE PinDeploymentSnapshot(s)
    BY <2>3 DEF PinDeploymentSnapshot, Pinned
  <2>4. CASE RunRoot(s) \/ CallWorkflow(s)
    BY <2>4 DEF RunRoot, CallWorkflow, CompiledWorkflowEvaluator, Evaluated
  <2>5. CASE Leave(s)
    BY <2>5 DEF Leave
  <2> QED
    BY <2>1, <2>2, <2>3, <2>4, <2>5 DEF Run
<1> QED
  BY <1>1 DEF IndInv, RunInv, PinHeld, FirstAttempt, FromPin, Undisturbed

\* A runner's own step keeps the types and the invariant of its run.
LEMMA RunStep ==
  ASSUME IndInv, NEW r \in Runner, Run(r)
  PROVE  TypeOK' /\ RunInv(r)'
<1>0. RunInv(r) /\ TypeOK
  BY DEF IndInv
<1>1. CASE Command(r)
  BY <1>0, <1>1
  DEF Command, Goto, writer, TypeOK, RunInv, PinHeld, FirstAttempt, FromPin, Undisturbed
<1>2. CASE AssertSnapshotMatchesStored(r)
  BY <1>0, <1>2
  DEF AssertSnapshotMatchesStored, Refused, Goto, writer, TypeOK, RunInv, PinHeld, FirstAttempt,
      FromPin, Undisturbed
<1>3. CASE AssertSnapshotMatchesCompiled(r)
  <2> USE <1>0, <1>3 DEF AssertSnapshotMatchesCompiled, Compared, Refused, Goto, writer, TypeOK
  <2>1. TypeOK'
    OBVIOUS
  <2>2. PinHeld(r)'
    BY DEF RunInv, PinHeld
  <2>3. FirstAttempt(r)'
    BY DEF RunInv, PinHeld, FirstAttempt
  <2>4. FromPin(r)' /\ Undisturbed(r)'
    BY DEF RunInv, FromPin, Undisturbed
  <2> QED
    BY <2>1, <2>2, <2>3, <2>4 DEF RunInv
<1>4. CASE PinDeploymentSnapshot(r)
  <2> USE <1>0, <1>4, FileAssumption DEF PinDeploymentSnapshot, Pinned, Goto, writer, TypeOK
  <2>1. TypeOK'
    OBVIOUS
  <2>2. PinHeld(r)' /\ FirstAttempt(r)'
    BY DEF RunInv, PinHeld, FirstAttempt
  <2>3. FromPin(r)' /\ Undisturbed(r)'
    BY DEF RunInv, PinHeld, FromPin, Undisturbed
  <2> QED
    BY <2>1, <2>2, <2>3 DEF RunInv
<1>5. CASE RunRoot(r)
  <2>1. Root \in DOMAIN Grants[Graph(r)]
    BY <1>5, GraphTyped, GrantsAssumption DEF RunRoot
  <2> QED
    BY <1>5, <2>1, EvaluatedStep DEF RunRoot
<1>6. CASE CallWorkflow(r)
  BY <1>6, EvaluatedStep DEF CallWorkflow
<1>7. CASE Leave(r)
  BY <1>0, <1>7
  DEF Leave, writer, TypeOK, RunInv, PinHeld, FirstAttempt, FromPin, Undisturbed
<1> QED
  BY <1>1, <1>2, <1>3, <1>4, <1>5, <1>6, <1>7 DEF Run

\* A writer's step: the runs' own variables stay, and once the policy file
\* changes no run is quiet.
LEMMA WriteStep ==
  ASSUME IndInv, NEW w \in Writer, Write(w)
  PROVE  IndInv'
<1>0. TypeOK /\ UNCHANGED runner
  BY DEF IndInv, Write, Resolve, OpenConfig, WriteConfig, OpenPolicy, WritePolicy, Abort
<1>1. TypeOK'
  <2> USE <1>0 DEF TypeOK, Turn, runner, Body, File, Disturbed
  <2>1. CASE Resolve(w)
    BY <2>1 DEF Resolve
  <2>2. CASE OpenConfig(w)
    BY <2>2 DEF OpenConfig
  <2>3. CASE WriteConfig(w)
    BY <2>3 DEF WriteConfig
  <2>4. CASE OpenPolicy(w)
    BY <2>4 DEF OpenPolicy
  <2>5. CASE WritePolicy(w)
    BY <2>5 DEF WritePolicy
  <2>6. CASE Abort(w)
    BY <2>6 DEF Abort
  <2> QED
    BY <2>1, <2>2, <2>3, <2>4, <2>5, <2>6 DEF Write
<1>2. UNCHANGED <<policyFile, quiet>> \/ quiet' = [r \in Runner |-> FALSE]
  BY DEF Write, Resolve, OpenConfig, WriteConfig, OpenPolicy, WritePolicy, Abort, Disturbed
<1>3. ASSUME NEW r \in Runner PROVE RunInv(r)'
  BY <1>0, <1>2, <1>3
  DEF IndInv, runner, RunInv, PinHeld, FirstAttempt, FromPin, Undisturbed
<1> QED
  BY <1>1, <1>3 DEF IndInv

\* Every step keeps the inductive invariant.
LEMMA NextInv == IndInv /\ [Next]_vars => IndInv'
<1> SUFFICES ASSUME IndInv, [Next]_vars PROVE IndInv'
  OBVIOUS
<1>1. CASE Edit
  BY <1>1
  DEF Edit, writer, runner, IndInv, TypeOK, RunInv, PinHeld, FirstAttempt, FromPin, Undisturbed
<1>2. ASSUME NEW w \in Writer, Write(w) PROVE IndInv'
  BY <1>2, WriteStep
<1>3. ASSUME NEW r \in Runner, Run(r) PROVE IndInv'
  BY <1>3, RunStep, OthersKept DEF IndInv
<1>4. CASE UNCHANGED vars
  BY <1>4
  DEF vars, IndInv, TypeOK, RunInv, PinHeld, FirstAttempt, FromPin, Undisturbed
<1> QED
  BY <1>1, <1>2, <1>3, <1>4 DEF Next

\* The variables of the snapshot protocol keep their types: what a workflow
\* executed under is always a policy that some configuration compiled.
THEOREM TypeCorrect == Spec => []TypeOK
<1>1. IndInv => TypeOK
  BY DEF IndInv
<1> QED
  BY <1>1, InitInv, NextInv, PTL DEF Spec

\* A resumed run executes every workflow under the policies it pinned.
THEOREM ResumesFromPin == Spec => []ResumedFromPin
<1>1. IndInv => ResumedFromPin
  BY DEF IndInv, RunInv, FromPin, ResumedFromPin
<1> QED
  BY <1>1, InitInv, NextInv, PTL DEF Spec

\* A first attempt executes under the policies it pins as long as nobody writes
\* policy-snapshot.json after it was compared.
THEOREM QuietRunsFromPin == Spec => []UndisturbedFromPin
<1>1. IndInv => UndisturbedFromPin
  BY DEF IndInv, RunInv, Undisturbed, UndisturbedFromPin
<1> QED
  BY <1>1, InitInv, NextInv, PTL DEF Spec
-----------------------------------------------------------------------------
(* The policy in force inside nested calls. *)

\* The policies of the first k of the frames fs.
Upto(fs, k) == {fs[i].policy : i \in 1..k}

\* The ceilings of frame k are the tightest so far.
Ceilings(c, P) ==
  /\ \A p \in P : p.cost > 0 => c.cost \in 1..p.cost
  /\ \E p \in P : c.cost = p.cost
  /\ \A p \in P : IterationCeiling(c.iters) <= IterationCeiling(p.iters)
  /\ \E p \in P : IterationCeiling(c.iters) = IterationCeiling(p.iters)

\* What a review under c offers is what it offers under all of P, and what one of
\* P denies c denies.
Reviewed(c, P) ==
  /\ c.entry = NoEntry <=> \A p \in P : p.entry = NoEntry
  /\ (\A p \in P : p.entry # NoEntry) =>
       \A d \in Decisions \ {"switch"} :
         d \in ReviewDecisions(c) <=> \A p \in P : d \in ReviewDecisions(p)
  /\ \A p \in P : Configured(p) => Configured(c) /\ p.entry.denied \subseteq c.entry.denied

Strictest(c, P) == Ceilings(c, P) /\ Reviewed(c, P)

\* The inductive invariant: every frame, not the top one alone, since a return
\* makes another the top.
MergeInv ==
  /\ frames \in Seq([policy : Policy, inForce : PolicySpec])
  /\ Len(frames) \in 1..(MaxWorkflowNesting + 1)
  /\ \A k \in DOMAIN frames : Strictest(frames[k].inForce, Upto(frames, k))

\* The merge of budgets, of ceilings, of decisions.
LEMMA TighterMin ==
  ASSUME NEW a \in Nat, NEW b \in Nat
  PROVE  /\ Tighter(a, b) \in {a, b}
         /\ a > 0 => Tighter(a, b) \in 1..a
         /\ b > 0 => Tighter(a, b) \in 1..b
BY DEF Tighter

\* The merged iteration ceiling is the smaller of the two, zero being the default.
LEMMA IterationsMin ==
  ASSUME NEW a \in Nat, NEW b \in Nat
  PROVE  LET c == IterationCeiling(MergeIterations(a, b))
         IN /\ c \in {IterationCeiling(a), IterationCeiling(b)}
            /\ c <= IterationCeiling(a) /\ c <= IterationCeiling(b)
            /\ MergeIterations(a, b) \in Nat
BY PolicyMergeAssumption DEF IterationCeiling, MergeIterations

\* Joined lists and maps of operations or arguments are such lists and maps.
LEMMA Joined ==
  /\ \A S : \A a, b \in SUBSET S : JoinAllowList(a, b) \in SUBSET S
  /\ \A f, g \in [Op -> SUBSET Op] : JoinAllowMap(f, g) \in [Op -> SUBSET Op]
<1>1. ASSUME NEW S, NEW a \in SUBSET S, NEW b \in SUBSET S PROVE JoinAllowList(a, b) \in SUBSET S
  BY DEF JoinAllowList
<1>2. ASSUME NEW f \in [Op -> SUBSET Op], NEW g \in [Op -> SUBSET Op]
      PROVE  JoinAllowMap(f, g) \in [Op -> SUBSET Op]
  BY <1>1 DEF JoinAllowMap
<1> QED
  BY <1>1, <1>2

\* What an entry permits is what a review under it offers, switches aside.
LEMMA EffectiveReview ==
  ASSUME NEW p \in PolicySpec, p.entry # NoEntry,
         NEW d \in Decisions \ {"switch"}
  PROVE  d \in EffectiveDecisions(p.entry) <=> d \in ReviewDecisions(p)
<1>1. p.entry = Plain \/ p.entry \in HitlEntry
  BY DEF PolicySpec
<1>2. CASE p.entry = Plain
  BY <1>2 DEF EffectiveDecisions, ReviewDecisions, DefaultDecisions, Configured
<1>3. CASE p.entry \in HitlEntry
  <2>1. p.entry \notin {NoEntry, Plain}
    BY <1>3, PolicyMergeAssumption
  <2> QED
    BY <2>1 DEF EffectiveDecisions, ReviewDecisions, DefaultDecisions, Configured
<1> QED
  BY <1>1, <1>2, <1>3

\* mergeHitlInterruptValue, on one gated tool.
LEMMA EntryMerged ==
  ASSUME NEW a \in {Plain} \cup HitlEntry, NEW b \in {Plain} \cup HitlEntry,
         NEW c, c = MergeEntry(a, b)
  PROVE  /\ a = Plain /\ b = Plain => c = Plain
         /\ ~(a = Plain /\ b = Plain) =>
              /\ c \in HitlEntry
              /\ c.decisions = IntersectDecisions(EffectiveDecisions(a), EffectiveDecisions(b))
              /\ a # Plain => a.denied \subseteq c.denied
              /\ b # Plain => b.denied \subseteq c.denied
<1> DEFINE E == IntersectDecisions(EffectiveDecisions(a), EffectiveDecisions(b))
           f == MergeFields(a, b)
<1>1. CASE a = Plain /\ b = Plain
  BY <1>1 DEF MergeEntry
<1>2. CASE ~(a = Plain /\ b = Plain)
  <2>1. c = [f EXCEPT !.decisions = E]
    BY <1>2 DEF MergeEntry
  <2>2. E \in SUBSET (Decisions \cup {DenyAll})
    <3>1. ASSUME NEW e \in {Plain} \cup HitlEntry
          PROVE  EffectiveDecisions(e) \in SUBSET (Decisions \cup {DenyAll})
      <4>1. CASE e = Plain
        BY <4>1 DEF EffectiveDecisions, DefaultDecisions, Decisions
      <4>2. CASE e # Plain
        <5>1. e.decisions \in SUBSET (Decisions \cup {DenyAll})
          BY <4>2 DEF HitlEntry
        <5> QED
          BY <4>2, <5>1 DEF EffectiveDecisions, DefaultDecisions, Decisions
      <4> QED
        BY <4>1, <4>2
    <3> QED
      BY <3>1 DEF IntersectDecisions
  <2>3. /\ f \in HitlEntry
        /\ a # Plain => a.denied \subseteq f.denied
        /\ b # Plain => b.denied \subseteq f.denied
    <3>1. CASE a = Plain
      BY <1>2, <3>1 DEF MergeFields
    <3>2. CASE a # Plain /\ b = Plain
      BY <1>2, <3>2 DEF MergeFields
    <3>3. CASE a # Plain /\ b # Plain
      <4>1. a \in HitlEntry /\ b \in HitlEntry
        BY <3>3
      <4>2. /\ a.args \in SUBSET Arg /\ b.args \in SUBSET Arg /\ a.paths \in SUBSET Arg /\ b.paths \in SUBSET Arg
            /\ a.denied \in SUBSET Arg /\ b.denied \in SUBSET Arg /\ a.tools \in SUBSET Op /\ b.tools \in SUBSET Op
            /\ a.switch \in [Op -> SUBSET Op] /\ b.switch \in [Op -> SUBSET Op]
        BY <4>1 DEF HitlEntry
      <4>3. /\ JoinAllowList(a.args, b.args) \in SUBSET Arg
            /\ JoinAllowList(a.paths, b.paths) \in SUBSET Arg
            /\ JoinAllowList(a.tools, b.tools) \in SUBSET Op
            /\ JoinAllowMap(a.switch, b.switch) \in [Op -> SUBSET Op]
            /\ UnionDenials(a.denied, b.denied) = a.denied \cup b.denied
        BY <4>2, Joined DEF UnionDenials
      <4>4. f = [decisions |-> {}, args |-> JoinAllowList(a.args, b.args),
                 paths |-> JoinAllowList(a.paths, b.paths),
                 denied |-> UnionDenials(a.denied, b.denied),
                 tools |-> JoinAllowList(a.tools, b.tools),
                 switch |-> JoinAllowMap(a.switch, b.switch)]
        BY <3>3 DEF MergeFields
      <4> HIDE DEF f
      <4> QED
        BY <4>2, <4>3, <4>4 DEF HitlEntry
    <3> QED
      BY <3>1, <3>2, <3>3
  <2> HIDE DEF f, E
  <2>4. c \in HitlEntry /\ c.decisions = E /\ c.denied = f.denied
    BY <2>1, <2>2, <2>3 DEF HitlEntry
  <2> QED
    BY <1>2, <2>3, <2>4 DEF E
<1> QED
  BY <1>1, <1>2

\* mergeStricterPolicySpec, its reviews and denials.
LEMMA SpecMerged ==
  ASSUME NEW a \in PolicySpec, NEW b \in PolicySpec,
         NEW c, c = MergeStricterPolicySpec(a, b)
  PROVE  /\ c \in PolicySpec
         /\ c.entry = NoEntry <=> a.entry = NoEntry /\ b.entry = NoEntry
         /\ a.entry # NoEntry /\ b.entry # NoEntry =>
              \A d \in Decisions \ {"switch"} :
                d \in ReviewDecisions(c) <=> d \in ReviewDecisions(a) /\ d \in ReviewDecisions(b)
         /\ Configured(a) => Configured(c) /\ a.entry.denied \subseteq c.entry.denied
         /\ Configured(b) => Configured(c) /\ b.entry.denied \subseteq c.entry.denied
<1> DEFINE e == MergeStricterHitl(a.entry, b.entry)
<1>1. /\ a.cost \in Nat /\ b.cost \in Nat /\ a.iters \in Nat /\ b.iters \in Nat
      /\ a.entry \in {NoEntry, Plain} \cup HitlEntry /\ b.entry \in {NoEntry, Plain} \cup HitlEntry
      /\ a.switch \in [Op -> SUBSET Op] /\ b.switch \in [Op -> SUBSET Op]
  BY DEF PolicySpec
<1>2. NoEntry # Plain /\ NoEntry \notin HitlEntry /\ Plain \notin HitlEntry
  BY PolicyMergeAssumption
<1>3. /\ e \in {NoEntry, Plain} \cup HitlEntry
      /\ e = NoEntry <=> a.entry = NoEntry /\ b.entry = NoEntry
      /\ a.entry \notin {NoEntry, Plain} => e \notin {NoEntry, Plain} /\ a.entry.denied \subseteq e.denied
      /\ b.entry \notin {NoEntry, Plain} => e \notin {NoEntry, Plain} /\ b.entry.denied \subseteq e.denied
  <2>1. CASE a.entry = NoEntry \/ b.entry = NoEntry
    BY <1>1, <2>1 DEF MergeStricterHitl
  <2>2. CASE a.entry # NoEntry /\ b.entry # NoEntry
    <3>1. e = MergeEntry(a.entry, b.entry)
      BY <2>2 DEF MergeStricterHitl
    <3> HIDE DEF e
    <3>2. a.entry \in {Plain} \cup HitlEntry /\ b.entry \in {Plain} \cup HitlEntry
      BY <1>1, <2>2
    <3> QED
      BY <1>2, <2>2, <3>1, <3>2, EntryMerged
  <2> QED
    BY <2>1, <2>2
<1>4. /\ c = [cost |-> Tighter(a.cost, b.cost), iters |-> MergeIterations(a.iters, b.iters),
              entry |-> e, switch |-> JoinAllowMap(a.switch, b.switch)]
      /\ c.entry = e
  BY DEF MergeStricterPolicySpec
<1>5. c \in PolicySpec
  <2>1. Tighter(a.cost, b.cost) \in Nat
    BY <1>1, TighterMin
  <2>2. MergeIterations(a.iters, b.iters) \in Nat
    BY <1>1, IterationsMin
  <2>3. JoinAllowMap(a.switch, b.switch) \in [Op -> SUBSET Op]
    BY <1>1, Joined
  <2> HIDE DEF e
  <2> QED
    BY <1>3, <1>4, <2>1, <2>2, <2>3 DEF PolicySpec
<1>6. ASSUME a.entry # NoEntry, b.entry # NoEntry, NEW d \in Decisions \ {"switch"}
      PROVE  d \in ReviewDecisions(c) <=> d \in ReviewDecisions(a) /\ d \in ReviewDecisions(b)
  <2>1. /\ d \in EffectiveDecisions(a.entry) <=> d \in ReviewDecisions(a)
        /\ d \in EffectiveDecisions(b.entry) <=> d \in ReviewDecisions(b)
    BY <1>6, EffectiveReview
  <2>2. c.entry = MergeEntry(a.entry, b.entry)
    BY <1>4, <1>6 DEF MergeStricterHitl
  <2>3. a.entry \in {Plain} \cup HitlEntry /\ b.entry \in {Plain} \cup HitlEntry
    BY <1>1, <1>6
  <2>4. CASE a.entry = Plain /\ b.entry = Plain
    <3>1. c.entry = Plain
      BY <2>2, <2>3, <2>4, EntryMerged
    <3> QED
      BY <2>4, <3>1 DEF ReviewDecisions, Configured, DefaultDecisions
  <2>5. CASE ~(a.entry = Plain /\ b.entry = Plain)
    <3> DEFINE A == EffectiveDecisions(a.entry)
               B == EffectiveDecisions(b.entry)
    <3>1. c.entry \in HitlEntry /\ c.entry.decisions = IntersectDecisions(A, B)
      BY <2>2, <2>3, <2>5, EntryMerged
    <3>2. c.entry \notin {NoEntry, Plain}
      BY <1>2, <3>1
    <3> HIDE DEF A, B
    <3>3. /\ IntersectDecisions(A, B) # {}
          /\ d \in IntersectDecisions(A, B) <=> d \in A /\ d \in B
      BY DEF IntersectDecisions, Decisions, DenyAll
    <3>4. d \in ReviewDecisions(c) <=> d \in c.entry.decisions
      BY <3>1, <3>2, <3>3 DEF ReviewDecisions, Configured
    <3> QED
      BY <2>1, <3>1, <3>3, <3>4 DEF A, B
  <2> QED
    BY <2>4, <2>5
<1> HIDE DEF e
<1> QED
  BY <1>3, <1>4, <1>5, <1>6 DEF Configured

\* A policy alone is its own strictest, and a merge adds one more.
LEMMA StrictestAlone == ASSUME NEW p \in PolicySpec PROVE Strictest(p, {p})
<1>1. p.cost \in Nat /\ IterationCeiling(p.iters) \in Nat
  BY PolicyMergeAssumption DEF PolicySpec, IterationCeiling
<1> QED
  BY <1>1 DEF Strictest, Ceilings, Reviewed

\* Merging one more policy into a strictest one gives a strictest one.
LEMMA StrictestMerged ==
  ASSUME NEW P \in SUBSET PolicySpec, NEW a \in PolicySpec,
         NEW p \in PolicySpec, Strictest(a, P), P # {}, NEW c, c = MergeStricterPolicySpec(a, p)
  PROVE  Strictest(c, P \cup {p})
<1>1. /\ a.cost \in Nat /\ p.cost \in Nat /\ a.iters \in Nat /\ p.iters \in Nat
      /\ c.cost = Tighter(a.cost, p.cost) /\ c.iters = MergeIterations(a.iters, p.iters)
  BY DEF PolicySpec, MergeStricterPolicySpec
<1>2. Ceilings(c, P \cup {p})
  <2>1. /\ c.cost \in {a.cost, p.cost}
        /\ a.cost > 0 => c.cost \in 1..a.cost
        /\ p.cost > 0 => c.cost \in 1..p.cost
    BY <1>1, TighterMin
  <2>2. ASSUME NEW q \in P, q.cost > 0 PROVE c.cost \in 1..q.cost
    <3>1. a.cost \in 1..q.cost /\ q.cost \in Nat
      BY <2>2 DEF Strictest, Ceilings, PolicySpec
    <3> QED
      BY <2>1, <3>1
  <2>3. \E q \in P \cup {p} : c.cost = q.cost
    BY <2>1 DEF Strictest, Ceilings
  <2> DEFINE I(x) == IterationCeiling(x)
  <2>4. I(c.iters) \in {I(a.iters), I(p.iters)} /\ I(c.iters) <= I(a.iters) /\ I(c.iters) <= I(p.iters)
    BY <1>1, IterationsMin
  <2>5. \A n \in Nat : I(n) \in Nat
    BY PolicyMergeAssumption DEF IterationCeiling
  <2> HIDE DEF I
  <2>6. ASSUME NEW q \in P PROVE I(c.iters) <= I(q.iters)
    <3>1. I(a.iters) <= I(q.iters)
      BY DEF Strictest, Ceilings, I
    <3>2. q.iters \in Nat
      BY DEF PolicySpec
    <3>3. I(q.iters) \in Nat /\ I(a.iters) \in Nat /\ I(p.iters) \in Nat
      BY <1>1, <2>5, <3>2
    <3> QED
      BY <2>4, <3>1, <3>3
  <2>7. \E q \in P \cup {p} : I(c.iters) = I(q.iters)
    BY <2>4 DEF Strictest, Ceilings, I
  <2> QED
    BY <2>1, <2>2, <2>3, <2>4, <2>6, <2>7 DEF Ceilings, I
<1>3. Reviewed(c, P \cup {p})
  <2>1. /\ c.entry = NoEntry <=> a.entry = NoEntry /\ p.entry = NoEntry
        /\ a.entry # NoEntry /\ p.entry # NoEntry =>
             \A d \in Decisions \ {"switch"} :
               d \in ReviewDecisions(c) <=> d \in ReviewDecisions(a) /\ d \in ReviewDecisions(p)
        /\ Configured(a) => Configured(c) /\ a.entry.denied \subseteq c.entry.denied
        /\ Configured(p) => Configured(c) /\ p.entry.denied \subseteq c.entry.denied
    BY SpecMerged
  <2>2. Reviewed(a, P)
    BY DEF Strictest
  <2>3. c.entry = NoEntry <=> \A q \in P \cup {p} : q.entry = NoEntry
    BY <2>1, <2>2 DEF Reviewed
  <2>4. ASSUME \A q \in P \cup {p} : q.entry # NoEntry, NEW d \in Decisions \ {"switch"}
        PROVE  d \in ReviewDecisions(c) <=> \A q \in P \cup {p} : d \in ReviewDecisions(q)
    <3>1. p.entry # NoEntry /\ \A q \in P : q.entry # NoEntry
      BY <2>4
    <3>2. a.entry # NoEntry
      BY <2>2, <3>1 DEF Reviewed
    <3>3. d \in ReviewDecisions(a) <=> \A q \in P : d \in ReviewDecisions(q)
      BY <2>2, <3>1 DEF Reviewed
    <3> QED
      BY <2>1, <3>1, <3>2, <3>3
  <2>5. ASSUME NEW q \in P \cup {p}, Configured(q)
        PROVE  Configured(c) /\ q.entry.denied \subseteq c.entry.denied
    BY <2>1, <2>2, <2>5 DEF Reviewed
  <2> QED
    BY <2>3, <2>4, <2>5 DEF Reviewed
<1> QED
  BY <1>2, <1>3 DEF Strictest

\* The invariant.
LEMMA MergeInit == StackInit => MergeInv
<1> SUFFICES ASSUME StackInit PROVE MergeInv
  OBVIOUS
<1>1. PICK p \in Policy : frames = <<[policy |-> p, inForce |-> p]>>
  BY DEF StackInit
<1>2. p \in PolicySpec /\ MaxWorkflowNesting \in Nat
  BY PolicyMergeAssumption
<1>3. /\ frames \in Seq([policy : Policy, inForce : PolicySpec]) /\ Len(frames) = 1
      /\ DOMAIN frames = {1} /\ frames[1].policy = p /\ frames[1].inForce = p
  BY <1>1, <1>2
<1>4. Upto(frames, 1) = {p}
  BY <1>3 DEF Upto
<1> QED
  BY <1>2, <1>3, <1>4, StrictestAlone DEF MergeInv

\* A call merges one more policy and a return makes an earlier frame the top.
LEMMA MergeStep == MergeInv /\ [StackNext]_frames => MergeInv'
<1> SUFFICES ASSUME MergeInv, [StackNext]_frames PROVE MergeInv'
  OBVIOUS
<1> DEFINE Frame == [policy : Policy, inForce : PolicySpec]
<1>1. /\ frames \in Seq(Frame) /\ Len(frames) \in 1..(MaxWorkflowNesting + 1)
      /\ MaxWorkflowNesting \in Nat /\ Policy \subseteq PolicySpec
      /\ \A k \in DOMAIN frames : Strictest(frames[k].inForce, Upto(frames, k))
  BY PolicyMergeAssumption DEF MergeInv
<1> HIDE DEF Frame
<1>0. frames \in Seq(Frame)
  BY <1>1
<1>2. ASSUME NEW i \in DOMAIN frames PROVE frames[i].policy \in Policy /\ frames[i].inForce \in PolicySpec
  <2>1. frames[i] \in Frame
    BY <1>0
  <2> QED
    BY <2>1 DEF Frame
<1>3. DOMAIN frames = 1..Len(frames) /\ Len(frames) \in Nat /\ Len(frames) >= 1
  BY <1>1
\* Frames that are kept keep what holds of them.
<1>4. ASSUME NEW n \in 0..Len(frames), \A i \in 1..n : frames'[i] = frames[i], NEW k \in 1..n
      PROVE  Strictest(frames'[k].inForce, Upto(frames', k))
  <2>1. k \in DOMAIN frames /\ \A i \in 1..k : i \in 1..n
    BY <1>3
  <2>2. Upto(frames', k) = Upto(frames, k)
    BY <1>4, <2>1 DEF Upto
  <2> QED
    BY <1>1, <1>4, <2>1, <2>2
<1>5. ASSUME NEW p \in Policy, InvokeWorkflow(p) PROVE MergeInv'
  <2> DEFINE top == frames[Len(frames)].inForce
  <2>1. PICK c : c = MergeStricterPolicySpec(top, p)
    OBVIOUS
  <2>2. frames' = Append(frames, [policy |-> p, inForce |-> c]) /\ Len(frames) <= MaxWorkflowNesting
    BY <1>5, <2>1 DEF InvokeWorkflow, Top, DepthAllowed
  <2>3. Len(frames) \in DOMAIN frames
    BY <1>3
  <2>4. top \in PolicySpec /\ p \in PolicySpec /\ Strictest(top, Upto(frames, Len(frames)))
    BY <1>1, <1>2, <2>3
  <2>5. c \in PolicySpec
    BY <1>1, <2>1, <2>4, SpecMerged
  <2>6. [policy |-> p, inForce |-> c] \in Frame
    BY <2>5 DEF Frame
  <2>7. /\ frames' \in Seq(Frame) /\ Len(frames') = Len(frames) + 1 /\ DOMAIN frames' = 1..(Len(frames) + 1)
        /\ \A i \in 1..Len(frames) : frames'[i] = frames[i]
        /\ frames'[Len(frames) + 1].policy = p /\ frames'[Len(frames) + 1].inForce = c
    <3>1. PICK f \in Frame : f.policy = p /\ f.inForce = c /\ frames' = Append(frames, f)
      BY <2>2, <2>6
    <3> QED
      BY <1>0, <3>1
  <2>8. Strictest(c, Upto(frames', Len(frames) + 1))
    <3>1. Upto(frames', Len(frames) + 1) = Upto(frames, Len(frames)) \cup {p}
      <4>1. 1..(Len(frames) + 1) = 1..Len(frames) \cup {Len(frames) + 1}
        BY <1>3
      <4>2. {frames'[i].policy : i \in 1..Len(frames)} = Upto(frames, Len(frames))
        BY <2>7 DEF Upto
      <4> QED
        BY <2>7, <4>1, <4>2 DEF Upto
    <3>2. Upto(frames, Len(frames)) \in SUBSET PolicySpec /\ Upto(frames, Len(frames)) # {}
      BY <1>1, <1>2, <1>3 DEF Upto
    <3> HIDE DEF top
    <3> QED
      BY <1>1, <2>1, <2>4, <3>1, <3>2, StrictestMerged
  <2>9. ASSUME NEW k \in DOMAIN frames' PROVE Strictest(frames'[k].inForce, Upto(frames', k))
    <3>1. k \in 1..Len(frames) \/ k = Len(frames) + 1
      BY <1>3, <2>7
    <3>2. Len(frames) \in 0..Len(frames)
      BY <1>3
    <3> QED
      BY <1>4, <2>7, <2>8, <3>1, <3>2
  <2> QED
    <3>1. Len(frames') \in 1..(MaxWorkflowNesting + 1)
      <4>1. Len(frames') = Len(frames) + 1 /\ Len(frames) <= MaxWorkflowNesting /\ Len(frames) \in Nat
        BY <1>3, <2>2, <2>7
      <4>2. MaxWorkflowNesting \in Nat
        BY <1>1
      <4> QED
        BY <4>1, <4>2
    <3> QED
      BY <1>1, <2>7, <2>9, <3>1 DEF MergeInv, Frame
<1>6. ASSUME Return PROVE MergeInv'
  <2> DEFINE n == Len(frames) - 1
  <2>1. frames' = SubSeq(frames, 1, n) /\ n \in 1..MaxWorkflowNesting /\ n \in 0..Len(frames)
    BY <1>1, <1>6 DEF Return
  <2> HIDE DEF n
  <2>2. /\ frames' \in Seq(Frame) /\ Len(frames') = n /\ DOMAIN frames' = 1..n
        /\ \A i \in 1..n : frames'[i] = frames[i]
    BY <1>0, <2>1
  <2>3. Len(frames') \in 1..(MaxWorkflowNesting + 1)
    BY <1>1, <2>1, <2>2
  <2>4. \A k \in DOMAIN frames' : Strictest(frames'[k].inForce, Upto(frames', k))
    BY <1>4, <2>1, <2>2
  <2> QED
    BY <1>1, <2>2, <2>3, <2>4 DEF MergeInv, Frame
<1>7. CASE UNCHANGED frames
  BY <1>7 DEF MergeInv
<1> QED
  BY <1>5, <1>6, <1>7 DEF StackNext

\* The inductive invariant holds in every reachable state.
LEMMA MergeInvariance == StackSpec => []MergeInv
BY MergeInit, MergeStep, PTL DEF StackSpec

\* What holds of the top frame and of everything on the stack.
LEMMA TopFrame ==
  ASSUME MergeInv
  PROVE  /\ Strictest(Top.inForce, OnStack)
         /\ Top.inForce \in PolicySpec /\ OnStack \subseteq PolicySpec
<1>1. DOMAIN frames = 1..Len(frames) /\ Len(frames) \in DOMAIN frames /\ Policy \subseteq PolicySpec
  BY PolicyMergeAssumption DEF MergeInv
<1>2. OnStack = Upto(frames, Len(frames))
  BY <1>1 DEF OnStack, Upto
<1>3. Strictest(Top.inForce, OnStack)
  BY <1>1, <1>2 DEF MergeInv, Top
<1>4. ASSUME NEW i \in DOMAIN frames PROVE frames[i].policy \in Policy /\ frames[i].inForce \in PolicySpec
  <2> DEFINE Frame == [policy : Policy, inForce : PolicySpec]
  <2>1. frames \in Seq(Frame)
    BY DEF MergeInv
  <2> HIDE DEF Frame
  <2>2. frames[i] \in Frame
    BY <2>1
  <2> QED
    BY <2>2 DEF Frame
<1> QED
  BY <1>1, <1>3, <1>4 DEF Top, OnStack

\* The types of StricterOf: the policy in force is a policy, its decisions are
\* decisions or the sentinel, and the stack is within the nesting limit.
THEOREM MergeTyped == StackSpec => []StackTypeOK
<1>1. MergeInv => StackTypeOK
  <2> SUFFICES ASSUME MergeInv PROVE StackTypeOK
    OBVIOUS
  <2>1. Len(frames) \in 1..MaxWorkflowNesting + 1
    BY DEF MergeInv
  <2>2. Configured(Top.inForce) =>
          Top.inForce.entry.decisions \subseteq Decisions \cup {DenyAll}
    BY TopFrame DEF Configured, PolicySpec, HitlEntry
  <2> QED
    BY <2>1, <2>2 DEF StackTypeOK
<1> QED
  BY <1>1, MergeInvariance, PTL

\* Down any chain of calls the budgets and ceilings in force are the tightest of
\* the chain's policies, zero being no budget, or the default ceiling (StricterOf).
THEOREM CeilingsTightest == StackSpec => []TightestCeilings
<1>1. MergeInv => TightestCeilings
  BY TopFrame DEF Strictest, Ceilings, TightestCeilings
<1> QED
  BY <1>1, MergeInvariance, PTL

\* Down any chain of calls an operator may decide and edit under the merged policy
\* only what each reviewing policy of the chain allows (StricterOf, ResolveHitlReview).
THEOREM ReviewIsStrictest == StackSpec => []ReviewNeverWidens
<1>1. MergeInv => ReviewNeverWidens
  <2> SUFFICES ASSUME MergeInv PROVE ReviewNeverWidens
    OBVIOUS
  <2>1. Reviewed(Top.inForce, OnStack)
    BY TopFrame DEF Strictest
  <2>2. ASSUME NEW p \in OnStack, NEW x \in Arg, Configured(p), x \in p.entry.denied
        PROVE  ~MayEdit(Top.inForce, x)
    BY <2>1, <2>2 DEF Reviewed, MayEdit
  <2> QED
    BY <2>1, <2>2 DEF Reviewed, ReviewNeverWidens
<1> QED
  BY <1>1, MergeInvariance, PTL


-----------------------------------------------------------------------------
\* A name that covers one that covers a third covers the third.
LEMMA CoversOn ==
  ASSUME NEW Name, NEW a \in Seq(Name), NEW b \in Seq(Name), NEW c \in Seq(Name),
         EffectCovers(a, b), EffectCovers(b, c)
  PROVE  EffectCovers(a, c)
<1>1. Len(a) <= Len(b) /\ \A i \in 1..Len(a) : a[i] = b[i]
  BY DEF EffectCovers, IsPrefix
<1>2. Len(b) <= Len(c) /\ \A i \in 1..Len(b) : b[i] = c[i]
  BY DEF EffectCovers, IsPrefix
<1>3. Len(a) <= Len(c) /\ \A i \in 1..Len(a) : a[i] = c[i]
  BY <1>1, <1>2
<1>4. SubSeq(a, 1, Len(a)) = SubSeq(c, 1, Len(a))
  BY <1>3
<1> QED
  BY <1>3, <1>4 DEF EffectCovers, IsPrefix

\* An effect that neither list of the old policy covers, and a list of the new one
\* does, is covered by a name that the plan reports.
LEMMA FreshReported ==
  ASSUME NEW Name, NEW id, NEW old, NEW new,
         policyAnyEffectPermits(old) \subseteq Seq(Name), policyAnyEffectPermits(new) \subseteq Seq(Name),
         NEW e \in Seq(Name),
         identCovered(policyAnyEffectPermits(new), e), ~identCovered(policyAnyEffectPermits(old), e)
  PROVE  \E r \in addEffectPermitWidening(id, old, new) : EffectCovers(r.what, e)
<1>1. PICK p \in policyAnyEffectPermits(new) : EffectCovers(p, e)
  BY DEF identCovered
<1>2. ~identCovered(policyAnyEffectPermits(old), p)
  BY <1>1, CoversOn DEF identCovered
<1>3. Risk("effect_permit_widening", "high", id, p) \in addEffectPermitWidening(id, old, new)
  BY <1>1, <1>2 DEF addEffectPermitWidening
<1>4. Risk("effect_permit_widening", "high", id, p).what = p
  BY DEF Risk
<1> QED
  BY <1>1, <1>3, <1>4

\* A policy is edited, its approval mode left as it is (effects.Check and
\* summarizePolicyRisk).  What the new one accepts and the old one refused has a
\* covering name among the reported permit widenings, or the approval that its
\* operation needed is among the reported removals, or the operation still asks
\* an operator.
THEOREM NewlyAcceptedIsTold ==
  ASSUME NEW Name, NEW g, NEW id, NEW old, NEW new, NEW o,
         policyAnyEffectPermits(old) \subseteq Seq(Name), policyAnyEffectPermits(new) \subseteq Seq(Name),
         o.ident \in Seq(Name),
         new.permissive = old.permissive, new.requireAll = old.requireAll,
         Accepts(g, new, o), ~Accepts(g, old, o)
  PROVE  \/ \E r \in addEffectPermitWidening(id, old, new) : EffectCovers(r.what, o.ident)
         \/ \E r \in approvalRemovals(id, old, new) : r.what = o.uses
         \/ witnessingRequiresApproval(g, new, o.uses)
<1>1. identCovered(policyAnyEffectPermits(new), o.ident)
  BY DEF Accepts, policyAnyEffectPermits, identCovered
<1>2. CASE ~identCovered(policyAnyEffectPermits(old), o.ident)
  BY <1>1, <1>2, FreshReported
<1>3. CASE identCovered(policyAnyEffectPermits(old), o.ident)
  <2>1. witnessingRequiresApproval(g, old, o.uses)
    BY <1>3 DEF Accepts, policyAnyEffectPermits, identCovered
  <2>2. CASE o.uses \in old.requiredFor /\ o.uses \notin new.requiredFor
    <3>1. Risk("approval_removal", "high", id, o.uses) \in approvalRemovals(id, old, new)
      BY <2>2 DEF approvalRemovals
    <3>2. Risk("approval_removal", "high", id, o.uses).what = o.uses
      BY DEF Risk
    <3> QED
      BY <3>1, <3>2
  <2>3. CASE ~(o.uses \in old.requiredFor /\ o.uses \notin new.requiredFor)
    BY <2>1, <2>3 DEF witnessingRequiresApproval
  <2> QED
    BY <2>2, <2>3
<1> QED
  BY <1>2, <1>3
=============================================================================
