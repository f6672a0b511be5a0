----------------------------- MODULE RunLifecycle -----------------------------
(***************************************************************************)
(* Runs as rows of one SQLite store shared by several `terfyn run`          *)
(* processes: cli/run.go (the invoke / prompt / resume loop),               *)
(* runtime/local/runner.go (Invoke, Resume), engine/execution.go (how an    *)
(* execution ends) and state/sqlite (each statement or transaction is one   *)
(* step).  Processes interleave at every store call and may die anywhere.   *)
(*                                                                          *)
(* A workflow is Gates gated calls in a row, each preceded by nothing else: *)
(* what runs between two gates is the subject of ExecGraph and ExecFork.    *)
(* A checkpoint is its status and how many calls its memo holds; the gate   *)
(* it presents is the next one.                                             *)
(***************************************************************************)
EXTENDS Naturals

CONSTANTS
  Proc,       \* terfyn processes
  Run,        \* run ids
  Gates,      \* gated calls of the workflow
  Decision    \* what an operator may answer: "approve", "reject", "none", "auto"

ASSUME LifecycleAssumption ==
  /\ Gates \in Nat \ {0}
  /\ Decision \subseteq {"approve", "reject", "none", "auto"}

VARIABLES
  row,        \* runs.status; "absent" before StartRun and after the prune
  cp,         \* the latest run_checkpoints row
  pc,         \* where each process is
  job,        \* the run a process works on
  shown,      \* the gate the process's operator was shown
  answer,     \* the decision that operator gave
  pos,        \* calls completed by the interpreter of the process
  effects,    \* ghost: how often each call was dispatched, up to Twice
  consumed    \* ghost: the <<shown, resolved>> pair of every applied decision

vars == <<row, cp, pc, job, shown, answer, pos, effects, consumed>>
store == <<row, cp>>

Twice == 2    \* bound of the ghost counter

Terminal == {"succeeded", "failed"}

\* Where a process holds the run it started or claimed.
Executing == {"loading", "resolving", "walking", "pausing", "finishing", "failing", "unanswered"}

RowStatus == {"absent", "running", "interrupted", "pruned"} \cup Terminal

Checkpoint == [status : {"none", "interrupted", "completed", "failed"}, done : 0..Gates]

PC == {"ready", "chosen", "checked", "claimed", "dead"} \cup Executing

TypeOK ==
  /\ row \in [Run -> RowStatus]
  /\ cp \in [Run -> Checkpoint]
  /\ pc \in [Proc -> PC]
  /\ job \in [Proc -> Run]
  /\ shown \in [Proc -> 0..Gates]
  /\ answer \in [Proc -> Decision \cup {"none"}]
  /\ pos \in [Proc -> 0..Gates]
  /\ effects \in [Run -> [1..Gates -> 0..Twice]]
  /\ consumed \subseteq (0..Gates) \X (1..Gates)

Init ==
  /\ row = [r \in Run |-> "absent"]
  /\ cp = [r \in Run |-> [status |-> "none", done |-> 0]]
  /\ pc = [p \in Proc |-> "ready"]
  /\ job \in [Proc -> Run]
  /\ shown = [p \in Proc |-> 0]
  /\ answer = [p \in Proc |-> "none"]
  /\ pos = [p \in Proc |-> 0]
  /\ effects = [r \in Run |-> [k \in 1..Gates |-> 0]]
  /\ consumed = {}

Goto(p, l) == pc' = [pc EXCEPT ![p] = l]

-----------------------------------------------------------------------------
\* Invoke: a fresh run id, StartRun, then the engine from the first call, with
\* or without --auto-approve.  A trace or option error in between returns and
\* leaves the row "running".
Invoke(p, r) ==
  /\ pc[p] = "ready"
  /\ row[r] = "absent"
  /\ row' = [row EXCEPT ![r] = "running"]
  /\ job' = [job EXCEPT ![p] = r]
  /\ pos' = [pos EXCEPT ![p] = 0]
  /\ \E d \in {"none"} \cup (Decision \cap {"auto"}) : answer' = [answer EXCEPT ![p] = d]
  /\ Goto(p, "walking") \/ Goto(p, "ready")
  /\ UNCHANGED <<cp, shown, effects, consumed>>

\* The operator of p looks at the latest checkpoint of an interrupted run -
\* requirePendingHitlGate and the prompt, or the resume hint - and decides.
Decide(p, r, d) ==
  /\ pc[p] = "ready"
  /\ row[r] = "interrupted"
  /\ cp[r].status = "interrupted"
  /\ job' = [job EXCEPT ![p] = r]
  /\ shown' = [shown EXCEPT ![p] = cp[r].done + 1]
  /\ answer' = [answer EXCEPT ![p] = d]
  /\ Goto(p, "chosen")
  /\ UNCHANGED <<row, cp, pos, effects, consumed>>

\* Resume, the read-only half: status, checkpoint, environment, pinned
\* snapshot, spec hash.  A run that is not interrupted is refused, and one whose
\* environment, snapshot or specification does not match.
CheckResumable(p) ==
  /\ pc[p] = "chosen"
  /\ \/ row[job[p]] = "interrupted" /\ Goto(p, "checked")
     \/ Goto(p, "ready")
  /\ UNCHANGED <<row, cp, job, shown, answer, pos, effects, consumed>>

\* Mutants: a claim that does not compare, and one that only refuses running runs.
BlindClaim(p) ==
  /\ pc[p] = "checked"
  /\ row' = [row EXCEPT ![job[p]] = "running"]
  /\ Goto(p, "claimed")
  /\ UNCHANGED <<cp, job, shown, answer, pos, effects, consumed>>

ReopeningClaim(p) == row[job[p]] # "running" /\ BlindClaim(p)

\* ClaimRunForResume: the compare-and-set that serializes resumes.
ClaimRunForResume(p) ==
  /\ pc[p] = "checked"
  /\ IF row[job[p]] = "interrupted"
     THEN /\ row' = [row EXCEPT ![job[p]] = "running"]
          /\ Goto(p, "claimed")
     ELSE /\ row' = row
          /\ Goto(p, "ready")
  /\ UNCHANGED <<cp, job, shown, answer, pos, effects, consumed>>

\* run_started is traced, then the engine starts.  A trace or option error
\* here returns without touching the row: the run stays "running".
StartEngine(p) ==
  /\ pc[p] = "claimed"
  /\ Goto(p, "loading") \/ Goto(p, "ready")
  /\ UNCHANGED <<row, cp, job, shown, answer, pos, effects, consumed>>

\* loadExecResumeState reads whatever checkpoint is the latest now.  One that is
\* not resumable, or does not decode, fails the run, as do an input or a policy
\* that do not check before it.
LoadCheckpoint(p) ==
  /\ pc[p] = "loading"
  /\ \/ /\ cp[job[p]].status = "interrupted"
        /\ pos' = [pos EXCEPT ![p] = cp[job[p]].done]
        /\ Goto(p, "resolving")
     \/ UNCHANGED pos /\ Goto(p, "failing")
  /\ UNCHANGED <<row, cp, job, shown, answer, effects, consumed>>

\* The next gated call of p's run leaves the process, and completes.
Dispatch(p) ==
  /\ effects' = [effects EXCEPT ![job[p]][pos[p] + 1] = IF @ < Twice THEN @ + 1 ELSE @]
  /\ pos' = [pos EXCEPT ![p] = @ + 1]
  /\ Goto(p, "walking")

\* resolvePendingHitl at the anchored call: the decision is applied to the
\* gate the checkpoint presents; a rejection fails the run, and so do a resume
\* that carries no decision and a policy that denies the call after all.
Resolve(p) ==
  /\ pc[p] = "resolving"
  /\ \/ answer[p] \in {"approve", "auto"} /\ Dispatch(p)
     \/ /\ Goto(p, IF answer[p] = "none" THEN "unanswered" ELSE "failing")
        /\ UNCHANGED <<effects, pos>>
  /\ consumed' = consumed \cup {<<shown[p], pos[p] + 1>>}
  /\ UNCHANGED <<row, cp, job, shown, answer>>

\* A gate that --auto-approve admits without a pause.
AutoApprove(p) ==
  /\ pc[p] = "walking"
  /\ answer[p] = "auto"
  /\ pos[p] < Gates
  /\ Dispatch(p)
  /\ UNCHANGED <<row, cp, job, shown, answer, consumed>>

\* The walk of p ends in a saved checkpoint.
Saved(p, st, done, l) ==
  /\ pc[p] = "walking"
  /\ cp' = [cp EXCEPT ![job[p]] = [status |-> st, done |-> done]]
  /\ Goto(p, l)
  /\ UNCHANGED <<row, job, shown, answer, pos, effects, consumed>>

\* Mutant: the pause keeps the old memo.
StaleWalk(p) ==
  pos[p] < Gates /\ answer[p] # "auto" /\ Saved(p, "interrupted", cp[job[p]].done, "pausing")

\* The walk reaches the next gate, the end of the program, or an error.  A gate
\* is checkpointed by suspendExecIR before the row is touched; a checkpoint that
\* cannot be saved is such an error.
Walk(p) ==
  \/ pos[p] < Gates /\ answer[p] # "auto" /\ Saved(p, "interrupted", pos[p], "pausing")
  \/ pos[p] = Gates /\ Saved(p, "completed", pos[p], "finishing")
  \/ /\ pc[p] = "walking"
     /\ Goto(p, "failing")
     /\ UNCHANGED <<row, cp, job, shown, answer, pos, effects, consumed>>

\* UpdateRunStatus(interrupted): only now can another process resume the run.
\* The CLI then loops to its own prompt or exits.  An error leaves the row.
MarkInterrupted(p) ==
  /\ pc[p] = "pausing"
  /\ row' \in {row, [row EXCEPT ![job[p]] = "interrupted"]}
  /\ Goto(p, "ready")
  /\ UNCHANGED <<cp, job, shown, answer, pos, effects, consumed>>

\* FinishRun(succeeded); an error leaves the row.
FinishRun(p) ==
  /\ pc[p] = "finishing"
  /\ row' \in {row, [row EXCEPT ![job[p]] = "succeeded"]}
  /\ Goto(p, "ready")
  /\ UNCHANGED <<cp, job, shown, answer, pos, effects, consumed>>

\* failRun: an empty checkpoint and the row, both best effort: either may be lost
\* to a store error.
FailRun(p) ==
  LET r == job[p] IN
  /\ pc[p] \in {"failing", "unanswered"}
  /\ cp' \in {cp, [cp EXCEPT ![r] = [status |-> "failed", done |-> 0]]}
  /\ row' \in {row, [row EXCEPT ![r] = "failed"]}
  /\ Goto(p, "ready")
  /\ UNCHANGED <<job, shown, answer, pos, effects, consumed>>

\* DeleteRunsStartedBefore, run by the next process's prepareFromConfig: only
\* finished runs are old enough to go.
PruneRun(r) ==
  /\ row[r] \in Terminal
  /\ row' = [row EXCEPT ![r] = "pruned"]
  /\ UNCHANGED <<cp, pc, job, shown, answer, pos, effects, consumed>>

\* The process dies: its memory is gone, the store keeps what was committed.
Crash(p) ==
  /\ pc[p] # "dead"
  /\ Goto(p, "dead")
  /\ UNCHANGED <<row, cp, job, shown, answer, pos, effects, consumed>>

Advance(p) ==
  \/ CheckResumable(p) \/ ClaimRunForResume(p) \/ StartEngine(p)
  \/ LoadCheckpoint(p) \/ Resolve(p) \/ AutoApprove(p) \/ Walk(p)
  \/ MarkInterrupted(p) \/ FinishRun(p) \/ FailRun(p)

Next ==
  \/ \E p \in Proc, r \in Run : Invoke(p, r)
  \/ \E p \in Proc, r \in Run, d \in Decision : Decide(p, r, d)
  \/ \E p \in Proc : Advance(p) \/ Crash(p)
  \/ \E r \in Run : PruneRun(r)

Spec == Init /\ [][Next]_vars

-----------------------------------------------------------------------------
(* Properties *)

\* p is past StartRun or its claim, and has not let go of its run.
Holds(p) == pc[p] \in Executing \cup {"claimed"}

\* At most one process executes a run (#407): of two racing resumes one is
\* turned away, and the process that started the run has let go of it.
SingleExecutor ==
  \A p, q \in Proc : Holds(p) /\ Holds(q) /\ job[p] = job[q] => p = q

\* S7 across processes: no call is dispatched twice, whatever dies, races or
\* resumes in between.
EffectOnce == \A r \in Run : \A k \in 1..Gates : effects[r][k] <= 1

\* The first k calls of r were made, once each, and no other.
Made(r, k) == \A j \in 1..Gates : effects[r][j] = (IF j <= k THEN 1 ELSE 0)

\* The latest checkpoint of r is a pause at a gate whose call has not happened,
\* with every earlier one in its memo.
Presented(r) ==
  /\ cp[r].status = "interrupted"
  /\ cp[r].done < Gates
  /\ Made(r, cp[r].done)

\* An interrupted row can be answered: the checkpoint a resume will load is the
\* pause that set it.
InterruptedPresents == \A r \in Run : row[r] = "interrupted" => Presented(r)

\* A finished run is never reopened: FinishRun and UpdateRunStatus do not look
\* at the row they overwrite, and still no stale process reaches it.
FinishedStays ==
  [][\A r \in Run : row[r] \in Terminal => row'[r] \in {row[r], "pruned"}]_vars

\* Success means every gated call was made.
SucceededRan == \A r \in Run : row[r] = "succeeded" => Made(r, Gates)

\* What a holder relies on: the row is its own, and its position, or before it
\* has loaded one the checkpoint, accounts for every call of the run so far.
HolderInv(p) ==
  /\ Holds(p) => row[job[p]] = "running"
  /\ pc[p] \in {"claimed", "loading"} => Presented(job[p])
  /\ pc[p] \in {"resolving", "walking", "pausing", "finishing"} => Made(job[p], pos[p])
  /\ pc[p] \in {"resolving", "pausing"} => pos[p] < Gates
  /\ pc[p] = "pausing" => cp[job[p]] = [status |-> "interrupted", done |-> pos[p]]
  /\ pc[p] = "finishing" => pos[p] = Gates

\* The strengthening that makes EffectOnce inductive: no two holders, what a
\* holder relies on, and what the row alone promises when nobody holds the run.
IndInv ==
  /\ SingleExecutor
  /\ EffectOnce
  /\ \A p \in Proc : HolderInv(p)
  /\ \A r \in Run : row[r] = "absent" => Made(r, 0)
  /\ InterruptedPresents
  /\ SucceededRan

\* cli/run.go says of a decision that it "resolves exactly the gate that was
\* presented": what the operator saw is what the decision is applied to.
DecisionMatchesGate == \A c \in consumed : c[1] = c[2]

\* engine/hitl.go answers a resume without a decision with "awaiting hitl
\* decision; resume with --decision or --auto-approve": the run it says that of
\* is left for such a resume.
UnansweredStaysOpen ==
  [][\A p \in Proc : pc[p] = "unanswered" => row'[job[p]] # "failed"]_vars

=============================================================================
