------------------------------ MODULE ExecGraph ------------------------------
(***************************************************************************)
(* A durable run of a needs-DAG: execGraph of internal/execir/interp.go     *)
(* driving engineInvoker of internal/engine/execir_invoker.go, across any   *)
(* number of suspensions for a human decision and resumes.                  *)
(*                                                                          *)
(* A node is a leaf (InvokeTool, InvokeAgent, Approval: one effect) or a    *)
(* subworkflow call, whose callee is a straight-line body of Body leaves.   *)
(* Each launched node is a goroutine; the interpreter bounds how many hold  *)
(* the semaphore, stops launching at the first failure or suspend, cancels  *)
(* siblings on a failure and lets them run on a suspend (#275).             *)
(***************************************************************************)
EXTENDS Invoker, FiniteSets

CONSTANTS
  Node,       \* the steps of the graph
  Needs,      \* Needs[n]: the steps n waits for
  Sub,        \* the nodes that call a subworkflow
  Body,       \* how many leaves a callee's body has
  Gated,      \* the leaves whose call needs a human decision
  MaxConc,    \* Interp.MaxConcurrency
  Timed,      \* the leaves whose call has a deadline of its own
  Options     \* the HITL options an operator resumes with

Leaf == Node \X (1..Body)

Twice == 2    \* bound of the ghost counters: two dispatches are already one too many
Bump(k) == IF k < Twice THEN k + 1 ELSE k

ASSUME GraphAssumption ==
  /\ IsFiniteSet(Node)
  /\ Sub \subseteq Node
  /\ Needs \in [Node -> SUBSET Node]
  /\ Body \in Nat \ {0}
  /\ Gated \subseteq Leaf
  /\ NoLeaf \notin Leaf
  /\ MaxConc \in Nat \ {0}
  /\ Timed \subseteq Leaf
  /\ Options \subseteq {"approve", "reject", "none", "auto"}

VARIABLES
  status,     \* runs.status
  cp,         \* the latest checkpoint: its memo and its one suspension cause
  options,    \* HitlRunOptions of the process executing the run
  memo,       \* session.memo: the nodes whose result is recorded
  seed,       \* pendingSeed / nestedSeed: the cause this resume answers
  slot,       \* pending / nested: the cause this attempt will present
  thr,        \* the goroutine of each node
  inner,      \* the child session's memo: leaves of the callee that completed
  effects,    \* ghost: how often each leaf was dispatched, counted up to Twice
  returned    \* ghost: how often each leaf's call returned a result, up to Twice

durable == <<status, cp>>
session == <<options, memo, seed, slot, thr, inner>>
vars == <<status, cp, options, memo, seed, slot, thr, inner, effects, returned>>

Thread == {"idle", "launched", "eval", "inflight",
           "done", "suspended", "abandoned", "failed"}

Slot == [kind : {"none", "direct", "nested"}, leaf : Leaf \cup {NoLeaf}, inner : 0..Body]

Checkpoint == [memo : SUBSET Node, slot : Slot]

TypeOK ==
  /\ status \in {"running", "interrupted", "succeeded", "failed"}
  /\ cp \in Checkpoint
  /\ options \in Options \cup {"none", "auto"}
  /\ memo \subseteq Node
  /\ seed \in Slot
  /\ slot \in Slot
  /\ thr \in [Node -> Thread]
  /\ inner \in [Node -> 0..Body]
  /\ effects \in [Leaf -> 0..Twice]
  /\ returned \in [Leaf -> 0..Twice]

-----------------------------------------------------------------------------
(* The interpreter's view of its goroutines. *)

FirstErr == \E n \in Node : thr[n] = "failed"
Suspended == \E n \in Node : thr[n] = "suspended"
Live(n) == thr[n] \in {"launched", "eval", "inflight"}
Holders == {n \in Node : thr[n] \in {"eval", "inflight"}}
\* Mutant: a predecessor that was launched is good enough.
ReadyEarly(n) == \A m \in Needs[n] : thr[m] # "idle"

Ready(n) == \A m \in Needs[n] : thr[m] = "done"
Length(n) == IF n \in Sub THEN Body ELSE 1
Current(n) == <<n, inner[n] + 1>>
Resolves(n) == ClaimsPending(seed, Current(n), n \in Sub)

Init ==
  /\ status = "running"
  /\ cp = [memo |-> {}, slot |-> NoSlot]
  /\ options \in {"none", "auto"}
  /\ memo = {}
  /\ seed = NoSlot
  /\ slot = NoSlot
  /\ thr = [n \in Node |-> "idle"]
  /\ inner = [n \in Node |-> 0]
  /\ effects = [l \in Leaf |-> 0]
  /\ returned = [l \in Leaf |-> 0]

\* trySchedule: launch every node whose predecessors completed, unless the
\* graph already failed or suspended.
Schedulable == {n \in Node : thr[n] = "idle" /\ Ready(n)}

Schedule ==
  /\ status = "running"
  /\ ~FirstErr /\ ~Suspended
  /\ Schedulable # {}
  /\ thr' = [n \in Node |-> IF n \in Schedulable THEN "launched" ELSE thr[n]]
  /\ UNCHANGED <<durable, options, memo, seed, slot, inner, effects, returned>>

\* The goroutine gets the semaphore.  A memoized node replays its result and
\* completes; a subworkflow call takes its seeded frame, if the seed is its own.
Start(n) ==
  /\ status = "running"
  /\ thr[n] = "launched"
  /\ Cardinality(Holders) < MaxConc
  /\ thr' = [thr EXCEPT ![n] = IF n \in memo THEN "done" ELSE "eval"]
  /\ inner' = [inner EXCEPT ![n] =
                 IF n \in Sub /\ seed.kind = "nested" /\ seed.leaf[1] = n
                 THEN seed.inner ELSE 0]
  /\ UNCHANGED <<durable, options, memo, seed, slot, effects, returned>>

\* engineInvoker.run: the call leaves the process.  A cancelled context stops
\* it at the step row, before the call.
Dispatched(n) ==
  /\ ~FirstErr
  /\ thr' = [thr EXCEPT ![n] = "inflight"]
  /\ effects' = [effects EXCEPT ![Current(n)] = Bump(@)]

\* A call no gate asks about, and one auto-approve admits.
Call(n) ==
  /\ status = "running"
  /\ thr[n] = "eval"
  /\ ~Resolves(n)
  /\ Current(n) \in Gated => options = "auto"
  /\ Dispatched(n)
  /\ UNCHANGED <<durable, options, memo, seed, slot, inner, returned>>

\* The gate the checkpoint anchored: resolvePendingHitl applies the operator's
\* decision once and the call is dispatched.
Approve(n) ==
  /\ status = "running"
  /\ thr[n] = "eval"
  /\ Resolves(n)
  /\ options \in {"approve", "auto"}
  /\ Dispatched(n)
  /\ seed' = NoSlot
  /\ UNCHANGED <<durable, options, memo, slot, inner, returned>>

\* A rejection, or a resume that carries no decision, is a genuine failure.
Refuse(n) ==
  /\ status = "running"
  /\ thr[n] = "eval"
  /\ Resolves(n)
  /\ options \in {"reject", "none"}
  /\ seed' = NoSlot
  /\ thr' = [thr EXCEPT ![n] = "failed"]
  /\ UNCHANGED <<durable, options, memo, slot, inner, effects, returned>>

\* A gate nobody has decided: a direct gate takes the slot if it is free, a
\* suspended callee preempts a direct gate, and a second suspended callee fails.
Pause(n) ==
  /\ status = "running"
  /\ thr[n] = "eval"
  /\ ~Resolves(n)
  /\ Current(n) \in Gated
  /\ options # "auto"
  /\ slot' = IF n \in Sub THEN SetNestedIfFirst(slot, Current(n), inner[n])
                          ELSE SetPendingIfFirst(slot, Current(n))
  /\ thr' = [thr EXCEPT ![n] =
               IF n \in Sub /\ NestedRefused(slot) THEN "failed" ELSE "suspended"]
  /\ UNCHANGED <<durable, options, memo, seed, inner, effects, returned>>

\* The call returned a result: the leaf is memoized in its own session, and
\* the node in the root session once its last leaf completed.  A result that
\* arrives while a sibling's failure cancels the context is still recorded.
Return(n) ==
  /\ status = "running"
  /\ thr[n] = "inflight"
  /\ inner' = [inner EXCEPT ![n] = @ + 1]
  /\ returned' = [returned EXCEPT ![Current(n)] = Bump(@)]
  /\ IF inner[n] + 1 = Length(n)
     THEN /\ memo' = memo \cup {n}
          /\ thr' = [thr EXCEPT ![n] = "done"]
     ELSE /\ memo' = memo
          /\ thr' = [thr EXCEPT ![n] = "eval"]
  /\ UNCHANGED <<durable, options, seed, slot, effects>>

\* The call failed, or the policy, the budget or the store stopped it before it
\* left: the first genuine error cancels the siblings.
Fail(n) ==
  /\ status = "running"
  /\ thr[n] \in {"eval", "inflight"}
  /\ thr' = [thr EXCEPT ![n] = "failed"]
  /\ UNCHANGED <<durable, options, memo, seed, slot, inner, effects, returned>>

\* The call outlived its own deadline.  isCanceled cannot tell that from a
\* sibling's cancel, so once the graph has paused it counts as abandoned.
Timeout(n) ==
  /\ status = "running"
  /\ thr[n] = "inflight"
  /\ Current(n) \in Timed
  /\ thr' = [thr EXCEPT ![n] = IF Suspended \/ FirstErr THEN "abandoned" ELSE "failed"]
  /\ UNCHANGED <<durable, options, memo, seed, slot, inner, effects, returned>>

\* A sibling whose context a failure cancelled.
Abandon(n) ==
  /\ status = "running"
  /\ FirstErr
  /\ thr[n] \in {"eval", "inflight"}
  /\ thr' = [thr EXCEPT ![n] = "abandoned"]
  /\ UNCHANGED <<durable, options, memo, seed, slot, inner, effects, returned>>

\* The scheduling loop is over and wg.Wait returned.
Joined ==
  /\ status = "running"
  /\ FirstErr \/ Suspended \/ Schedulable = {}
  /\ \A n \in Node : ~Live(n)

\* The verdict is an error: one of a node's, which wins over a suspend, or a
\* graph with no runnable step left (a cycle of needs); or the checkpoint or the
\* output cannot be written.
FailRun ==
  /\ Joined
  /\ status' = "failed"
  /\ UNCHANGED <<cp, session, effects, returned>>

\* suspendExecIR: checkpoint the memo and the presented cause, then the status.
Interrupt ==
  /\ Joined
  /\ ~FirstErr /\ Suspended
  /\ cp' = [memo |-> memo, slot |-> slot]
  /\ status' = "interrupted"
  /\ UNCHANGED <<session, effects, returned>>

Finish ==
  /\ Joined
  /\ \A n \in Node : thr[n] = "done"
  /\ status' = "succeeded"
  /\ UNCHANGED <<cp, session, effects, returned>>

\* A fresh interpreter over a memo and a suspension cause.
Seeded(opt, recorded, cause) ==
  /\ status = "interrupted"
  /\ status' = "running"
  /\ options' = opt
  /\ memo' = recorded
  /\ seed' = cause
  /\ slot' = NoSlot
  /\ thr' = [n \in Node |-> "idle"]
  /\ inner' = [n \in Node |-> 0]
  /\ UNCHANGED <<cp, effects, returned>>

\* Mutants: a resume that forgets the memo, and one that forgets the cause.
AmnesicResume(opt) == Seeded(opt, {}, cp.slot)
UnseededResume(opt) == Seeded(opt, cp.memo, NoSlot)

\* Another process claims the interrupted run and goes on from its checkpoint.
Resume(opt) == Seeded(opt, cp.memo, cp.slot)

Step(n) ==
  \/ Start(n) \/ Call(n) \/ Approve(n) \/ Refuse(n) \/ Pause(n)
  \/ Return(n) \/ Fail(n) \/ Timeout(n) \/ Abandon(n)

Terminated ==
  /\ status \in {"succeeded", "failed"}
  /\ UNCHANGED vars

Next ==
  \/ Terminated
  \/ Schedule \/ FailRun \/ Interrupt \/ Finish
  \/ \E n \in Node : Step(n)
  \/ \E opt \in Options : Resume(opt)

Spec == Init /\ [][Next]_vars

\* Go runs every runnable goroutine, and the operator answers every gate.
Fairness ==
  /\ WF_vars(Schedule)
  /\ WF_vars(FailRun \/ Interrupt \/ Finish)
  /\ \A n \in Node : WF_vars(Step(n))
  /\ WF_vars(\E opt \in Options : Resume(opt))

FairSpec == Spec /\ Fairness

-----------------------------------------------------------------------------
(* Properties *)

Leaves(n) == {n} \X (1..Length(n))

\* S7 of docs/SOUNDNESS.md, "Resume cannot duplicate effects": however branches,
\* suspensions and resumes interleave, no leaf leaves the process twice, but for
\* one that was given up at its deadline and has no result to memoize.
EffectOnce == \A l \in Leaf \ Timed : effects[l] <= 1

\* What S7 allows least of all: a call that returned its result, to a callee or
\* to the root program, is not made to return another; and a run reported
\* succeeded has that one result of all of its work, so that a call given up at
\* its deadline or abandoned does not pass for done.
OneResultEach ==
  /\ \A l \in Leaf : returned[l] <= 1
  /\ status = "succeeded" => \A n \in Node : \A l \in Leaves(n) : returned[l] = 1

\* The run as docs/SOUNDNESS.md describes it: the graph's calls, in needs order
\* between nodes and in body order within one, each at most once, with the
\* checkpoint's cause as the gate asked about.  A call given up at its deadline
\* counts once.
Abstract ==
  INSTANCE DurableRun WITH
    Calls <- UNION {Leaves(n) : n \in Node},
    Gate <- Gated,
    Before <- [l \in Leaf |-> {<<l[1], k>> : k \in 1..(l[2] - 1)}
                                \cup UNION {Leaves(m) : m \in Needs[l[1]]}],
    state <- status,
    made <- [l \in UNION {Leaves(n) : n \in Node} |->
               IF l \in Timed /\ effects[l] > 1 THEN 1 ELSE effects[l]],
    asked <- cp.slot.leaf,
    auto <- (options = "auto")

\* The interpreter, the invoker and the checkpoint together implement that run.
Refines == Abstract!Spec

\* With an operator who answers, every run comes to an end: no set of branches
\* waits on each other and no gate asks forever.
Settles == <>(status \in {"succeeded", "failed"})

=============================================================================
