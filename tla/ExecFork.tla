------------------------------ MODULE ExecFork ------------------------------
(***************************************************************************)
(* A durable run of fork/join concurrency: execFork and execLoopParallel of *)
(* internal/execir/interp.go over engineInvoker, across suspensions and     *)
(* resumes.  The two share one shape - launch every branch in order under a *)
(* semaphore, let a suspended branch's siblings run, cancel them on any     *)
(* other error, join, classifyConcurrent - and differ only in what a branch *)
(* publishes.                                                               *)
(*                                                                          *)
(* Walk <<b, 0>> is branch b of the outer construct: it runs an inner fork  *)
(* of Inner[b] leaves, the walks <<b, i>>, when Inner[b] > 0, and then its  *)
(* own call, a leaf or a subworkflow of Body leaves.                        *)
(***************************************************************************)
EXTENDS Invoker, FiniteSets

CONSTANTS
  Branches,   \* how many branches the outer construct has
  Inner,      \* Inner[b]: how many leaves the inner fork of branch b has
  Sub,        \* the walks whose call is a subworkflow
  Body,       \* how many leaves a callee's body has
  Gated,      \* the leaves whose call needs a decision
  MaxConc,    \* Interp.MaxConcurrency, of each construct
  Outcome,    \* how a call may go wrong: "failed", or "canceled" at a deadline
  Options     \* the HITL options an operator resumes with

Branch == 1..Branches

\* A goroutine: <<b, 0>> for a branch, <<b, i>> for an inner one.
Walk == UNION {{b} \X (0..Inner[b]) : b \in Branch}

Length(w) == IF w \in Sub THEN Body ELSE 1
Leaf == UNION {{w} \X (1..Length(w)) : w \in Walk}

Twice == 2    \* bound of the ghost counter

ASSUME ForkAssumption ==
  /\ Branches \in Nat \ {0}
  /\ Inner \in [Branch -> Nat]
  /\ Sub \subseteq Branch \X {0}
  /\ Body \in Nat \ {0}
  /\ Gated \subseteq Leaf
  /\ NoLeaf \notin Leaf
  /\ MaxConc \in Nat \ {0}
  /\ Outcome \subseteq {"failed", "canceled"}
  /\ Options \subseteq {"approve", "reject", "none", "auto"}

VARIABLES
  status,     \* runs.status
  cp,         \* the latest checkpoint: its memo and its one suspension cause
  options,    \* HitlRunOptions of the process executing the run
  memo,       \* session.memo: the walks whose call completed
  seed,       \* pendingSeed / nestedSeed
  slot,       \* pending / nested
  thr,        \* the state of each goroutine
  inner,      \* leaves of a callee its child session memoized
  effects     \* ghost: how often each leaf was dispatched, up to Twice

vars == <<status, cp, options, memo, seed, slot, thr, inner, effects>>
durable == <<status, cp>>
session == <<options, memo, seed, slot, thr, inner>>

Slot == [kind : {"none", "direct", "nested"}, leaf : Leaf \cup {NoLeaf}, inner : 0..Body]

TypeOK ==
  /\ status \in {"running", "interrupted", "succeeded", "failed"}
  /\ cp \in [memo : SUBSET Walk, slot : Slot]
  /\ options \in Options \cup {"none", "auto"}
  /\ memo \subseteq Walk
  /\ seed \in Slot /\ slot \in Slot
  /\ thr \in [Walk -> {"idle", "joining", "eval", "inflight",
                       "done", "suspended", "canceled", "failed"}]
  /\ inner \in [Walk -> 0..Body]
  /\ effects \in [Leaf -> 0..Twice]

Init ==
  /\ status = "running"
  /\ cp = [memo |-> {}, slot |-> NoSlot]
  /\ options \in {"none", "auto"}
  /\ memo = {}
  /\ seed = NoSlot /\ slot = NoSlot
  /\ thr = [w \in Walk |-> "idle"]
  /\ inner = [w \in Walk |-> 0]
  /\ effects = [l \in Leaf |-> 0]

-----------------------------------------------------------------------------
(* The constructs and their contexts. *)

\* The branches of the outer construct, and of the fork inside branch b.
Outer == Branch \X {0}
InnerOf(b) == {b} \X (1..Inner[b])

\* The branches of the construct w belongs to.
Group(w) == IF w[2] = 0 THEN Outer ELSE InnerOf(w[1])

\* Its position in launch order.
Position(w) == IF w[2] = 0 THEN w[1] ELSE w[2]

Live(w) == thr[w] \in {"joining", "eval", "inflight"}

\* Any error but a suspend cancels the construct's context, and with it the
\* context of the constructs inside.
Broken(G) == \E w \in G : thr[w] \in {"failed", "canceled"}
Canceled(w) == Broken(Group(w)) \/ Broken(Outer)

\* session.isSuspended: one flag for the whole run.
Suspended == \E w \in Walk : thr[w] = "suspended"

Joinable(G) == \A w \in G : thr[w] # "idle" /\ ~Live(w)

\* classifyConcurrent: a genuine error, else the session's suspend, else nil -
\* whatever was cancelled or timed out.
ClassifyConcurrent(G) ==
  IF \E w \in G : thr[w] = "failed" THEN "failed"
  ELSE IF Suspended THEN "suspended" ELSE "ok"

\* invoke: a memoized call is replayed, any other is evaluated.
Enter(w) == IF w \in memo THEN "done" ELSE "eval"

Current(w) == <<w, inner[w] + 1>>
Resolves(w) == ClaimsPending(seed, Current(w), w \in Sub)

\* The frame a subworkflow call is seeded from.
SeededInner(w) ==
  IF w \in Sub /\ seed.kind = "nested" /\ seed.leaf[1] = w THEN seed.inner ELSE 0

-----------------------------------------------------------------------------
\* sem <- struct{}{}; go ...: branches start in order, as slots come free,
\* whether or not the construct already failed or suspended.
Launch(w) ==
  /\ status = "running"
  /\ thr[w] = "idle"
  /\ w[2] > 0 => thr[<<w[1], 0>>] = "joining"
  /\ \A v \in Group(w) : Position(v) < Position(w) => thr[v] # "idle"
  /\ Cardinality({v \in Group(w) : Live(v)}) < MaxConc
  /\ thr' = [thr EXCEPT ![w] = IF w[2] = 0 /\ Inner[w[1]] > 0 THEN "joining" ELSE Enter(w)]
  /\ inner' = [inner EXCEPT ![w] = SeededInner(w)]
  /\ UNCHANGED <<durable, options, memo, seed, slot, effects>>

\* The inner fork of a branch joins: its verdict ends the branch, or the branch
\* goes on to its own call.
JoinInner(w) ==
  LET verdict == ClassifyConcurrent(InnerOf(w[1])) IN
  /\ status = "running"
  /\ thr[w] = "joining"
  /\ Joinable(InnerOf(w[1]))
  /\ thr' = [thr EXCEPT ![w] = IF verdict = "ok" THEN Enter(w) ELSE verdict]
  /\ UNCHANGED <<durable, options, memo, seed, slot, inner, effects>>

\* engineInvoker.run: a cancelled context stops the call at its step row.
Dispatched(w) ==
  /\ ~Canceled(w)
  /\ thr' = [thr EXCEPT ![w] = "inflight"]
  /\ effects' = [effects EXCEPT ![Current(w)] = IF @ < Twice THEN @ + 1 ELSE @]

Call(w) ==
  /\ status = "running"
  /\ thr[w] = "eval"
  /\ ~Resolves(w)
  /\ Current(w) \in Gated => options = "auto"
  /\ Dispatched(w)
  /\ UNCHANGED <<durable, options, memo, seed, slot, inner>>

\* resolvePendingHitl at the anchored call, with an approval.
Approve(w) ==
  /\ status = "running"
  /\ thr[w] = "eval"
  /\ Resolves(w)
  /\ options \in {"approve", "auto"}
  /\ Dispatched(w)
  /\ seed' = NoSlot
  /\ UNCHANGED <<durable, options, memo, slot, inner>>

\* resolvePendingHitl with a rejection or without a decision.
Refuse(w) ==
  /\ status = "running"
  /\ thr[w] = "eval"
  /\ Resolves(w)
  /\ options \in {"reject", "none"}
  /\ seed' = NoSlot
  /\ thr' = [thr EXCEPT ![w] = "failed"]
  /\ UNCHANGED <<durable, options, memo, slot, inner, effects>>

\* An undecided gate: a direct one takes a free slot, a suspended callee
\* preempts a direct gate and fails behind another callee.
Pause(w) ==
  /\ status = "running"
  /\ thr[w] = "eval"
  /\ ~Resolves(w)
  /\ Current(w) \in Gated
  /\ options # "auto"
  /\ slot' = IF w \in Sub THEN SetNestedIfFirst(slot, Current(w), inner[w])
                          ELSE SetPendingIfFirst(slot, Current(w))
  /\ thr' = [thr EXCEPT ![w] =
               IF w \in Sub /\ NestedRefused(slot) THEN "failed" ELSE "suspended"]
  /\ UNCHANGED <<durable, options, memo, seed, inner, effects>>

\* The call returned; a callee goes on to its next leaf.  A result that races a
\* cancellation is still recorded.
Return(w) ==
  /\ status = "running"
  /\ thr[w] = "inflight"
  /\ inner' = [inner EXCEPT ![w] = @ + 1]
  /\ IF inner[w] + 1 = Length(w)
     THEN memo' = memo \cup {w} /\ thr' = [thr EXCEPT ![w] = "done"]
     ELSE memo' = memo /\ thr' = [thr EXCEPT ![w] = "eval"]
  /\ UNCHANGED <<durable, options, seed, slot, effects>>

\* The call failed, or it hit its own deadline, which isCanceled takes for a
\* cancellation; or the policy, the budget or the store stopped it before it left.
Fail(w) ==
  /\ status = "running"
  /\ \/ thr[w] = "eval" /\ thr' = [thr EXCEPT ![w] = "failed"]
     \/ thr[w] = "inflight" /\ \E outcome \in Outcome : thr' = [thr EXCEPT ![w] = outcome]
  /\ UNCHANGED <<durable, options, memo, seed, slot, inner, effects>>

\* A sibling's error cancelled the context this call runs under.
Cancel(w) ==
  /\ status = "running"
  /\ Canceled(w)
  /\ thr[w] \in {"eval", "inflight"}
  /\ thr' = [thr EXCEPT ![w] = "canceled"]
  /\ UNCHANGED <<durable, options, memo, seed, slot, inner, effects>>

\* The outer join, saving a memo if it pauses.  A checkpoint or an output that
\* cannot be written fails the run.
Joined(recorded) ==
  LET verdict == ClassifyConcurrent(Outer) IN
  /\ status = "running"
  /\ Joinable(Outer)
  /\ \/ status' = "failed"
     \/ verdict = "suspended" /\ status' = "interrupted"
     \/ verdict = "ok" /\ status' = "succeeded"
  /\ cp' = IF status' = "interrupted" THEN [memo |-> recorded, slot |-> slot] ELSE cp
  /\ UNCHANGED <<session, effects>>

\* The outer join ends the interpreter's walk, and the executor the attempt.
JoinOuter == Joined(memo)

\* A fresh interpreter over a memo and a suspension cause.
Seeded(opt, recorded, cause) ==
  /\ status = "interrupted"
  /\ status' = "running"
  /\ options' = opt
  /\ memo' = recorded
  /\ seed' = cause
  /\ slot' = NoSlot
  /\ thr' = [w \in Walk |-> "idle"]
  /\ inner' = [w \in Walk |-> 0]
  /\ UNCHANGED <<cp, effects>>

\* Mutants: a resume that forgets the memo, and one that forgets the cause.
AmnesicResume(opt) == Seeded(opt, {}, cp.slot)
UnseededResume(opt) == Seeded(opt, cp.memo, NoSlot)

\* A process claims the interrupted run and goes on from its checkpoint.
Resume(opt) == Seeded(opt, cp.memo, cp.slot)

Terminated ==
  /\ status \in {"succeeded", "failed"}
  /\ UNCHANGED vars

Step(w) ==
  \/ Launch(w) \/ JoinInner(w) \/ Call(w) \/ Approve(w) \/ Refuse(w)
  \/ Pause(w) \/ Return(w) \/ Fail(w) \/ Cancel(w)

Next ==
  \/ Terminated \/ JoinOuter
  \/ \E w \in Walk : Step(w)
  \/ \E opt \in Options : Resume(opt)

Spec == Init /\ [][Next]_vars

\* Go runs every runnable goroutine, and the operator answers every gate.
Fairness ==
  /\ WF_vars(JoinOuter)
  /\ \A w \in Walk : WF_vars(Step(w))
  /\ WF_vars(\E opt \in Options : Resume(opt))

FairSpec == Spec /\ Fairness

-----------------------------------------------------------------------------
(* Properties *)

\* S7: no leaf of any branch leaves the process twice.
EffectOnce == \A l \in Leaf : effects[l] <= 1

\* A join that reports success had every branch complete: a run is not marked
\* succeeded over a call that failed, timed out or was abandoned.
SuccessComplete == status = "succeeded" => \A l \in Leaf : effects[l] >= 1 /\ l[1] \in memo

\* The run as docs/SOUNDNESS.md describes it: a branch's inner fork before its
\* own call, a callee's leaves in body order, nothing else ordered.
Abstract ==
  INSTANCE DurableRun WITH
    Calls <- Leaf,
    Gate <- Gated,
    Before <- [l \in Leaf |-> {m \in Leaf :
                 \/ m[1] = l[1] /\ m[2] < l[2]
                 \/ l[1][2] = 0 /\ m[1][1] = l[1][1] /\ m[1][2] > 0}],
    state <- status,
    made <- effects,
    asked <- cp.slot.leaf,
    auto <- (options = "auto")

\* Fork, parallel loop, invoker and checkpoint together implement that run.
Refines == Abstract!Spec

\* With an operator who answers, the run ends.
Settles == <>(status \in {"succeeded", "failed"})

=============================================================================
