----------------------------- MODULE ExecControl -----------------------------
(***************************************************************************)
(* Control flow of a durable run and its replay: execLoop, execWhile,       *)
(* execRetry, execBranch, invoke and the session's memo and control records *)
(* (internal/execir/interp.go), on two nested loops of any kinds:           *)
(*                                                                          *)
(*   <loop 1> { x1 = leaf1(); <loop 2> { x2 = leaf2(); if x2 = Stop return; }}*)
(*                                                                          *)
(* A resume walks the program again from the start and must come to the     *)
(* leaf it paused at with the same scope, by the same decisions, without    *)
(* invoking anything it already invoked.  A while goes on while its         *)
(* condition holds and falls through at its bound; a retry ends when its    *)
(* condition holds and fails at its bound.                                  *)
(***************************************************************************)
EXTENDS Naturals, Sequences

CONSTANTS
  Kinds,      \* the kinds of <<loop 1, loop 2>> to consider
  Limit,      \* Limit[l]: the authored limit of loop l
  MaxIters,   \* Interp.MaxLoopIterations
  Gated,      \* the leaves (1, 2) whose call needs a decision
  Value,      \* what a call may return
  Stop        \* the value of leaf 2 that makes the body return

ASSUME ControlAssumption ==
  /\ Kinds \subseteq {"loop", "while", "retry"} \X {"loop", "while", "retry"}
  /\ Limit \in [1..2 -> Nat]
  /\ MaxIters \in Nat \ {0}
  /\ Value \subseteq Nat /\ 0 \in Value

VARIABLES
  kind,       \* the program: the kinds of its two loops
  input,      \* the value the run was given
  at,         \* where the walk is: <<"enter" | "head" | "leaf" | "tail", l>>, "branch", "end"
  idx,        \* idx[l]: the iteration of loop l
  len,        \* len[l]: the items of loop l, evaluated when it was entered
  scope,      \* scope[l]: what leaf l returned last
  memo,       \* session.memo: {<<key, value>>}
  control,    \* session.control: {<<key, decision>>}
  status,     \* "running", "interrupted", "succeeded", or why the run failed
  seed,       \* the key of the gate this resume answers
  cp,         \* the checkpoint: [memo, control, key]
  effects,    \* ghost: the keys dispatched, in order
  paused      \* ghost: [at, idx, scope] of the walk when it suspended

vars == <<kind, input, at, idx, len, scope, memo, control, status, seed, cp, effects, paused>>
fixed == <<kind, input>>
durable == <<cp, effects, paused>>

Loop == 1..2
NoKey == <<0, <<>>>>

\* Lookups in a set of <<key, value>> pairs.
Has(m, k) == \E e \in m : e[1] = k
Get(m, k) == (CHOOSE e \in m : e[1] = k)[2]

-----------------------------------------------------------------------------
(* Addresses.  A loop body's nodes share one path across iterations, so the *)
(* iteration vector is part of every key. *)

\* The vector of the loops around loop l, and of its body.
Around(l) == IF l = 1 THEN <<>> ELSE <<idx[1]>>
Within(l) == Append(Around(l), idx[l])

\* CallKey of the leaf of loop l.
CallKey(l) == <<l, Within(l)>>

\* controlKey.
ControlKey(prefix, l, vec) == <<prefix, l, vec>>

\* The ceiling of a while or a retry: its own limit, capped by the global one.
Ceiling(l) == IF Limit[l] > 0 /\ Limit[l] < MaxIters THEN Limit[l] ELSE MaxIters

\* The condition of a while or a retry, over the scope.
Cond(l) == IF kind[l] = "while" THEN scope[l] # 0 ELSE scope[l] = 0

\* The collection a loop ranges over: the input, or what leaf 1 returned.
Items(l) == IF l = 1 THEN input ELSE scope[1]

\* Where the body of a loop starts, and where the walk goes after the loop.
Body(l) == <<"leaf", l>>
After(l) == IF l = 1 THEN <<"end", 1>> ELSE <<"tail", 1>>

-----------------------------------------------------------------------------
\* checkControl: record the decision, or refuse one that differs from the record.
Decided(prefix, l, vec, val, next) ==
  LET k == ControlKey(prefix, l, vec) IN
  IF Has(control, k) /\ Get(control, k) # val
  THEN /\ status' = "diverged"
       /\ UNCHANGED <<at, control>>
  ELSE /\ control' = control \cup {<<k, val>>}
       /\ at' = next
       /\ UNCHANGED status

Bit(b) == IF b THEN 1 ELSE 0

Start(prog, given) ==
  /\ kind = prog
  /\ input = given
  /\ at = <<"enter", 1>>
  /\ idx = <<0, 0>>
  /\ len = <<0, 0>>
  /\ scope = <<given, given>>
  /\ memo = {}
  /\ control = {}
  /\ status = "running"
  /\ seed = NoKey
  /\ cp = [memo |-> {}, control |-> {}, key |-> NoKey]
  /\ effects = <<>>
  /\ paused = [at |-> <<"enter", 1>>, idx |-> <<0, 0>>, scope |-> <<0, 0>>]

Init == \E prog \in Kinds, given \in Value : Start(prog, given)

\* Entering a loop: a collection is evaluated once, bounded and recorded.
Enter(l) ==
  /\ status = "running"
  /\ at = <<"enter", l>>
  /\ idx' = [idx EXCEPT ![l] = 0]
  /\ IF kind[l] # "loop"
     THEN at' = <<"head", l>> /\ UNCHANGED <<len, control, status>>
     ELSE IF Items(l) > MaxIters
     THEN status' = "too many items" /\ UNCHANGED <<at, len, control>>
     ELSE /\ len' = [len EXCEPT ![l] = Items(l)]
          /\ Decided("loop", l, Around(l), Items(l), <<"head", l>>)
  /\ UNCHANGED <<fixed, scope, memo, seed, durable>>

\* for i := 0; i < max; i++, of a while or a retry.
MayIterate(l) == idx[l] < Ceiling(l)

\* A while at its bound is done; a retry is a RetryExhaustedError.
AtBound(l) ==
  \/ kind[l] = "while" /\ at' = After(l) /\ UNCHANGED <<control, status>>
  \/ kind[l] = "retry" /\ status' = "retry exhausted" /\ UNCHANGED <<at, control>>

\* The top of an iteration.
Top(l) ==
  /\ status = "running"
  /\ at = <<"head", l>>
  /\ \/ /\ kind[l] = "loop"
        /\ at' = IF idx[l] < len[l] THEN Body(l) ELSE After(l)
        /\ UNCHANGED <<control, status>>
     \/ /\ kind[l] = "while" /\ MayIterate(l)
        /\ Decided("while", l, Within(l), Bit(Cond(l)), IF Cond(l) THEN Body(l) ELSE After(l))
     \/ /\ kind[l] = "retry" /\ MayIterate(l)
        /\ at' = Body(l)
        /\ UNCHANGED <<control, status>>
     \/ kind[l] # "loop" /\ ~MayIterate(l) /\ AtBound(l)
  /\ UNCHANGED <<fixed, idx, len, scope, memo, seed, durable>>

\* The bottom of an iteration: a retry looks at its condition now.
Bottom(l) ==
  /\ status = "running"
  /\ at = <<"tail", l>>
  /\ IF kind[l] = "retry"
     THEN Decided("retry", l, Within(l), Bit(Cond(l)), IF Cond(l) THEN After(l) ELSE <<"head", l>>)
     ELSE at' = <<"head", l>> /\ UNCHANGED <<control, status>>
  /\ idx' = [idx EXCEPT ![l] = @ + 1]
  /\ UNCHANGED <<fixed, len, scope, memo, seed, durable>>

AfterLeaf(l) == IF l = 1 THEN <<"enter", 2>> ELSE <<"branch", 2>>

\* Mutant: the replayed result is not bound.
UnboundReplay(l) ==
  /\ status = "running"
  /\ at = <<"leaf", l>>
  /\ Has(memo, CallKey(l))
  /\ at' = AfterLeaf(l)
  /\ UNCHANGED <<fixed, idx, len, scope, memo, control, status, seed, durable>>

\* invoke, replaying: a memoized leaf binds its recorded result.
Replay(l) ==
  /\ status = "running"
  /\ at = <<"leaf", l>>
  /\ Has(memo, CallKey(l))
  /\ scope' = [scope EXCEPT ![l] = Get(memo, CallKey(l))]
  /\ at' = AfterLeaf(l)
  /\ UNCHANGED <<fixed, idx, len, memo, control, status, seed, durable>>

\* invoke, calling: the result is memoized under the call's address.
Invoke(l, v) ==
  /\ status = "running"
  /\ at = <<"leaf", l>>
  /\ ~Has(memo, CallKey(l))
  /\ l \in Gated => seed = CallKey(l)
  /\ seed' = IF seed = CallKey(l) THEN NoKey ELSE seed
  /\ effects' = Append(effects, CallKey(l))
  /\ memo' = memo \cup {<<CallKey(l), v>>}
  /\ scope' = [scope EXCEPT ![l] = v]
  /\ at' = AfterLeaf(l)
  /\ UNCHANGED <<fixed, idx, len, control, status, cp, paused>>

\* invoke, failing, before or after the call left: the error ends the walk.
InvokeFails(l) ==
  /\ status = "running"
  /\ at = <<"leaf", l>>
  /\ ~Has(memo, CallKey(l))
  /\ l \in Gated => seed = CallKey(l)
  /\ status' = "failed"
  /\ UNCHANGED <<fixed, at, idx, len, scope, memo, control, seed, durable>>

\* invoke, suspending: RunResumable hands memo and control to the checkpoint.
Suspend(l) ==
  /\ status = "running"
  /\ at = <<"leaf", l>>
  /\ ~Has(memo, CallKey(l))
  /\ l \in Gated /\ seed # CallKey(l)
  /\ status' = "interrupted"
  /\ cp' = [memo |-> memo, control |-> control, key |-> CallKey(l)]
  /\ paused' = [at |-> at, idx |-> idx, scope |-> scope]
  /\ UNCHANGED <<fixed, at, idx, len, scope, memo, control, seed, effects>>

\* execBranch over what leaf 2 returned; its Then returns from the workflow.
Branch ==
  /\ status = "running"
  /\ at = <<"branch", 2>>
  /\ Decided("br", 2, Within(2), Bit(scope[2] = Stop),
             IF scope[2] = Stop THEN <<"end", 2>> ELSE <<"tail", 2>>)
  /\ UNCHANGED <<fixed, idx, len, scope, memo, seed, durable>>

Finish ==
  /\ status = "running"
  /\ at[1] = "end"
  /\ status' = "succeeded"
  /\ UNCHANGED <<fixed, at, idx, len, scope, memo, control, seed, durable>>

\* A fresh walk from the first node, over a memo, control records and a gate.
Rewalk(recorded, decisions, gate) ==
  /\ status = "interrupted"
  /\ status' = "running"
  /\ at' = <<"enter", 1>>
  /\ idx' = <<0, 0>>
  /\ len' = <<0, 0>>
  /\ scope' = <<input, input>>
  /\ memo' = recorded
  /\ control' = decisions
  /\ seed' = gate
  /\ UNCHANGED <<fixed, durable>>

\* Mutants: the memo, or the gate, is not seeded.
AmnesicResume == Rewalk({}, cp.control, cp.key)
UnseededResume == Rewalk(cp.memo, cp.control, NoKey)

\* RunResumable seeded from the checkpoint, with the gate approved.
Resume == Rewalk(cp.memo, cp.control, cp.key)

Ended ==
  /\ status \notin {"running", "interrupted"}
  /\ UNCHANGED vars

Next ==
  \/ \E l \in Loop : Enter(l) \/ Top(l) \/ Bottom(l) \/ Replay(l) \/ Suspend(l) \/ InvokeFails(l)
  \/ \E l \in Loop, v \in Value : Invoke(l, v)
  \/ Branch \/ Finish \/ Resume \/ Ended

Spec == Init /\ [][Next]_vars

FairSpec == Spec /\ WF_vars(Next)

-----------------------------------------------------------------------------
(* Properties *)

Outcome == {"running", "interrupted", "succeeded", "failed", "diverged", "too many items", "retry exhausted"}

TypeOK ==
  /\ kind \in Kinds /\ input \in Value
  /\ at \in {"enter", "head", "leaf", "tail", "branch", "end"} \X Loop
  /\ idx \in [Loop -> 0..MaxIters]
  /\ len \in [Loop -> 0..MaxIters]
  /\ scope \in [Loop -> Value]
  /\ \A e \in memo : e[1][1] \in Loop /\ e[2] \in Value
  /\ \A e \in control : e[2] \in Nat
  /\ status \in Outcome

\* S7: an address is dispatched once, whatever loops, pauses and replays.
EffectOnce == \A i, j \in DOMAIN effects : effects[i] = effects[j] => i = j

\* Replay determinism: a resumed walk comes back to the leaf it paused at, in
\* the same iterations and with the same scope, before it does anything new; and
\* the divergence guard of checkControl never fires, neither between iterations
\* nor on a replay.
ReplayFaithful ==
  /\ status # "diverged"
  /\ (status = "running" /\ seed # NoKey /\ at[1] = "leaf" /\ ~Has(memo, CallKey(at[2])))
       => [at |-> at, idx |-> idx, scope |-> scope] = paused

\* With an operator who approves every gate, every program ends.
Terminates == <>(status \notin {"running", "interrupted"})

=============================================================================
