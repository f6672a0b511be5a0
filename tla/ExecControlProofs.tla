--------------------------- MODULE ExecControlProofs ---------------------------
(***************************************************************************)
(* For loops of any kinds and limits, any gated leaves and any results: no  *)
(* address is dispatched twice, over any number of pauses and replays, no   *)
(* loop iterates beyond its ceiling, and a resumed walk comes back to where *)
(* it paused before it calls anything new, by the recorded decisions.       *)
(***************************************************************************)
EXTENDS ExecControl, TLAPS

\* The results that are recorded are those of the calls that were made: the memo
\* holds every dispatched address, and the checkpoint of a paused run all of it.
MemoHolds ==
  /\ effects \in Seq(Loop \X Seq(Nat))
  /\ \A i \in DOMAIN effects : Has(memo, effects[i])
  /\ status = "interrupted" => cp.memo = memo /\ cp.control = control

\* While the body of loop l runs, its iteration is below the global ceiling.
InBody(l) ==
  \/ at[1] \in {"leaf", "tail"} /\ at[2] = l
  \/ l = 1 /\ at[1] \in {"enter", "head", "leaf", "branch", "tail"} /\ at[2] = 2
  \/ l = 2 /\ at = <<"branch", 2>>

BodyBound == status = "running" => \A l \in Loop : InBody(l) => idx[l] < MaxIters

\* The inductive invariant.
IndInv == TypeOK /\ MemoHolds /\ BodyBound /\ EffectOnce

Place == {"enter", "head", "leaf", "tail", "branch", "end"}

\* The global ceiling is positive.
LEMMA MaxItersNat == MaxIters \in Nat /\ 0 < MaxIters
BY ControlAssumption

\* Where the walk may go.
LEMMA PlaceTyped ==
  /\ \A p \in Place, l \in Loop : <<p, l>> \in Place \X Loop
  /\ \A l \in Loop : /\ Body(l) \in Place \X Loop
                     /\ After(l) \in Place \X Loop
                     /\ AfterLeaf(l) \in Place \X Loop
  /\ 1 \in Loop /\ 2 \in Loop
BY DEF Place, Loop, Body, After, AfterLeaf

\* The types of the walk's state, from those of its parts.
LEMMA TypeParts ==
  ASSUME TypeOK, UNCHANGED <<kind, input>>,
         at' = at \/ at' \in Place \X Loop,
         idx' \in [Loop -> 0..MaxIters], len' \in [Loop -> 0..MaxIters], scope' \in [Loop -> Value],
         memo' = memo, \A e \in control' : e[2] \in Nat, status' \in Outcome
  PROVE  TypeOK'
BY DEF TypeOK, Place

\* The ceiling of a while or a retry never exceeds the global one.
LEMMA CeilingBound == ASSUME NEW l \in Loop PROVE Ceiling(l) \in 0..MaxIters
BY ControlAssumption DEF Ceiling, Loop

\* A loop has one of the three kinds.
LEMMA KindTyped == TypeOK => \A l \in Loop : kind[l] \in {"loop", "while", "retry"}
BY ControlAssumption DEF TypeOK, Loop

\* Addresses: a leaf and its iteration vector.
LEMMA KeyTyped ==
  ASSUME TypeOK, NEW l \in Loop PROVE CallKey(l) \in Loop \X Seq(Nat) /\ CallKey(l)[1] = l
<1>1. idx[1] \in Nat /\ idx[2] \in Nat
  BY ControlAssumption DEF TypeOK, Loop
<1>2. Around(l) \in Seq(Nat)
  BY <1>1 DEF Around
<1>3. Within(l) \in Seq(Nat)
  BY <1>1, <1>2 DEF Within, Loop
<1> QED
  BY <1>3 DEF CallKey

\* The initial states.
LEMMA InitInv == Init => IndInv
<1> SUFFICES ASSUME NEW prog \in Kinds, NEW given \in Value, Start(prog, given) PROVE IndInv
  BY DEF Init
<1>1. TypeOK
  BY ControlAssumption DEF Start, TypeOK, Loop, Outcome
<1>2. MemoHolds /\ EffectOnce
  BY DEF Start, MemoHolds, EffectOnce
<1>3. BodyBound
  BY DEF Start, BodyBound, InBody, Loop
<1> QED
  BY <1>1, <1>2, <1>3 DEF IndInv

\* checkControl keeps the records' type and goes on to the next node, or fails.
LEMMA DecidedStep ==
  ASSUME TypeOK, status = "running", NEW prefix, NEW l, NEW vec, NEW val \in Nat, NEW next,
         Decided(prefix, l, vec, val, next)
  PROVE  /\ \A e \in control' : e[2] \in Nat
         /\ \/ at' = next /\ status' = "running"
            \/ at' = at /\ status' = "diverged"
<1> DEFINE k == ControlKey(prefix, l, vec)
<1>1. \/ /\ at' = at /\ status' = "diverged" /\ control' = control
      \/ /\ at' = next /\ status' = "running" /\ control' = control \cup {<<k, val>>}
  BY DEF Decided
<1>2. \A e \in control \cup {<<k, val>>} : e[2] \in Nat
  BY DEF TypeOK
<1> QED
  BY <1>1, <1>2 DEF TypeOK

\* What the walk does besides calling and pausing leaves the records of the
\* calls alone.
LEMMA RecordsKept ==
  ASSUME MemoHolds, EffectOnce, status' # "interrupted", UNCHANGED <<memo, effects>>
  PROVE  MemoHolds' /\ EffectOnce'
BY DEF MemoHolds, EffectOnce, Has

\* Entering a loop.
LEMMA EnterStep == ASSUME IndInv, NEW l \in Loop, Enter(l) PROVE IndInv'
<1> USE MaxItersNat DEF IndInv
<1>1. /\ Items(l) \in Nat
      /\ idx' = [idx EXCEPT ![l] = 0]
      /\ UNCHANGED <<kind, input, scope, memo, effects>>
      /\ at = <<"enter", l>> /\ status = "running"
  <2>1. Items(l) \in Nat
    <3>1. scope[1] \in Value /\ input \in Value
      BY DEF TypeOK, Loop
    <3> QED
      BY <3>1, ControlAssumption DEF Items
  <2> QED
    BY <2>1 DEF Enter, fixed, durable
<1>2. idx' \in [Loop -> 0..MaxIters] /\ idx'[l] = 0 /\ \A k \in Loop : k # l => idx'[k] = idx[k]
  BY <1>1 DEF TypeOK
<1>3. /\ len' \in [Loop -> 0..MaxIters]
      /\ \A e \in control' : e[2] \in Nat
      /\ \/ at' = <<"head", l>> /\ status' = "running"
         \/ at' = at /\ status' \in {"diverged", "too many items"}
  <2>1. CASE kind[l] # "loop"
    BY <1>1, <2>1 DEF Enter, TypeOK
  <2>2. CASE kind[l] = "loop" /\ Items(l) > MaxIters
    BY <1>1, <2>2 DEF Enter, TypeOK
  <2>3. CASE kind[l] = "loop" /\ ~(Items(l) > MaxIters)
    <3>1. /\ len' = [len EXCEPT ![l] = Items(l)]
          /\ Decided("loop", l, Around(l), Items(l), <<"head", l>>)
      BY <1>1, <2>3 DEF Enter
    <3>2. len' \in [Loop -> 0..MaxIters]
      BY <1>1, <2>3, <3>1 DEF TypeOK
    <3> QED
      BY <1>1, <3>1, <3>2, DecidedStep
  <2> QED
    BY <1>1, <2>1, <2>2, <2>3
<1>4. TypeOK'
  <2>1. at' = at \/ at' \in Place \X Loop
    BY <1>3, PlaceTyped DEF Place
  <2> QED
    BY <1>1, <1>2, <1>3, <2>1, TypeParts DEF TypeOK, Outcome
<1>5. BodyBound'
  BY <1>1, <1>2, <1>3 DEF BodyBound, InBody, Loop
<1> QED
  BY <1>1, <1>3, <1>4, <1>5, RecordsKept

\* The top of an iteration: the body is entered below the ceiling only.
LEMMA TopStep == ASSUME IndInv, NEW l \in Loop, Top(l) PROVE IndInv'
<1> USE MaxItersNat DEF IndInv
<1>1. /\ UNCHANGED <<kind, input, idx, len, scope, memo, effects>>
      /\ at = <<"head", l>> /\ status = "running"
  BY DEF Top, fixed, durable
<1>2. /\ \A e \in control' : e[2] \in Nat
      /\ \/ at' = Body(l) /\ idx[l] < MaxIters /\ status' = "running"
         \/ at' = After(l) /\ status' = "running"
         \/ at' = at /\ status' \in {"diverged", "retry exhausted"}
  <2>1. CASE kind[l] = "loop"
    BY <1>1, <2>1 DEF Top, TypeOK
  <2>2. CASE kind[l] = "while" /\ MayIterate(l)
    <3>1. Decided("while", l, Within(l), Bit(Cond(l)), IF Cond(l) THEN Body(l) ELSE After(l))
      BY <2>2 DEF Top
    <3>2. Bit(Cond(l)) \in Nat
      BY DEF Bit
    <3>3. idx[l] < MaxIters
      BY <2>2, CeilingBound DEF MayIterate, TypeOK
    <3> QED
      BY <1>1, <3>1, <3>2, <3>3, DecidedStep
  <2>3. CASE kind[l] = "retry" /\ MayIterate(l)
    <3>1. idx[l] < MaxIters
      BY <2>3, CeilingBound DEF MayIterate, TypeOK
    <3>2. at' = Body(l) /\ UNCHANGED <<control, status>>
      BY <2>3 DEF Top
    <3> QED
      BY <1>1, <3>1, <3>2 DEF TypeOK
  <2>4. CASE kind[l] # "loop" /\ ~MayIterate(l)
    BY <1>1, <2>4 DEF Top, AtBound, TypeOK
  <2> QED
    BY <2>1, <2>2, <2>3, <2>4, KindTyped
<1>3. TypeOK'
  <2>1. at' = at \/ at' \in Place \X Loop
    BY <1>2, PlaceTyped
  <2> QED
    BY <1>1, <1>2, <2>1, TypeParts DEF TypeOK, Outcome
<1>4. BodyBound'
  BY <1>1, <1>2 DEF BodyBound, InBody, Body, After, Loop
<1> QED
  BY <1>1, <1>2, <1>3, <1>4, RecordsKept

\* The bottom of an iteration: the counter stays within the global ceiling.
LEMMA BottomStep == ASSUME IndInv, NEW l \in Loop, Bottom(l) PROVE IndInv'
<1> USE ControlAssumption DEF IndInv
<1>1. /\ UNCHANGED <<kind, input, len, scope, memo, effects>>
      /\ at = <<"tail", l>> /\ status = "running"
      /\ idx' = [idx EXCEPT ![l] = @ + 1]
  BY DEF Bottom, fixed, durable
<1>2. idx[l] < MaxIters
  BY <1>1 DEF BodyBound, InBody
<1>3. idx' \in [Loop -> 0..MaxIters] /\ \A k \in Loop : k # l => idx'[k] = idx[k]
  BY <1>1, <1>2 DEF TypeOK
<1>4. /\ \A e \in control' : e[2] \in Nat
      /\ \/ at' \in {After(l), <<"head", l>>} /\ status' = "running"
         \/ at' = at /\ status' = "diverged"
  <2>1. CASE kind[l] = "retry"
    <3>1. Decided("retry", l, Within(l), Bit(Cond(l)), IF Cond(l) THEN After(l) ELSE <<"head", l>>)
      BY <2>1 DEF Bottom
    <3>2. Bit(Cond(l)) \in Nat
      BY DEF Bit
    <3> QED
      BY <1>1, <3>1, <3>2, DecidedStep
  <2>2. CASE kind[l] # "retry"
    BY <1>1, <2>2 DEF Bottom, TypeOK
  <2> QED
    BY <2>1, <2>2
<1>5. TypeOK'
  <2>1. at' = at \/ at' \in Place \X Loop
    BY <1>4, PlaceTyped DEF Place
  <2> QED
    BY <1>1, <1>3, <1>4, <2>1, TypeParts DEF TypeOK, Outcome
<1>6. BodyBound'
  BY <1>1, <1>3, <1>4 DEF BodyBound, InBody, After, Loop
<1> QED
  BY <1>1, <1>4, <1>5, <1>6, RecordsKept

\* A replayed leaf binds a value of the memo and calls nothing.
LEMMA ReplayStep == ASSUME IndInv, NEW l \in Loop, Replay(l) PROVE IndInv'
<1> USE ControlAssumption DEF IndInv
<1>1. /\ UNCHANGED <<kind, input, idx, len, memo, control, status, effects>>
      /\ at = <<"leaf", l>> /\ status = "running" /\ at' = AfterLeaf(l)
      /\ scope' = [scope EXCEPT ![l] = Get(memo, CallKey(l))]
  BY DEF Replay, fixed, durable
<1>2. Get(memo, CallKey(l)) \in Value
  <2>1. PICK e \in memo : e[1] = CallKey(l)
    BY DEF Replay, Has
  <2>2. (CHOOSE f \in memo : f[1] = CallKey(l)) \in memo
    BY <2>1
  <2> QED
    BY <2>2 DEF Get, TypeOK
<1>3. TypeOK'
  BY <1>1, <1>2 DEF TypeOK, AfterLeaf, Loop
<1>4. BodyBound'
  BY <1>1 DEF BodyBound, InBody, AfterLeaf, Loop
<1> QED
  BY <1>1, <1>3, <1>4, RecordsKept

\* A call is made only at an address that the memo does not hold, so at one
\* that was never dispatched.
LEMMA InvokeStep ==
  ASSUME IndInv, NEW l \in Loop, NEW v \in Value, Invoke(l, v) PROVE IndInv'
<1> USE ControlAssumption DEF IndInv
<1> DEFINE k == CallKey(l)
<1>1. /\ UNCHANGED <<kind, input, idx, len, control, status>>
      /\ at = <<"leaf", l>> /\ status = "running" /\ at' = AfterLeaf(l)
      /\ scope' = [scope EXCEPT ![l] = v]
      /\ memo' = memo \cup {<<k, v>>}
      /\ effects' = Append(effects, k)
      /\ ~Has(memo, k)
  BY DEF Invoke, fixed
<1>2. k \in Loop \X Seq(Nat) /\ k[1] = l
  BY KeyTyped
<1> HIDE DEF k
<1>3. TypeOK'
  <2>1. \A e \in memo' : e[1][1] \in Loop /\ e[2] \in Value
    BY <1>1, <1>2 DEF TypeOK
  <2> QED
    BY <1>1, <2>1 DEF TypeOK, AfterLeaf, Loop
<1>4. BodyBound'
  BY <1>1 DEF BodyBound, InBody, AfterLeaf, Loop
<1>5. /\ effects' \in Seq(Loop \X Seq(Nat))
      /\ DOMAIN effects' = DOMAIN effects \cup {Len(effects) + 1}
      /\ Len(effects) + 1 \notin DOMAIN effects
      /\ \A i \in DOMAIN effects : effects'[i] = effects[i]
      /\ effects'[Len(effects) + 1] = k
  BY <1>1, <1>2 DEF MemoHolds
<1>6. \A x : Has(memo, x) => Has(memo', x)
  BY <1>1 DEF Has
<1>7. Has(memo', k)
  <2>1. <<k, v>> \in memo' /\ <<k, v>>[1] = k
    BY <1>1
  <2> QED
    BY <2>1 DEF Has
<1>8. MemoHolds'
  BY <1>1, <1>5, <1>6, <1>7 DEF MemoHolds
<1>9. EffectOnce'
  BY <1>1, <1>5 DEF MemoHolds, EffectOnce
<1> QED
  BY <1>3, <1>4, <1>8, <1>9

\* The other steps: a failing call, a pause, a branch, the end, and a resume,
\* which starts over with all that is recorded.
LEMMA OtherStep ==
  ASSUME IndInv, \/ \E l \in Loop : Suspend(l) \/ InvokeFails(l)
                 \/ Branch \/ Finish \/ Resume \/ Ended \/ UNCHANGED vars
  PROVE  IndInv'
<1> USE ControlAssumption DEF IndInv
<1>1. ASSUME NEW l \in Loop, Suspend(l) PROVE IndInv'
  <2>1. TypeOK' /\ BodyBound'
    BY <1>1 DEF Suspend, fixed, TypeOK, Outcome, BodyBound
  <2>2. MemoHolds' /\ EffectOnce'
    BY <1>1 DEF Suspend, MemoHolds, EffectOnce, Has
  <2> QED
    BY <2>1, <2>2
<1>2. ASSUME NEW l \in Loop, InvokeFails(l) PROVE IndInv'
  <2>1. TypeOK' /\ BodyBound'
    BY <1>2 DEF InvokeFails, fixed, TypeOK, Outcome, BodyBound
  <2> QED
    BY <1>2, <2>1, RecordsKept DEF InvokeFails, durable
<1>3. CASE Branch
  <2>1. /\ UNCHANGED <<kind, input, idx, len, scope, memo, effects>>
        /\ at = <<"branch", 2>> /\ status = "running"
    BY <1>3 DEF Branch, fixed, durable
  <2>2. /\ \A e \in control' : e[2] \in Nat
        /\ \/ at' \in {<<"end", 2>>, <<"tail", 2>>} /\ status' = "running"
           \/ at' = at /\ status' = "diverged"
    <3>1. Bit(scope[2] = Stop) \in Nat
      BY DEF Bit
    <3> QED
      BY <1>3, <2>1, <3>1, DecidedStep DEF Branch
  <2>3. TypeOK'
    <3>1. at' = at \/ at' \in Place \X Loop
      BY <2>2, PlaceTyped DEF Place
    <3> QED
      BY <2>1, <2>2, <3>1, TypeParts DEF TypeOK, Outcome
  <2>4. BodyBound'
    BY <2>1, <2>2 DEF BodyBound, InBody, Loop
  <2> QED
    BY <2>1, <2>2, <2>3, <2>4, RecordsKept
<1>4. CASE Finish
  <2>1. TypeOK' /\ BodyBound'
    BY <1>4 DEF Finish, fixed, TypeOK, Outcome, BodyBound
  <2> QED
    BY <1>4, <2>1, RecordsKept DEF Finish, durable
<1>5. CASE Resume
  <2>1. /\ UNCHANGED <<kind, input, memo, effects>>
        /\ at' = <<"enter", 1>> /\ status' = "running"
        /\ idx' = <<0, 0>> /\ len' = <<0, 0>> /\ scope' = <<input, input>>
        /\ control' = control
    BY <1>5 DEF Resume, Rewalk, fixed, durable, MemoHolds
  <2>2. TypeOK'
    <3>1. at' \in Place \X Loop
      BY <2>1, PlaceTyped DEF Place
    <3>2. /\ idx' \in [Loop -> 0..MaxIters] /\ len' \in [Loop -> 0..MaxIters]
          /\ scope' \in [Loop -> Value]
      BY <2>1, MaxItersNat DEF TypeOK, Loop
    <3> QED
      BY <2>1, <3>1, <3>2, TypeParts DEF TypeOK, Outcome
  <2>3. BodyBound'
    BY <2>1 DEF BodyBound, InBody, Loop
  <2> QED
    BY <2>1, <2>2, <2>3, RecordsKept
<1>6. CASE Ended \/ UNCHANGED vars
  BY <1>6 DEF Ended, vars, TypeOK, MemoHolds, BodyBound, InBody, EffectOnce, Has
<1> QED
  BY <1>1, <1>2, <1>3, <1>4, <1>5, <1>6

\* Every step keeps the inductive invariant.
LEMMA NextInv == IndInv /\ [Next]_vars => IndInv'
BY EnterStep, TopStep, BottomStep, ReplayStep, InvokeStep, OtherStep DEF Next

\* The walk keeps its types: in particular no loop's counter passes the global
\* ceiling and no collection longer than it is entered.
THEOREM TypeCorrect == Spec => []TypeOK
<1>1. IndInv => TypeOK
  BY DEF IndInv
<1> QED
  BY <1>1, InitInv, NextInv, PTL DEF Spec

\* No address is dispatched twice, whatever loops, pauses and replays.
THEOREM DispatchedOnce == Spec => []EffectOnce
<1>1. IndInv => EffectOnce
  BY DEF IndInv
<1> QED
  BY <1>1, InitInv, NextInv, PTL DEF Spec

-----------------------------------------------------------------------------
(* Replay.  Between two calls the walk is a function of what the calls       *)
(* returned.  Its history is the sequence of its states from the first node  *)
(* on: a replay follows it to its end, where nothing is recorded.            *)

Spot == {<<"enter", 1>>, <<"head", 1>>, <<"leaf", 1>>, <<"tail", 1>>, <<"end", 1>>, <<"end", 2>>,
         <<"enter", 2>>, <<"head", 2>>, <<"leaf", 2>>, <<"branch", 2>>, <<"tail", 2>>}

\* A state of the walk, the first one, and the present one.
Walk == [at : Spot, idx : [Loop -> Nat], len : [Loop -> Nat], scope : [Loop -> Value]]
First(given) == [at |-> <<"enter", 1>>, idx |-> <<0, 0>>, len |-> <<0, 0>>, scope |-> <<given, given>>]
Here == [at |-> at, idx |-> idx, len |-> len, scope |-> scope]

\* Addresses at w.
VecAround(w, l) == IF l = 1 THEN <<>> ELSE <<w.idx[1]>>
VecWithin(w, l) == Append(VecAround(w, l), w.idx[l])
LeafKey(w) == <<w.at[2], VecWithin(w, w.at[2])>>

\* What the walk consults at w, in a program with loops kd and input given.
ItemsAt(given, w) == IF w.at[2] = 1 THEN given ELSE w.scope[1]
Holds(kd, w) == IF kd[w.at[2]] = "while" THEN w.scope[w.at[2]] # 0 ELSE w.scope[w.at[2]] = 0
Iterates(kd, w) ==
  LET l == w.at[2]
  IN IF kd[l] = "loop" THEN w.idx[l] < w.len[l]
     ELSE w.idx[l] < Ceiling(l) /\ (kd[l] = "while" => Holds(kd, w))

\* The state after w, the calls having returned what M holds.
NextAt(kd, w) ==
  LET l == w.at[2]
  IN IF w.at[1] = "enter" THEN <<"head", l>>
     ELSE IF w.at[1] = "head" THEN IF Iterates(kd, w) THEN Body(l) ELSE After(l)
     ELSE IF w.at[1] = "leaf" THEN AfterLeaf(l)
     ELSE IF w.at[1] = "branch" THEN IF w.scope[2] = Stop THEN <<"end", 2>> ELSE <<"tail", 2>>
     ELSE IF kd[l] = "retry" /\ Holds(kd, w) THEN After(l) ELSE <<"head", l>>
NextIdx(w) ==
  IF w.at[1] = "enter" THEN [w.idx EXCEPT ![w.at[2]] = 0]
  ELSE IF w.at[1] = "tail" THEN [w.idx EXCEPT ![w.at[2]] = w.idx[w.at[2]] + 1] ELSE w.idx
NextLen(kd, given, w) ==
  IF w.at[1] = "enter" /\ kd[w.at[2]] = "loop" THEN [w.len EXCEPT ![w.at[2]] = ItemsAt(given, w)] ELSE w.len
NextScope(M, w) ==
  IF w.at[1] = "leaf" THEN [w.scope EXCEPT ![w.at[2]] = Get(M, LeafKey(w))] ELSE w.scope
NextOf(kd, given, M, w) ==
  [at |-> NextAt(kd, w), idx |-> NextIdx(w), len |-> NextLen(kd, given, w), scope |-> NextScope(M, w)]

\* What is recorded in passing w.
Decides(kd, w) ==
  \/ w.at[1] = "enter" /\ kd[w.at[2]] = "loop"
  \/ w.at[1] = "head" /\ kd[w.at[2]] = "while" /\ w.idx[w.at[2]] < Ceiling(w.at[2])
  \/ w.at[1] = "tail" /\ kd[w.at[2]] = "retry"
  \/ w.at[1] = "branch"
DecisionKey(w) ==
  IF w.at[1] = "enter" THEN <<"loop", w.at[2], VecAround(w, w.at[2])>>
  ELSE <<IF w.at[1] = "head" THEN "while" ELSE IF w.at[1] = "tail" THEN "retry" ELSE "br",
         w.at[2], VecWithin(w, w.at[2])>>
DecisionOf(kd, given, w) ==
  IF w.at[1] = "enter" THEN ItemsAt(given, w)
  ELSE IF w.at[1] = "branch" THEN Bit(w.scope[2] = Stop) ELSE Bit(Holds(kd, w))
Records(kd, given, w) ==
  IF Decides(kd, w) THEN {<<DecisionKey(w), DecisionOf(kd, given, w)>>} ELSE {}

\* The order of the walk: by outer iteration and place in it, then by inner
\* iteration and place in that.
Outer(w) ==
  IF w.at = <<"enter", 1>> THEN 0
  ELSE 5 * w.idx[1] + (IF w.at = <<"head", 1>> THEN 1 ELSE IF w.at = <<"leaf", 1>> THEN 2
                       ELSE IF w.at = <<"enter", 2>> THEN 3 ELSE IF w.at = <<"tail", 1>> THEN 5 ELSE 4)
InnerPos(w) ==
  IF w.at = <<"head", 2>> THEN 4 * w.idx[2] ELSE IF w.at = <<"leaf", 2>> THEN 4 * w.idx[2] + 1
  ELSE IF w.at = <<"branch", 2>> THEN 4 * w.idx[2] + 2
  ELSE IF w.at = <<"tail", 2>> THEN 4 * w.idx[2] + 3 ELSE 0
Before(w, u) == Outer(w) < Outer(u) \/ (Outer(w) = Outer(u) /\ InnerPos(w) < InnerPos(u))

\* The walk's states and where it goes.
LEMMA SpotCases ==
  ASSUME NEW s \in Spot
  PROVE  /\ s[2] \in Loop /\ s = <<s[1], s[2]>>
         /\ s[1] \in {"enter", "head", "leaf", "tail"} \/ s = <<"branch", 2>> \/ s[1] = "end"
BY DEF Spot, Loop

\* The state after a state of the walk is one.
LEMMA NextTyped ==
  ASSUME NEW kd, NEW given \in Value, NEW M, NEW w \in Walk, w.at[1] # "end",
         w.at[1] = "leaf" => Get(M, LeafKey(w)) \in Value
  PROVE  NextOf(kd, given, M, w) \in Walk
<1>1. /\ w.at \in Spot /\ w.idx \in [Loop -> Nat] /\ w.len \in [Loop -> Nat] /\ w.scope \in [Loop -> Value]
      /\ w.at[2] \in Loop
  BY SpotCases DEF Walk
<1>2. NextAt(kd, w) \in Spot
  <2>1. \A l \in Loop : <<"head", l>> \in Spot /\ Body(l) \in Spot /\ After(l) \in Spot /\ AfterLeaf(l) \in Spot
    BY DEF Loop, Spot, Body, After, AfterLeaf
  <2>2. <<"end", 2>> \in Spot /\ <<"tail", 2>> \in Spot
    BY DEF Spot
  <2> QED
    BY <1>1, <2>1, <2>2 DEF NextAt
<1>3. NextIdx(w) \in [Loop -> Nat]
  BY <1>1 DEF NextIdx
<1>4. NextLen(kd, given, w) \in [Loop -> Nat]
  <2>1. ItemsAt(given, w) \in Nat
    <3>1. w.scope[1] \in Value
      BY <1>1 DEF Loop
    <3> QED
      BY <3>1, ControlAssumption DEF ItemsAt
  <2> QED
    BY <1>1, <2>1 DEF NextLen
<1>5. NextScope(M, w) \in [Loop -> Value]
  BY <1>1 DEF NextScope
<1> QED
  BY <1>2, <1>3, <1>4, <1>5 DEF NextOf, Walk

\* The walk goes forward.
LEMMA NextLater ==
  ASSUME NEW kd, NEW given, NEW M, NEW w \in Walk, w.at[1] # "end", NEW u, u = NextOf(kd, given, M, w),
         u \in Walk, u.at[1] # "end"
  PROVE  Before(w, u)
<1>1. /\ w.at \in Spot /\ w.idx \in [Loop -> Nat] /\ w.idx[1] \in Nat /\ w.idx[2] \in Nat
      /\ u.at = NextAt(kd, w) /\ u.idx = NextIdx(w)
  BY DEF Walk, NextOf, Loop
<1>2. 1 \in Loop /\ 2 \in Loop /\ 1 # 2
  BY DEF Loop
<1>3. CASE w.at = <<"enter", 1>>
  <2>1. u.at = <<"head", 1>> /\ u.idx[1] = 0
    BY <1>1, <1>2, <1>3 DEF NextAt, NextIdx
  <2> QED
    BY <1>3, <2>1 DEF Before, Outer
<1>4. CASE w.at = <<"head", 1>>
  <2>1. u.at = <<"leaf", 1>> /\ u.idx = w.idx
    BY <1>1, <1>4 DEF NextAt, NextIdx, Body, After
  <2> QED
    BY <1>1, <1>4, <2>1 DEF Before, Outer
<1>5. CASE w.at = <<"leaf", 1>>
  <2>1. u.at = <<"enter", 2>> /\ u.idx = w.idx
    BY <1>1, <1>5 DEF NextAt, NextIdx, AfterLeaf
  <2> QED
    BY <1>1, <1>5, <2>1 DEF Before, Outer
<1>6. CASE w.at = <<"enter", 2>>
  <2>1. u.at = <<"head", 2>> /\ u.idx[1] = w.idx[1]
    BY <1>1, <1>2, <1>6 DEF NextAt, NextIdx
  <2> QED
    BY <1>1, <1>6, <2>1 DEF Before, Outer
<1>7. CASE w.at = <<"head", 2>>
  <2>1. (u.at = <<"leaf", 2>> \/ u.at = <<"tail", 1>>) /\ u.idx = w.idx
    BY <1>1, <1>7 DEF NextAt, NextIdx, Body, After
  <2> QED
    BY <1>1, <1>7, <2>1 DEF Before, Outer, InnerPos
<1>8. CASE w.at = <<"leaf", 2>>
  <2>1. u.at = <<"branch", 2>> /\ u.idx = w.idx
    BY <1>1, <1>8 DEF NextAt, NextIdx, AfterLeaf
  <2> QED
    BY <1>1, <1>8, <2>1 DEF Before, Outer, InnerPos
<1>9. CASE w.at = <<"branch", 2>>
  <2>1. u.at = <<"tail", 2>> /\ u.idx = w.idx
    BY <1>1, <1>9 DEF NextAt, NextIdx
  <2> QED
    BY <1>1, <1>9, <2>1 DEF Before, Outer, InnerPos
<1>10. CASE w.at = <<"tail", 2>>
  <2>1. (u.at = <<"head", 2>> \/ u.at = <<"tail", 1>>) /\ u.idx[1] = w.idx[1] /\ u.idx[2] = w.idx[2] + 1
    BY <1>1, <1>2, <1>10 DEF NextAt, NextIdx, After
  <2> QED
    BY <1>1, <1>10, <2>1 DEF Before, Outer, InnerPos
<1>11. CASE w.at = <<"tail", 1>>
  <2>1. u.at = <<"head", 1>> /\ u.idx[1] = w.idx[1] + 1
    BY <1>1, <1>2, <1>11 DEF NextAt, NextIdx, After
  <2> QED
    BY <1>1, <1>11, <2>1 DEF Before, Outer
<1> QED
  BY <1>1, <1>3, <1>4, <1>5, <1>6, <1>7, <1>8, <1>9, <1>10, <1>11 DEF Spot

\* The order is that of pairs of naturals, hence transitive.
LEMMA PlaceNat == ASSUME NEW w \in Walk PROVE Outer(w) \in Nat /\ InnerPos(w) \in Nat
<1>1. w.idx[1] \in Nat /\ w.idx[2] \in Nat
  BY DEF Walk, Loop
<1> QED
  BY <1>1 DEF Outer, InnerPos

\* Transitivity.
LEMMA BeforeOrder ==
  ASSUME NEW w \in Walk, NEW u \in Walk, NEW x \in Walk, Before(w, u), Before(u, x)
  PROVE  Before(w, x)
BY PlaceNat DEF Before

\* An address occurs once in the walk: two states with one key are at one place.
LEMMA KeysDiffer ==
  ASSUME NEW w \in Walk, NEW u \in Walk, w.at[1] # "end", u.at[1] # "end",
         \/ w.at[1] = "leaf" /\ u.at[1] = "leaf" /\ LeafKey(w) = LeafKey(u)
         \/ w.at[1] # "leaf" /\ u.at[1] # "leaf" /\ DecisionKey(w) = DecisionKey(u)
  PROVE  ~Before(w, u)
<1>1. /\ w.at \in Spot /\ u.at \in Spot /\ w.at[2] \in Loop /\ u.at[2] \in Loop
      /\ w.idx[1] \in Nat /\ u.idx[1] \in Nat /\ w.idx[2] \in Nat /\ u.idx[2] \in Nat
      /\ w.at = <<w.at[1], w.at[2]>> /\ u.at = <<u.at[1], u.at[2]>>
  BY SpotCases DEF Walk, Loop
<1>2. ASSUME NEW l \in Loop, VecWithin(w, l) = VecWithin(u, l)
      PROVE  w.idx[1] = u.idx[1] /\ (l = 2 => w.idx[2] = u.idx[2])
  <2>1. CASE l = 1
    BY <1>1, <1>2, <2>1 DEF VecWithin, VecAround
  <2>2. CASE l = 2
    <3>1. ASSUME NEW a \in Nat, NEW b \in Nat PROVE Append(<<a>>, b)[1] = a /\ Append(<<a>>, b)[2] = b
      <4>1. <<a>> \in Seq(Nat) /\ Len(<<a>>) = 1 /\ <<a>>[1] = a
        OBVIOUS
      <4> QED
        BY <4>1
    <3>2. Append(<<w.idx[1]>>, w.idx[2]) = Append(<<u.idx[1]>>, u.idx[2])
      BY <1>2, <2>2 DEF VecWithin, VecAround
    <3> QED
      BY <1>1, <3>1, <3>2
  <2> QED
    BY <2>1, <2>2 DEF Loop
<1>3. /\ w.at = u.at
      /\ w.at # <<"enter", 1>> => w.idx[1] = u.idx[1]
      /\ w.at[2] = 2 /\ w.at[1] # "enter" => w.idx[2] = u.idx[2]
  <2>1. CASE w.at[1] = "leaf"
    <3>1. u.at[1] = "leaf" /\ w.at[2] = u.at[2] /\ VecWithin(w, w.at[2]) = VecWithin(u, w.at[2])
      BY <2>1 DEF LeafKey
    <3> QED
      BY <1>1, <1>2, <2>1, <3>1
  <2>2. CASE w.at[1] = "enter"
    <3>1. u.at[1] = "enter" /\ w.at[2] = u.at[2] /\ VecAround(w, w.at[2]) = VecAround(u, w.at[2])
      BY <1>1, <2>2 DEF DecisionKey
    <3>2. w.at[2] = 2 => w.idx[1] = u.idx[1]
      BY <3>1 DEF VecAround
    <3> QED
      BY <1>1, <2>2, <3>1, <3>2 DEF Loop
  <2>3. CASE w.at[1] \notin {"leaf", "enter"}
    <3>1. u.at[1] # "enter" /\ u.at[1] # "leaf"
      BY <1>1, <2>3 DEF DecisionKey
    <3>2. w.at[1] = u.at[1] /\ w.at[2] = u.at[2] /\ VecWithin(w, w.at[2]) = VecWithin(u, w.at[2])
      <4>1. w.at[1] \in {"head", "tail", "branch"} /\ u.at[1] \in {"head", "tail", "branch"}
        BY <1>1, <2>3, <3>1, SpotCases
      <4>2. DecisionKey(w) = DecisionKey(u)
        BY <2>3
      <4> QED
        BY <4>1, <4>2 DEF DecisionKey
    <3> QED
      BY <1>1, <1>2, <2>3, <3>2
  <2> QED
    BY <2>1, <2>2, <2>3
<1>4. Outer(w) = Outer(u) /\ InnerPos(w) = InnerPos(u)
  <2>1. w.at[1] # "enter" /\ w.at[2] = 2 => w.idx[2] = u.idx[2]
    BY <1>3
  <2>2. Outer(w) = Outer(u)
    BY <1>3 DEF Outer
  <2>3. InnerPos(w) = InnerPos(u)
    BY <1>3 DEF InnerPos
  <2> QED
    BY <2>2, <2>3
<1> QED
  BY <1>4, PlaceNat DEF Before

\* The history h of the walks of a run, in a program with loops kd and input
\* given, whose calls returned M and whose decisions were C: each state follows
\* from the one before, and everything recorded was recorded in passing one that
\* is not the last.
CanGo(M, w) == w.at[1] # "end" /\ (w.at[1] = "leaf" => Has(M, LeafKey(w)))
Follows(h, kd, given, M) ==
  \A i \in DOMAIN h : i < Len(h) => CanGo(M, h[i]) /\ h[i + 1] = NextOf(kd, given, M, h[i])
Noted(h, kd, given, C) ==
  /\ \A i \in DOMAIN h : i < Len(h) => Records(kd, given, h[i]) \subseteq C
  /\ \A e \in C : \E i \in DOMAIN h : i < Len(h) /\ e \in Records(kd, given, h[i])
Called(h, M) ==
  \A e \in M : \E i \in DOMAIN h : i < Len(h) /\ h[i].at[1] = "leaf" /\ e[1] = LeafKey(h[i])
Ordered(h) == \A i, j \in DOMAIN h : i < j /\ h[j].at[1] # "end" => Before(h[i], h[j])

History(h, kd, given, M, C) ==
  /\ h \in Seq(Walk) /\ Len(h) >= 1 /\ h[1] = First(given)
  /\ Follows(h, kd, given, M) /\ Noted(h, kd, given, C) /\ Called(h, M) /\ Ordered(h)

\* The history ends at the gate g, where the run paused.
EndsAt(h, g, q) ==
  LET w == h[Len(h)]
  IN w.at[1] = "leaf" /\ LeafKey(w) = g /\ q = [at |-> w.at, idx |-> w.idx, scope |-> w.scope]

\* The walk is at state p of the history: at its end unless it replays, and then
\* the end is the gate that was answered.
Located(h, p) ==
  /\ p \in DOMAIN h /\ h[p] = Here
  /\ status = "interrupted" => p = Len(h) /\ cp.key # NoKey /\ EndsAt(h, cp.key, paused)
  /\ status = "running" => /\ seed = NoKey => p = Len(h)
                           /\ seed # NoKey => EndsAt(h, seed, paused)

Functional(M) == \A e, f \in M : e[1] = f[1] => e = f

Traced ==
  status \in {"running", "interrupted"} =>
    \E h \in Seq(Walk) : \E p \in Nat : History(h, kind, input, memo, control) /\ Located(h, p)

ReplayInv == IndInv /\ Traced /\ Functional(memo) /\ status # "diverged"

\* M with a result recorded.
With(M, g, v) == M \cup {<<g, v>>}

\* A result once recorded is what a lookup returns, whatever is recorded later.
LEMMA GetKept ==
  ASSUME NEW M, Functional(M), NEW g, ~Has(M, g), NEW v, NEW N, N = With(M, g, v)
  PROVE  /\ Functional(N) /\ Has(N, g) /\ Get(N, g) = v
         /\ \A k : Has(M, k) => Has(N, k) /\ Get(N, k) = Get(M, k)
<1>1. /\ <<g, v>>[1] = g /\ <<g, v>>[2] = v /\ <<g, v>> \in N
      /\ \A e \in N : e \in M \/ e = <<g, v>>
      /\ \A e \in M : e \in N /\ e[1] # g
  BY DEF Has, With
<1>2. Functional(N)
  BY <1>1 DEF Functional
<1>3. ASSUME NEW m, Functional(m), NEW e \in m PROVE Get(m, e[1]) = e[2]
  <2> DEFINE c == CHOOSE f \in m : f[1] = e[1]
  <2>1. c \in m /\ c[1] = e[1]
    OBVIOUS
  <2>2. c = e
    BY <1>3, <2>1 DEF Functional
  <2> QED
    BY <2>2 DEF Get
<1>4. Has(N, g) /\ Get(N, g) = v
  BY <1>1, <1>2, <1>3 DEF Has
<1>5. ASSUME NEW k, Has(M, k) PROVE Has(N, k) /\ Get(N, k) = Get(M, k)
  <2>1. PICK e \in M : e[1] = k
    BY <1>5 DEF Has
  <2>2. Get(M, k) = e[2] /\ e \in N
    BY <1>1, <1>3, <2>1
  <2>3. Get(N, k) = e[2]
    BY <1>2, <1>3, <2>1, <2>2
  <2> QED
    BY <2>1, <2>2, <2>3 DEF Has
<1> QED
  BY <1>2, <1>4, <1>5

\* Two states of a history with one key are one.
LEMMA OneState ==
  ASSUME NEW h, h \in Seq(Walk), Ordered(h), NEW i \in DOMAIN h, NEW j \in DOMAIN h,
         h[i].at[1] # "end", h[j].at[1] # "end",
         \/ h[i].at[1] = "leaf" /\ h[j].at[1] = "leaf" /\ LeafKey(h[i]) = LeafKey(h[j])
         \/ h[i].at[1] # "leaf" /\ h[j].at[1] # "leaf" /\ DecisionKey(h[i]) = DecisionKey(h[j])
  PROVE  i = j
<1>1. h[i] \in Walk /\ h[j] \in Walk /\ i \in Nat /\ j \in Nat
  OBVIOUS
<1>2. ~Before(h[i], h[j]) /\ ~Before(h[j], h[i])
  BY <1>1, KeysDiffer
<1>3. ~(i < j) /\ ~(j < i)
  BY <1>2 DEF Ordered
<1> QED
  BY <1>1, <1>3

\* At the end of the history nothing is recorded of the call.
LEMMA EndIsFresh ==
  ASSUME NEW h, NEW kd, NEW given, NEW M, NEW C, History(h, kd, given, M, C), h[Len(h)].at[1] = "leaf"
  PROVE  ~Has(M, LeafKey(h[Len(h)]))
<1>1. h \in Seq(Walk) /\ Len(h) \in DOMAIN h /\ Len(h) \in Nat /\ Called(h, M) /\ Ordered(h)
  BY DEF History
<1>2. ASSUME NEW e \in M, e[1] = LeafKey(h[Len(h)]) PROVE FALSE
  <2>1. PICK i \in DOMAIN h : i < Len(h) /\ h[i].at[1] = "leaf" /\ e[1] = LeafKey(h[i])
    BY <1>1 DEF Called
  <2>2. i = Len(h)
    BY <1>1, <1>2, <2>1, OneState
  <2> QED
    BY <1>1, <2>1, <2>2
<1> QED
  BY <1>2 DEF Has

\* A decision that is recorded of a state of the history is the one taken there.
LEMMA SameDecision ==
  ASSUME NEW h, NEW kd, NEW given, NEW M, NEW C, History(h, kd, given, M, C), NEW p \in DOMAIN h,
         Decides(kd, h[p]), NEW e \in C, e[1] = DecisionKey(h[p])
  PROVE  e[2] = DecisionOf(kd, given, h[p])
<1>1. h \in Seq(Walk) /\ Noted(h, kd, given, C) /\ Ordered(h)
  BY DEF History
<1>2. PICK i \in DOMAIN h : e \in Records(kd, given, h[i])
  BY <1>1 DEF Noted
<1>3. Decides(kd, h[i]) /\ e = <<DecisionKey(h[i]), DecisionOf(kd, given, h[i])>>
  BY <1>2 DEF Records
<1>4. e[1] = DecisionKey(h[i]) /\ e[2] = DecisionOf(kd, given, h[i])
  BY <1>3
<1>5. h[i].at[1] \notin {"leaf", "end"} /\ h[p].at[1] \notin {"leaf", "end"}
  BY <1>3 DEF Decides
<1>6. i = p
  BY <1>1, <1>4, <1>5, OneState
<1> QED
  BY <1>4, <1>6

\* The history grows by the state after its last.
LEMMA HistoryGrows ==
  ASSUME NEW h, NEW kd, NEW given, NEW M, NEW C, History(h, kd, given, M, C),
         NEW w, w = h[Len(h)], NEW N, CanGo(N, w),
         \A k : Has(M, k) => Has(N, k) /\ Get(N, k) = Get(M, k),
         \A e \in N : e \in M \/ (w.at[1] = "leaf" /\ e[1] = LeafKey(w)),
         NEW u \in Walk, u = NextOf(kd, given, N, w)
  PROVE  History(Append(h, u), kd, given, N, C \cup Records(kd, given, w))
<1> DEFINE n == Len(h)
           g == Append(h, u)
           D == C \cup Records(kd, given, w)
<1>1. /\ h \in Seq(Walk) /\ n \in Nat /\ n >= 1 /\ DOMAIN h = 1..n /\ n \in DOMAIN h /\ h[1] = First(given)
      /\ Follows(h, kd, given, M) /\ Noted(h, kd, given, C) /\ Called(h, M) /\ Ordered(h) /\ w \in Walk
  BY DEF History
<1>2. /\ g \in Seq(Walk) /\ Len(g) = n + 1 /\ DOMAIN g = 1..(n + 1) /\ g[n + 1] = u
      /\ \A i \in 1..n : g[i] = h[i]
  BY <1>1
<1> HIDE DEF n, g, D
<1>3. \A i \in DOMAIN g : i < Len(g) => i \in 1..n /\ g[i] = h[i] /\ (i < n \/ i = n)
  BY <1>1, <1>2
<1>4. \A i \in 1..n : i \in DOMAIN h /\ i \in DOMAIN g /\ i < Len(g) /\ g[i] = h[i]
  BY <1>1, <1>2
<1>5. h[n] = w
  BY DEF n
<1>6. Follows(g, kd, given, N)
  <2>1. ASSUME NEW i \in 1..n, i < n PROVE CanGo(N, h[i]) /\ h[i + 1] = NextOf(kd, given, N, h[i])
    <3>1. CanGo(M, h[i]) /\ h[i + 1] = NextOf(kd, given, M, h[i])
      BY <1>1, <2>1 DEF Follows, n
    <3>2. h[i].at[1] = "leaf" => Has(N, LeafKey(h[i])) /\ Get(N, LeafKey(h[i])) = Get(M, LeafKey(h[i]))
      BY <3>1 DEF CanGo
    <3>3. NextScope(N, h[i]) = NextScope(M, h[i])
      BY <3>2 DEF NextScope
    <3> QED
      BY <3>1, <3>2, <3>3 DEF CanGo, NextOf
  <2>2. ASSUME NEW i \in 1..n PROVE CanGo(N, g[i]) /\ g[i + 1] = NextOf(kd, given, N, g[i])
    <3>1. CASE i < n
      <4>1. i + 1 \in 1..n
        BY <1>1, <3>1
      <4> QED
        BY <1>4, <2>1, <3>1, <4>1
    <3>2. CASE i = n
      BY <1>2, <1>4, <1>5, <3>2
    <3> QED
      BY <1>1, <3>1, <3>2
  <2> QED
    BY <1>3, <2>2 DEF Follows
<1>7. Noted(g, kd, given, D)
  <2>1. ASSUME NEW i \in 1..n PROVE Records(kd, given, h[i]) \subseteq D
    <3>1. CASE i < n
      BY <1>1, <3>1 DEF Noted, D, n
    <3>2. CASE i = n
      BY <1>5, <3>2 DEF D
    <3> QED
      BY <1>1, <3>1, <3>2
  <2>2. ASSUME NEW e \in D PROVE \E i \in 1..n : e \in Records(kd, given, h[i])
    BY <1>1, <1>5 DEF Noted, D
  <2> QED
    BY <1>3, <1>4, <2>1, <2>2 DEF Noted
<1>8. Called(g, N)
  <2>1. ASSUME NEW e \in N PROVE \E i \in 1..n : h[i].at[1] = "leaf" /\ e[1] = LeafKey(h[i])
    BY <1>1, <1>5 DEF Called
  <2> QED
    BY <1>4, <2>1 DEF Called
<1>9. Ordered(g)
  <2>1. u.at[1] # "end" => Before(w, u)
    BY <1>1, NextLater DEF CanGo
  <2>2. w.at[1] # "end"
    BY DEF CanGo
  <2>3. ASSUME NEW i \in 1..n, u.at[1] # "end" PROVE Before(h[i], u)
    <3>1. CASE i < n
      <4>1. Before(h[i], w)
        BY <1>1, <1>5, <2>2, <3>1 DEF Ordered
      <4>2. h[i] \in Walk
        BY <1>1
      <4> QED
        BY <1>1, <2>1, <2>3, <4>1, <4>2, BeforeOrder
    <3>2. CASE i = n
      BY <1>5, <2>1, <2>3, <3>2
    <3> QED
      BY <1>1, <3>1, <3>2
  <2>4. ASSUME NEW i \in 1..(n + 1), NEW j \in 1..(n + 1), i < j, g[j].at[1] # "end" PROVE Before(g[i], g[j])
    <3>1. i \in 1..n /\ (j \in 1..n \/ j = n + 1)
      BY <1>1, <2>4
    <3>2. CASE j \in 1..n
      BY <1>1, <1>4, <2>4, <3>1, <3>2 DEF Ordered
    <3>3. CASE j = n + 1
      BY <1>2, <1>4, <2>3, <2>4, <3>1, <3>3
    <3> QED
      BY <3>1, <3>2, <3>3
  <2> QED
    BY <1>2, <2>4 DEF Ordered
<1>10. Len(g) >= 1 /\ g[1] = First(given)
  BY <1>1, <1>2
<1> QED
  BY <1>2, <1>6, <1>7, <1>8, <1>9, <1>10 DEF History, g, D

\* checkControl records the decision and goes on, or finds another one recorded.
LEMMA DecidedCases ==
  ASSUME status = "running", NEW prefix, NEW l, NEW vec, NEW val, NEW next, Decided(prefix, l, vec, val, next)
  PROVE  \/ /\ status' = "diverged"
            /\ \E e \in control : e[1] = <<prefix, l, vec>> /\ e[2] # val
         \/ status' = "running" /\ at' = next /\ control' = control \cup {<<<<prefix, l, vec>>, val>>}
<1> DEFINE k == <<prefix, l, vec>>
           e == CHOOSE e \in control : e[1] = k
<1>1. Has(control, k) => e \in control /\ e[1] = k
  BY DEF Has
<1>2. Get(control, k) = e[2]
  BY DEF Get
<1> HIDE DEF e
<1> QED
  BY <1>1, <1>2 DEF Decided, ControlKey

\* The walk's own state, as a state of the history.
LEMMA HereFields ==
  /\ Here.at = at /\ Here.idx = idx /\ Here.len = len /\ Here.scope = scope
  /\ \A l \in Loop : Around(l) = VecAround(Here, l) /\ Within(l) = VecWithin(Here, l)
  /\ \A l \in Loop : at[2] = l => CallKey(l) = LeafKey(Here)
BY DEF Here, Around, Within, VecAround, VecWithin, CallKey, LeafKey

\* A step of the walk between calls: it fails, or is refused by a record that
\* differs, or goes to the next state and records what it decided.
Advances ==
  /\ status' = "running"
  /\ Here' = NextOf(kind, input, memo, Here)
  /\ control' = control \cup Records(kind, input, Here)
Refused ==
  /\ status' = "diverged" /\ Decides(kind, Here)
  /\ \E e \in control : e[1] = DecisionKey(Here) /\ e[2] # DecisionOf(kind, input, Here)

\* Entering a loop.
LEMMA EnterWalks ==
  ASSUME TypeOK, NEW l \in Loop, Enter(l)
  PROVE  status' = "too many items" \/ Refused \/ Advances
<1>1. /\ status = "running" /\ at = <<"enter", l>> /\ at[1] = "enter" /\ at[2] = l
      /\ idx' = [idx EXCEPT ![l] = 0] /\ scope' = scope
  BY DEF Enter
<1>2. Items(l) = ItemsAt(input, Here)
  BY <1>1, HereFields DEF Items, ItemsAt
<1>3. /\ NextIdx(Here) = idx' /\ NextScope(memo, Here) = scope' /\ NextAt(kind, Here) = <<"head", l>>
      /\ NextLen(kind, input, Here) = IF kind[l] = "loop" THEN [len EXCEPT ![l] = Items(l)] ELSE len
  BY <1>1, <1>2, HereFields DEF NextIdx, NextScope, NextAt, NextLen
<1>4. CASE kind[l] # "loop"
  <2>1. at' = <<"head", l>> /\ len' = len /\ control' = control /\ status' = "running"
    BY <1>1, <1>4 DEF Enter
  <2>2. Here' = NextOf(kind, input, memo, Here)
    BY <1>3, <1>4, <2>1 DEF Here, NextOf
  <2>3. Records(kind, input, Here) = {}
    BY <1>1, <1>4, HereFields DEF Records, Decides
  <2> QED
    BY <2>1, <2>2, <2>3 DEF Advances
<1>5. CASE kind[l] = "loop" /\ Items(l) > MaxIters
  BY <1>5 DEF Enter
<1>6. CASE kind[l] = "loop" /\ ~(Items(l) > MaxIters)
  <2>1. /\ len' = [len EXCEPT ![l] = Items(l)]
        /\ Decided("loop", l, Around(l), Items(l), <<"head", l>>)
    BY <1>6 DEF Enter
  <2>2. Decides(kind, Here)
    BY <1>1, <1>6, HereFields DEF Decides
  <2>3. DecisionKey(Here) = <<"loop", l, Around(l)>> /\ DecisionOf(kind, input, Here) = Items(l)
    BY <1>1, <1>2, HereFields DEF DecisionKey, DecisionOf
  <2>4. CASE status' = "diverged" /\ \E e \in control : e[1] = <<"loop", l, Around(l)>> /\ e[2] # Items(l)
    BY <2>2, <2>3, <2>4 DEF Refused
  <2>5. CASE /\ status' = "running" /\ at' = <<"head", l>>
             /\ control' = control \cup {<<<<"loop", l, Around(l)>>, Items(l)>>}
    <3>1. Here' = NextOf(kind, input, memo, Here)
      BY <1>3, <1>6, <2>1, <2>5 DEF Here, NextOf
    <3> QED
      BY <2>2, <2>3, <2>5, <3>1 DEF Advances, Records
  <2>6. PICK val, next : val = Items(l) /\ next = (<<"head", l>>)
    OBVIOUS
  <2>7. Decided("loop", l, Around(l), val, next)
    BY <2>1, <2>6
  <2>8. \/ status' = "diverged" /\ \E e \in control : e[1] = <<"loop", l, Around(l)>> /\ e[2] # val
        \/ status' = "running" /\ at' = next /\ control' = control \cup {<<<<"loop", l, Around(l)>>, val>>}
    BY <1>1, <2>7, DecidedCases
  <2> QED
    BY <2>4, <2>5, <2>6, <2>8
<1> QED
  BY <1>4, <1>5, <1>6

\* The top of an iteration.
LEMMA TopWalks ==
  ASSUME TypeOK, NEW l \in Loop, Top(l)
  PROVE  status' = "retry exhausted" \/ Refused \/ Advances
<1>1. /\ status = "running" /\ at = <<"head", l>> /\ at[1] = "head" /\ at[2] = l
      /\ idx' = idx /\ len' = len /\ scope' = scope
  BY DEF Top
<1>2. /\ NextIdx(Here) = idx /\ NextScope(memo, Here) = scope /\ NextLen(kind, input, Here) = len
      /\ NextAt(kind, Here) = IF Iterates(kind, Here) THEN Body(l) ELSE After(l)
  BY <1>1, HereFields DEF NextIdx, NextScope, NextAt, NextLen
<1>3. /\ Iterates(kind, Here) <=> IF kind[l] = "loop" THEN idx[l] < len[l]
                                  ELSE MayIterate(l) /\ (kind[l] = "while" => Cond(l))
      /\ Holds(kind, Here) <=> Cond(l)
      /\ Decides(kind, Here) <=> kind[l] = "while" /\ MayIterate(l)
  BY <1>1, HereFields DEF Iterates, Holds, Cond, MayIterate, Decides
<1>4. ASSUME at' = NextAt(kind, Here), status' = "running", control' = control \cup Records(kind, input, Here)
      PROVE  Advances
  <2>1. Here' = NextOf(kind, input, memo, Here)
    BY <1>1, <1>2, <1>4 DEF Here, NextOf
  <2> QED
    BY <1>4, <2>1 DEF Advances
<1>5. ~Decides(kind, Here) => Records(kind, input, Here) = {}
  BY DEF Records
<1>6. CASE kind[l] = "loop"
  <2>1. at' = (IF idx[l] < len[l] THEN Body(l) ELSE After(l)) /\ control' = control /\ status' = status
    BY <1>6 DEF Top
  <2> QED
    BY <1>1, <1>2, <1>3, <1>4, <1>5, <1>6, <2>1
<1>7. CASE kind[l] = "while" /\ MayIterate(l)
  <2>1. Decided("while", l, Within(l), Bit(Cond(l)), IF Cond(l) THEN Body(l) ELSE After(l))
    BY <1>7 DEF Top
  <2>2. DecisionKey(Here) = <<"while", l, Within(l)>>
    BY <1>1, HereFields DEF DecisionKey
  <2>3. DecisionOf(kind, input, Here) = Bit(Cond(l))
    BY <1>1, <1>3, HereFields DEF DecisionOf, Bit
  <2>4. CASE status' = "diverged" /\ \E e \in control : e[1] = <<"while", l, Within(l)>> /\ e[2] # Bit(Cond(l))
    BY <1>3, <1>7, <2>2, <2>3, <2>4 DEF Refused
  <2>5. CASE /\ status' = "running" /\ at' = (IF Cond(l) THEN Body(l) ELSE After(l))
             /\ control' = control \cup {<<<<"while", l, Within(l)>>, Bit(Cond(l))>>}
    <3>1. Records(kind, input, Here) = {<<<<"while", l, Within(l)>>, Bit(Cond(l))>>}
      BY <1>3, <1>7, <2>2, <2>3 DEF Records
    <3>2. Iterates(kind, Here) <=> Cond(l)
      BY <1>3, <1>7
    <3> QED
      BY <1>2, <1>4, <2>5, <3>1, <3>2
  <2>6. PICK val, next : val = Bit(Cond(l)) /\ next = (IF Cond(l) THEN Body(l) ELSE After(l))
    OBVIOUS
  <2>7. Decided("while", l, Within(l), val, next)
    BY <2>1, <2>6
  <2>8. \/ status' = "diverged" /\ \E e \in control : e[1] = <<"while", l, Within(l)>> /\ e[2] # val
        \/ status' = "running" /\ at' = next /\ control' = control \cup {<<<<"while", l, Within(l)>>, val>>}
    BY <1>1, <2>7, DecidedCases
  <2> QED
    BY <2>4, <2>5, <2>6, <2>8
<1>8. CASE kind[l] = "retry" /\ MayIterate(l)
  <2>1. at' = Body(l) /\ control' = control /\ status' = status
    BY <1>8 DEF Top
  <2> QED
    BY <1>1, <1>2, <1>3, <1>4, <1>5, <1>8, <2>1
<1>9. CASE kind[l] # "loop" /\ ~MayIterate(l)
  <2>1. AtBound(l)
    BY <1>9 DEF Top
  <2>2. CASE kind[l] = "while" /\ at' = After(l) /\ UNCHANGED <<control, status>>
    BY <1>1, <1>2, <1>3, <1>4, <1>5, <1>9, <2>2
  <2> QED
    BY <2>1, <2>2 DEF AtBound
<1> QED
  BY <1>6, <1>7, <1>8, <1>9, KindTyped

\* The bottom of an iteration.
LEMMA BottomWalks ==
  ASSUME TypeOK, NEW l \in Loop, Bottom(l)
  PROVE  Refused \/ Advances
<1>1. /\ status = "running" /\ at = <<"tail", l>> /\ at[1] = "tail" /\ at[2] = l
      /\ idx' = [idx EXCEPT ![l] = @ + 1] /\ len' = len /\ scope' = scope
  BY DEF Bottom
<1>2. /\ NextIdx(Here) = [idx EXCEPT ![l] = idx[l] + 1]
      /\ NextScope(memo, Here) = scope /\ NextLen(kind, input, Here) = len
      /\ NextAt(kind, Here) = IF kind[l] = "retry" /\ Cond(l) THEN After(l) ELSE <<"head", l>>
      /\ kind[l] = "retry" => Holds(kind, Here) = Cond(l)
      /\ Decides(kind, Here) <=> kind[l] = "retry"
  BY <1>1, HereFields DEF NextIdx, NextScope, NextAt, NextLen, Holds, Cond, Decides
<1>3. ASSUME at' = NextAt(kind, Here), status' = "running", control' = control \cup Records(kind, input, Here)
      PROVE  Advances
  <2>1. Here' = NextOf(kind, input, memo, Here)
    BY <1>1, <1>2, <1>3 DEF Here, NextOf
  <2> QED
    BY <1>3, <2>1 DEF Advances
<1>4. CASE kind[l] # "retry"
  <2>1. at' = <<"head", l>> /\ control' = control /\ status' = "running"
    BY <1>1, <1>4 DEF Bottom
  <2>2. Records(kind, input, Here) = {}
    BY <1>2, <1>4 DEF Records
  <2> QED
    BY <1>2, <1>3, <1>4, <2>1, <2>2
<1>5. CASE kind[l] = "retry"
  <2>1. Decided("retry", l, Within(l), Bit(Cond(l)), IF Cond(l) THEN After(l) ELSE <<"head", l>>)
    BY <1>5 DEF Bottom
  <2>2. DecisionKey(Here) = <<"retry", l, Within(l)>>
    BY <1>1, HereFields DEF DecisionKey
  <2>3. DecisionOf(kind, input, Here) = Bit(Cond(l))
    BY <1>1, <1>2, <1>5, HereFields DEF DecisionOf, Bit
  <2>4. CASE status' = "diverged" /\ \E e \in control : e[1] = <<"retry", l, Within(l)>> /\ e[2] # Bit(Cond(l))
    BY <1>2, <1>5, <2>2, <2>3, <2>4 DEF Refused
  <2>5. CASE /\ status' = "running" /\ at' = (IF Cond(l) THEN After(l) ELSE <<"head", l>>)
             /\ control' = control \cup {<<<<"retry", l, Within(l)>>, Bit(Cond(l))>>}
    <3>1. Records(kind, input, Here) = {<<<<"retry", l, Within(l)>>, Bit(Cond(l))>>}
      BY <1>2, <1>5, <2>2, <2>3 DEF Records
    <3> QED
      BY <1>2, <1>3, <1>5, <2>5, <3>1
  <2>6. PICK val, next : val = Bit(Cond(l)) /\ next = (IF Cond(l) THEN After(l) ELSE <<"head", l>>)
    OBVIOUS
  <2>7. Decided("retry", l, Within(l), val, next)
    BY <2>1, <2>6
  <2>8. \/ status' = "diverged" /\ \E e \in control : e[1] = <<"retry", l, Within(l)>> /\ e[2] # val
        \/ status' = "running" /\ at' = next /\ control' = control \cup {<<<<"retry", l, Within(l)>>, val>>}
    BY <1>1, <2>7, DecidedCases
  <2> QED
    BY <2>4, <2>5, <2>6, <2>8
<1> QED
  BY <1>4, <1>5

\* The branch.
LEMMA BranchWalks == ASSUME TypeOK, Branch PROVE Refused \/ Advances
<1>1. /\ status = "running" /\ at = <<"branch", 2>> /\ at[1] = "branch" /\ at[2] = 2 /\ 2 \in Loop
      /\ idx' = idx /\ len' = len /\ scope' = scope
      /\ Decided("br", 2, Within(2), Bit(scope[2] = Stop), IF scope[2] = Stop THEN <<"end", 2>> ELSE <<"tail", 2>>)
  BY DEF Branch, Loop
<1>2. /\ NextIdx(Here) = idx /\ NextScope(memo, Here) = scope /\ NextLen(kind, input, Here) = len
      /\ NextAt(kind, Here) = IF scope[2] = Stop THEN <<"end", 2>> ELSE <<"tail", 2>>
      /\ Decides(kind, Here) /\ DecisionKey(Here) = <<"br", 2, Within(2)>>
      /\ DecisionOf(kind, input, Here) = Bit(scope[2] = Stop)
  BY <1>1, HereFields DEF NextIdx, NextScope, NextAt, NextLen, Decides, DecisionKey, DecisionOf
<1>3. CASE status' = "diverged" /\ \E e \in control : e[1] = <<"br", 2, Within(2)>> /\ e[2] # Bit(scope[2] = Stop)
  BY <1>2, <1>3 DEF Refused
<1>4. CASE /\ status' = "running" /\ at' = (IF scope[2] = Stop THEN <<"end", 2>> ELSE <<"tail", 2>>)
           /\ control' = control \cup {<<<<"br", 2, Within(2)>>, Bit(scope[2] = Stop)>>}
  <2>1. Here' = NextOf(kind, input, memo, Here)
    BY <1>1, <1>2, <1>4 DEF Here, NextOf
  <2> QED
    BY <1>2, <1>4, <2>1 DEF Advances, Records
<1>5. PICK val, next : val = Bit(scope[2] = Stop) /\ next = (IF scope[2] = Stop THEN <<"end", 2>> ELSE <<"tail", 2>>)
  OBVIOUS
<1>6. Decided("br", 2, Within(2), val, next)
  BY <1>1, <1>5
<1>7. \/ status' = "diverged" /\ \E e \in control : e[1] = <<"br", 2, Within(2)>> /\ e[2] # val
      \/ status' = "running" /\ at' = next /\ control' = control \cup {<<<<"br", 2, Within(2)>>, val>>}
  BY <1>1, <1>6, DecidedCases
<1> QED
  BY <1>3, <1>4, <1>5, <1>7

\* A memoized leaf.
LEMMA ReplayWalks == ASSUME NEW l \in Loop, Replay(l) PROVE Advances /\ Has(memo, LeafKey(Here))
<1>1. /\ status = "running" /\ at = <<"leaf", l>> /\ at[1] = "leaf" /\ at[2] = l
      /\ idx' = idx /\ len' = len /\ control' = control /\ status' = status
      /\ scope' = [scope EXCEPT ![l] = Get(memo, CallKey(l))] /\ at' = AfterLeaf(l) /\ Has(memo, CallKey(l))
  BY DEF Replay
<1>2. CallKey(l) = LeafKey(Here)
  BY <1>1, HereFields
<1>3. /\ NextIdx(Here) = idx /\ NextScope(memo, Here) = scope' /\ NextLen(kind, input, Here) = len
      /\ NextAt(kind, Here) = AfterLeaf(l)
  BY <1>1, <1>2, HereFields DEF NextIdx, NextScope, NextAt, NextLen
<1>4. Here' = NextOf(kind, input, memo, Here)
  BY <1>1, <1>3 DEF Here, NextOf
<1>5. Records(kind, input, Here) = {}
  BY <1>1, HereFields DEF Records, Decides
<1> QED
  BY <1>1, <1>2, <1>4, <1>5 DEF Advances

\* A position that is not the last is before it.
LEMMA UpTo == ASSUME NEW n \in Nat, NEW p \in 1..n PROVE p < n <=> p # n
OBVIOUS

\* The walk's history, and its place in it.
LEMMA TracedBy ==
  ASSUME Traced, status \in {"running", "interrupted"}
  PROVE  \E h \in Seq(Walk), p \in Nat :
           /\ History(h, kind, input, memo, control) /\ Located(h, p)
           /\ Len(h) \in Nat /\ DOMAIN h = 1..Len(h) /\ p \in 1..Len(h) /\ h[p] = Here
           /\ \A i \in 1..Len(h) : h[i] \in Walk
<1>1. PICK h \in Seq(Walk) : \E p \in Nat : History(h, kind, input, memo, control) /\ Located(h, p)
  BY DEF Traced
<1>2. PICK p \in Nat : History(h, kind, input, memo, control) /\ Located(h, p)
  BY <1>1
<1>3. p \in DOMAIN h /\ h[p] = Here
  BY <1>2 DEF Located
<1>4. Len(h) \in Nat /\ DOMAIN h = 1..Len(h) /\ \A i \in 1..Len(h) : h[i] \in Walk
  OBVIOUS
<1> QED
  BY <1>2, <1>3, <1>4

\* Before the end of its history, the walk finds the call it is at recorded.
LEMMA BehindIsKnown ==
  ASSUME NEW h, NEW p, History(h, kind, input, memo, control), Len(h) \in Nat, DOMAIN h = 1..Len(h),
         p \in 1..Len(h), h[p] = Here, at[1] = "leaf", ~Has(memo, LeafKey(Here))
  PROVE  p = Len(h)
<1>1. p < Len(h) => CanGo(memo, Here)
  BY DEF History, Follows
<1>2. Here.at = at
  BY DEF Here
<1>3. ~(p < Len(h))
  BY <1>1, <1>2 DEF CanGo
<1> QED
  BY <1>3, UpTo

\* The first state of a run.
LEMMA InitReplay == Init => ReplayInv
<1> SUFFICES ASSUME NEW prog \in Kinds, NEW given \in Value, Start(prog, given) PROVE ReplayInv
  BY DEF Init
<1>1. IndInv
  BY InitInv DEF Init
<1>2. First(given) \in Walk
  BY DEF First, Walk, Spot, Loop
<1>3. Here = First(given) /\ input = given /\ memo = {} /\ control = {} /\ status = "running" /\ seed = NoKey
  BY DEF Here, First, Start
<1> DEFINE h == <<First(given)>>
<1>4. h \in Seq(Walk) /\ Len(h) = 1 /\ DOMAIN h = 1..1 /\ h[1] = First(given)
  BY <1>2
<1> HIDE DEF h
<1>5. \A i \in DOMAIN h : i = 1
  BY <1>4
<1>6. /\ Follows(h, kind, input, memo) /\ Noted(h, kind, input, control)
      /\ Called(h, memo) /\ Ordered(h)
  BY <1>3, <1>4, <1>5 DEF Follows, Noted, Called, Ordered
<1>7. History(h, kind, input, memo, control)
  BY <1>3, <1>4, <1>6 DEF History
<1>8. Located(h, 1)
  BY <1>3, <1>4 DEF Located
<1>9. Traced
  BY <1>4, <1>7, <1>8 DEF Traced
<1> QED
  BY <1>1, <1>3, <1>9 DEF ReplayInv, Functional

\* A step between calls goes on along the history, or makes it longer.
LEMMA AdvanceTraced ==
  ASSUME IndInv, Traced, status = "running", Advances, CanGo(memo, Here),
         UNCHANGED <<kind, input, memo, seed, cp, paused>>
  PROVE  Traced'
<1>1. PICK h \in Seq(Walk), p \in Nat :
        /\ History(h, kind, input, memo, control) /\ Located(h, p)
        /\ Len(h) \in Nat /\ DOMAIN h = 1..Len(h) /\ p \in 1..Len(h) /\ h[p] = Here
        /\ \A i \in 1..Len(h) : h[i] \in Walk
  BY TracedBy
<1>2. PICK u : u = NextOf(kind, input, memo, h[p])
  OBVIOUS
<1>3. status' = "running" /\ Here' = u /\ control' = control \cup Records(kind, input, h[p])
  BY <1>1, <1>2 DEF Advances
<1>4. CASE p < Len(h)
  <2>1. Records(kind, input, h[p]) \subseteq control /\ h[p + 1] = u
    BY <1>1, <1>2, <1>4 DEF History, Noted, Follows
  <2>2. control' = control
    BY <1>3, <2>1
  <2>3. seed # NoKey /\ EndsAt(h, seed, paused)
    <3>1. p # Len(h)
      BY <1>1, <1>4, UpTo
    <3> QED
      BY <1>1, <3>1 DEF Located
  <2>4. p + 1 \in Nat /\ p + 1 \in DOMAIN h
    BY <1>1, <1>4
  <2>5. Located(h, p + 1)'
    BY <1>3, <2>1, <2>3, <2>4 DEF Located
  <2>6. History(h, kind, input, memo, control)'
    BY <1>1, <2>2
  <2> QED
    BY <2>4, <2>5, <2>6 DEF Traced
<1>5. CASE p = Len(h)
  <2>1. h[Len(h)].at[1] # "leaf"
    BY <1>1, <1>5, EndIsFresh DEF CanGo
  <2>2. seed = NoKey
    BY <1>1, <2>1 DEF Located, EndsAt
  <2>3. u \in Walk
    <3>1. input \in Value
      BY DEF IndInv, TypeOK
    <3>2. h[p] \in Walk /\ h[p].at[1] # "end" /\ h[p].at[1] # "leaf"
      BY <1>1, <1>5, <2>1 DEF CanGo
    <3> QED
      BY <1>2, <3>1, <3>2, NextTyped
  <2>4. PICK g : g = Append(h, u)
    OBVIOUS
  <2>5. PICK w : w = h[Len(h)]
    OBVIOUS
  <2>6. CanGo(memo, w) /\ u = NextOf(kind, input, memo, w)
    BY <1>1, <1>2, <1>5, <2>5
  <2>7. History(Append(h, u), kind, input, memo, control \cup Records(kind, input, w))
    BY <1>1, <2>3, <2>5, <2>6, HistoryGrows
  <2>8. History(g, kind, input, memo, control)'
    BY <1>3, <1>5, <2>4, <2>5, <2>7
  <2>9. g \in Seq(Walk) /\ Len(g) = p + 1 /\ p + 1 \in DOMAIN g /\ g[p + 1] = u /\ p + 1 \in Nat
    BY <1>1, <1>5, <2>3, <2>4
  <2>10. Located(g, p + 1)'
    BY <1>3, <2>2, <2>9 DEF Located
  <2> QED
    BY <2>8, <2>9, <2>10 DEF Traced
<1>6. p < Len(h) \/ p = Len(h)
  BY <1>1, UpTo
<1> QED
  BY <1>4, <1>5, <1>6

\* No record differs from the decision the walk takes.
LEMMA NeverRefused == ASSUME Traced, status = "running", Refused PROVE FALSE
<1>1. PICK h \in Seq(Walk), p \in Nat :
        /\ History(h, kind, input, memo, control) /\ Located(h, p)
        /\ Len(h) \in Nat /\ DOMAIN h = 1..Len(h) /\ p \in 1..Len(h) /\ h[p] = Here
        /\ \A i \in 1..Len(h) : h[i] \in Walk
  BY TracedBy
<1>2. PICK e \in control : e[1] = DecisionKey(Here) /\ e[2] # DecisionOf(kind, input, Here)
  BY DEF Refused
<1>3. Decides(kind, h[p]) /\ p \in DOMAIN h /\ e[1] = DecisionKey(h[p])
  BY <1>1, <1>2 DEF Refused
<1>4. e[2] = DecisionOf(kind, input, h[p])
  BY <1>1, <1>3, SameDecision
<1> QED
  BY <1>1, <1>2, <1>4

\* A call is made at the end of the history only, and a replay that gets there
\* has come to the gate that was answered.
LEMMA InvokeTraced ==
  ASSUME IndInv, Traced, Functional(memo), NEW l \in Loop, NEW v \in Value, Invoke(l, v)
  PROVE  Traced' /\ Functional(memo)'
<1>1. /\ status = "running" /\ status' = "running" /\ at = <<"leaf", l>> /\ at[1] = "leaf" /\ at[2] = l
      /\ ~Has(memo, CallKey(l)) /\ seed' = (IF seed = CallKey(l) THEN NoKey ELSE seed)
      /\ memo' = memo \cup {<<CallKey(l), v>>}
      /\ scope' = [scope EXCEPT ![l] = v] /\ at' = AfterLeaf(l)
      /\ UNCHANGED <<kind, input, idx, len, control, cp, paused>>
  BY DEF Invoke, fixed
<1>2. PICK k : k = CallKey(l) /\ k = LeafKey(Here)
  BY <1>1, HereFields
<1>3. PICK h \in Seq(Walk), p \in Nat :
        /\ History(h, kind, input, memo, control) /\ Located(h, p)
        /\ Len(h) \in Nat /\ DOMAIN h = 1..Len(h) /\ p \in 1..Len(h) /\ h[p] = Here
        /\ \A i \in 1..Len(h) : h[i] \in Walk
  BY <1>1, TracedBy
<1>4. p = Len(h)
  BY <1>1, <1>2, <1>3, BehindIsKnown
<1>5. seed' = NoKey
  <2>1. seed # NoKey => seed = k
    BY <1>1, <1>2, <1>3, <1>4 DEF Located, EndsAt
  <2> QED
    BY <1>1, <1>2, <2>1
<1>6. PICK N : N = memo \cup {<<k, v>>}
  OBVIOUS
<1>7. /\ Functional(N) /\ Has(N, k) /\ Get(N, k) = v
      /\ \A x : Has(memo, x) => Has(N, x) /\ Get(N, x) = Get(memo, x)
  <2>1. ~Has(memo, k)
    BY <1>1, <1>2
  <2>2. PICK M : M = memo
    OBVIOUS
  <2>3. Functional(M) /\ ~Has(M, k) /\ N = With(M, k, v)
    BY <1>6, <2>1, <2>2 DEF With
  <2>4. /\ Functional(N) /\ Has(N, k) /\ Get(N, k) = v
        /\ \A x : Has(M, x) => Has(N, x) /\ Get(N, x) = Get(M, x)
    BY <2>3, GetKept
  <2> QED
    BY <2>2, <2>4
<1>8. memo' = N
  BY <1>1, <1>2, <1>6
<1>9. PICK w : w = h[Len(h)]
  OBVIOUS
<1>10. w = Here /\ w \in Walk /\ w.at = at /\ w.idx = idx /\ w.len = len /\ w.scope = scope /\ LeafKey(w) = k
  BY <1>2, <1>3, <1>4, <1>9, HereFields
<1>11. PICK u : u = NextOf(kind, input, N, w)
  OBVIOUS
<1>12. /\ NextIdx(w) = idx /\ NextScope(N, w) = [scope EXCEPT ![l] = v] /\ NextLen(kind, input, w) = len
       /\ NextAt(kind, w) = AfterLeaf(l)
  BY <1>1, <1>7, <1>10 DEF NextIdx, NextScope, NextAt, NextLen
<1>13. Here' = u
  BY <1>1, <1>11, <1>12 DEF Here, NextOf
<1>14. u \in Walk
  <2>1. input \in Value
    BY DEF IndInv, TypeOK
  <2> QED
    BY <1>1, <1>7, <1>10, <1>11, <2>1, NextTyped
<1>15. CanGo(N, w)
  BY <1>1, <1>7, <1>10 DEF CanGo
<1>16. \A e \in N : e \in memo \/ (w.at[1] = "leaf" /\ e[1] = LeafKey(w))
  BY <1>1, <1>6, <1>10
<1>17. Records(kind, input, w) = {}
  BY <1>1, <1>10 DEF Records, Decides
<1>18. PICK g : g = Append(h, u)
  OBVIOUS
<1>19. History(Append(h, u), kind, input, N, control \cup Records(kind, input, w))
  BY <1>3, <1>7, <1>9, <1>11, <1>14, <1>15, <1>16, HistoryGrows
<1>20. History(g, kind, input, memo, control)'
  <2>1. control \cup Records(kind, input, w) = control
    BY <1>17
  <2> QED
    BY <1>1, <1>8, <1>18, <1>19, <2>1
<1>21. g \in Seq(Walk) /\ Len(g) = p + 1 /\ p + 1 \in DOMAIN g /\ g[p + 1] = u /\ p + 1 \in Nat
  BY <1>3, <1>4, <1>14, <1>18
<1>22. Located(g, p + 1)'
  BY <1>1, <1>5, <1>13, <1>21 DEF Located
<1> QED
  BY <1>7, <1>8, <1>20, <1>21, <1>22 DEF Traced

\* A run pauses at the end of its history, at a gate that was not answered.
LEMMA SuspendTraced ==
  ASSUME IndInv, Traced, NEW l \in Loop, Suspend(l)
  PROVE  Traced'
<1>1. /\ status = "running" /\ status' = "interrupted" /\ at = <<"leaf", l>> /\ at[1] = "leaf" /\ at[2] = l
      /\ ~Has(memo, CallKey(l)) /\ seed # CallKey(l) /\ cp'.key = CallKey(l)
      /\ paused' = [at |-> at, idx |-> idx, scope |-> scope]
      /\ UNCHANGED <<kind, input, at, idx, len, scope, memo, control>>
  BY DEF Suspend, fixed
<1>2. PICK k : k = CallKey(l) /\ k = LeafKey(Here)
  BY <1>1, HereFields
<1>3. k # NoKey
  <2>1. k[1] = l
    BY <1>2, KeyTyped DEF IndInv
  <2>3. l # 0
    BY DEF Loop
  <2>2. NoKey[1] = 0
    BY DEF NoKey
  <2> QED
    BY <2>1, <2>2, <2>3
<1>4. PICK h \in Seq(Walk), p \in Nat :
        /\ History(h, kind, input, memo, control) /\ Located(h, p)
        /\ Len(h) \in Nat /\ DOMAIN h = 1..Len(h) /\ p \in 1..Len(h) /\ h[p] = Here
        /\ \A i \in 1..Len(h) : h[i] \in Walk
  BY <1>1, TracedBy
<1>5. p = Len(h)
  BY <1>1, <1>2, <1>4, BehindIsKnown
<1>6. EndsAt(h, k, paused')
  <2>1. h[Len(h)] = Here /\ Here.at = at /\ Here.idx = idx /\ Here.scope = scope
    BY <1>4, <1>5, HereFields
  <2> QED
    BY <1>1, <1>2, <2>1 DEF EndsAt
<1>7. Here' = Here
  BY <1>1 DEF Here
<1>8. Located(h, p)'
  BY <1>1, <1>2, <1>3, <1>4, <1>5, <1>6, <1>7 DEF Located
<1>9. History(h, kind, input, memo, control)'
  BY <1>1, <1>4
<1> QED
  BY <1>8, <1>9 DEF Traced

\* A resume goes back to the first state of the history, with all of it recorded.
LEMMA ResumeTraced ==
  ASSUME IndInv, Traced, Resume
  PROVE  Traced' /\ memo' = memo
<1>1. /\ status = "interrupted" /\ status' = "running" /\ at' = <<"enter", 1>> /\ idx' = <<0, 0>>
      /\ len' = <<0, 0>> /\ scope' = <<input, input>> /\ seed' = cp.key
      /\ memo' = memo /\ control' = control
      /\ UNCHANGED <<kind, input, cp, paused>>
  BY DEF Resume, Rewalk, fixed, durable, IndInv, MemoHolds
<1>2. PICK h \in Seq(Walk), p \in Nat :
        /\ History(h, kind, input, memo, control) /\ Located(h, p)
        /\ Len(h) \in Nat /\ DOMAIN h = 1..Len(h) /\ p \in 1..Len(h) /\ h[p] = Here
        /\ \A i \in 1..Len(h) : h[i] \in Walk
  BY <1>1, TracedBy
<1>3. Here' = First(input)
  BY <1>1 DEF Here, First
<1>4. h[1] = First(input) /\ 1 \in DOMAIN h
  BY <1>2 DEF History
<1>5. Located(h, 1)'
  BY <1>1, <1>2, <1>3, <1>4 DEF Located
<1>6. History(h, kind, input, memo, control)'
  BY <1>1, <1>2
<1> QED
  BY <1>1, <1>5, <1>6 DEF Traced

\* A step of the walk between calls.
LEMMA WalkTraced ==
  ASSUME ReplayInv, NEW l \in Loop, Enter(l) \/ Top(l) \/ Bottom(l) \/ Replay(l) \/ Branch
  PROVE  Traced' /\ memo' = memo /\ status' # "diverged"
<1>1. /\ status = "running"
      /\ UNCHANGED <<kind, input, memo, seed, cp, paused>>
  BY DEF Enter, Top, Bottom, Replay, Branch, fixed, durable
<1>2. \/ status' \in {"too many items", "retry exhausted"}
      \/ Refused
      \/ Advances
  BY EnterWalks, TopWalks, BottomWalks, BranchWalks, ReplayWalks DEF ReplayInv, IndInv
<1>3. CanGo(memo, Here)
  <2>1. Here.at = at
    BY DEF Here
  <2>2. at[1] \in {"enter", "head", "tail", "branch"} \/ (at[1] = "leaf" /\ Has(memo, LeafKey(Here)))
    <3>1. CASE Replay(l)
      BY <3>1, ReplayWalks DEF Replay
    <3>2. ASSUME Enter(l) PROVE at[1] = "enter"
      <4>1. at = <<"enter", l>>
        BY <3>2 DEF Enter
      <4> QED
        BY <4>1
    <3>3. ASSUME Top(l) PROVE at[1] = "head"
      <4>1. at = <<"head", l>>
        BY <3>3 DEF Top
      <4> QED
        BY <4>1
    <3>4. ASSUME Bottom(l) PROVE at[1] = "tail"
      <4>1. at = <<"tail", l>>
        BY <3>4 DEF Bottom
      <4> QED
        BY <4>1
    <3>5. Branch => at[1] = "branch"
      BY DEF Branch
    <3> QED
      BY <3>1, <3>2, <3>3, <3>4, <3>5
  <2> QED
    BY <2>1, <2>2 DEF CanGo
<1>4. CASE Advances
  BY <1>1, <1>3, <1>4, AdvanceTraced DEF ReplayInv, Advances
<1>5. CASE status' \in {"too many items", "retry exhausted"}
  BY <1>1, <1>5 DEF Traced
<1> QED
  BY <1>1, <1>2, <1>4, <1>5, NeverRefused DEF ReplayInv

\* Every step keeps the walk on its history.
LEMMA NextReplay == ReplayInv /\ [Next]_vars => ReplayInv'
<1> SUFFICES ASSUME ReplayInv, [Next]_vars PROVE ReplayInv'
  OBVIOUS
<1> USE DEF ReplayInv
<1>1. IndInv'
  BY NextInv
<1>2. ASSUME NEW l \in Loop, Enter(l) \/ Top(l) \/ Bottom(l) \/ Replay(l) \/ Branch PROVE ReplayInv'
  <2>1. Traced' /\ memo' = memo /\ status' # "diverged"
    BY <1>2, WalkTraced
  <2> QED
    BY <1>1, <2>1 DEF Functional
<1>3. ASSUME NEW l \in Loop, NEW v \in Value, Invoke(l, v) PROVE ReplayInv'
  <2>1. Traced' /\ Functional(memo)'
    BY <1>3, InvokeTraced
  <2> QED
    BY <1>1, <1>3, <2>1 DEF Invoke
<1>4. ASSUME NEW l \in Loop, Suspend(l) PROVE ReplayInv'
  <2>1. Traced'
    BY <1>4, SuspendTraced
  <2> QED
    BY <1>1, <1>4, <2>1 DEF Suspend, Functional
<1>5. ASSUME NEW l \in Loop, InvokeFails(l) PROVE ReplayInv'
  BY <1>1, <1>5 DEF InvokeFails, Functional, Traced
<1>6. CASE Finish
  BY <1>1, <1>6 DEF Finish, Functional, Traced
<1>7. CASE Resume
  <2>1. Traced' /\ memo' = memo
    BY <1>7, ResumeTraced
  <2>2. status' = "running"
    BY <1>7 DEF Resume, Rewalk
  <2> QED
    BY <1>1, <2>1, <2>2 DEF Functional
<1>8. CASE Ended \/ UNCHANGED vars
  <2>1. UNCHANGED <<kind, input, memo, control, status, seed, cp, paused>> /\ Here' = Here
    BY <1>8 DEF Ended, vars, Here
  <2>2. Traced'
    BY <2>1 DEF Traced, Located
  <2> QED
    BY <1>1, <2>1, <2>2 DEF Functional
<1>9. 1 \in Loop
  BY DEF Loop
<1> QED
  BY <1>2, <1>3, <1>4, <1>5, <1>6, <1>7, <1>8, <1>9 DEF Next

\* A call that nothing is recorded of, in a resumed walk, is the one it paused at.
LEMMA ReplayEnds == ReplayInv => ReplayFaithful
<1> SUFFICES ASSUME ReplayInv, status = "running", seed # NoKey, at[1] = "leaf", ~Has(memo, CallKey(at[2]))
             PROVE  [at |-> at, idx |-> idx, scope |-> scope] = paused
  BY DEF ReplayFaithful, ReplayInv
<1>1. CallKey(at[2]) = LeafKey(Here)
  <2>1. at[2] \in Loop
    BY DEF ReplayInv, IndInv, TypeOK
  <2> QED
    BY <2>1, HereFields
<1>2. PICK h \in Seq(Walk), p \in Nat :
        /\ History(h, kind, input, memo, control) /\ Located(h, p)
        /\ Len(h) \in Nat /\ DOMAIN h = 1..Len(h) /\ p \in 1..Len(h) /\ h[p] = Here
        /\ \A i \in 1..Len(h) : h[i] \in Walk
  BY TracedBy DEF ReplayInv
<1>3. p = Len(h)
  BY <1>1, <1>2, BehindIsKnown
<1>4. EndsAt(h, seed, paused)
  BY <1>2 DEF Located
<1>5. h[Len(h)] = Here /\ Here.at = at /\ Here.idx = idx /\ Here.scope = scope
  BY <1>2, <1>3, HereFields
<1> QED
  BY <1>4, <1>5 DEF EndsAt

\* A resumed walk comes back to the leaf it paused at, in the same iterations and
\* with the same scope, before it calls anything new, and checkControl's guard
\* against divergence never fires.
THEOREM ReplaysFaithfully == Spec => []ReplayFaithful
BY InitReplay, NextReplay, ReplayEnds, PTL DEF Spec

=============================================================================
