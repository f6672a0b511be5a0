---------------------------- MODULE AgentLoopProofs ----------------------------
(***************************************************************************)
(* For any number of concurrent steps of any kinds, any budget, iteration   *)
(* cap and prices: a run whose committed cost passed the budget has failed, *)
(* a step overshoots what it was admitted against by one price at most, and *)
(* tools run only as the checks before them allow.                          *)
(***************************************************************************)
EXTENDS AgentLoop, TLAPS

Entry == [turn : 1..MaxIter, call : Call, outcome : Outcome \cup {"none"}]
Place == {"idle", "turn", "call", "commit"} \cup InFlight \cup Ended

\* The types, of the functions too.
Typed ==
  /\ pc \in [Steps -> Place]
  /\ turn \in [Steps -> 0..MaxIter]
  /\ base \in [Steps -> Nat] /\ acc \in [Steps -> Nat]
  /\ calls \in [Steps -> Seq(Call)]
  /\ retried \in [Steps -> BOOLEAN]
  /\ total \in Nat /\ clock \in 0..(Deadline + 1)
  /\ log \in [Steps -> Seq(Entry)]
  /\ asked \in [Steps -> Nat]

\* Where a step is in its loop: calls are made below the cap only, and a call in
\* flight is the last one logged.
Placed(s) ==
  /\ pc[s] = "idle" => acc[s] = 0
  /\ pc[s] \notin {"idle"} \cup Ended => turn[s] >= 1
  /\ pc[s] \in {"call", "tool"} => calls[s] # <<>> /\ (Kind[s] = "loop" => turn[s] < MaxIter)
  /\ pc[s] = "tool" => log[s] # <<>>

\* What a step has spent: within the budget until its last completion or call.
Spent(s) ==
  Budget > 0 =>
    /\ pc[s] \in {"turn", "call"} \cup InFlight => base[s] + acc[s] <= Budget
    /\ base[s] + acc[s] <= Budget + Max(Prices)

\* FailsClosed of one step.
Closed(s) ==
  \A i \in DOMAIN log[s] :
    /\ log[s][i].call = "allowed"
    /\ Kind[s] = "loop" => log[s][i].turn < MaxIter
    /\ log[s][i].outcome = "error" => i = Len(log[s]) /\ pc[s] = "failed"

StepInv(s) == Placed(s) /\ Spent(s) /\ Closed(s)

\* A run over its budget has a failed step.
Overspent == Budget > 0 /\ total > Budget => \E s \in Steps : pc[s] = "failed"

\* The inductive invariant.
IndInv == Typed /\ (\A s \in Steps : StepInv(s)) /\ Overspent

-----------------------------------------------------------------------------
\* The constants.
LEMMA Numbers == MaxIter \in Nat /\ MaxIter >= 1 /\ Budget \in Nat /\ Deadline \in Nat
BY LoopAssumption

\* The dearest turn or call.
LEMMA Dearest == Max(Prices) \in Nat /\ \A p \in Prices : p \in Nat /\ p <= Max(Prices)
<1>1. \E x \in Prices : \A y \in Prices : x >= y
  BY LoopAssumption
<1>2. Max(Prices) \in Prices /\ \A y \in Prices : Max(Prices) >= y
  BY <1>1 DEF Max
<1> QED
  BY <1>2, LoopAssumption

\* The initial states.
LEMMA InitInv == Init => IndInv
<1> SUFFICES ASSUME Init PROVE IndInv
  OBVIOUS
<1>1. Typed
  BY Numbers DEF Init, Typed, Place
<1>2. ASSUME NEW s \in Steps PROVE StepInv(s)
  <2>1. Placed(s) /\ Closed(s)
    BY DEF Init, Placed, Closed, Ended
  <2>2. Spent(s)
    BY Numbers, Dearest DEF Init, Spent, InFlight
  <2> QED
    BY <2>1, <2>2 DEF StepInv
<1>3. Overspent
  BY Numbers DEF Init, Overspent
<1> QED
  BY <1>1, <1>2, <1>3 DEF IndInv

\* What a step's move leaves alone: the other steps.  A failed step stays failed
\* and, unless the step commits, the total stays.
LEMMA OthersKept ==
  ASSUME IndInv, NEW s \in Steps,
         \A t \in Steps : t # s =>
           /\ pc'[t] = pc[t] /\ turn'[t] = turn[t] /\ base'[t] = base[t] /\ acc'[t] = acc[t]
           /\ calls'[t] = calls[t] /\ log'[t] = log[t],
         Typed', StepInv(s)', pc[s] # "failed",
         total' = total \/ pc'[s] = "failed" \/ (Budget > 0 => total' <= Budget)
  PROVE  IndInv'
<1>1. ASSUME NEW t \in Steps PROVE StepInv(t)'
  <2>1. CASE t = s
    BY <2>1
  <2>2. CASE t # s
    BY <2>2 DEF IndInv, StepInv, Placed, Spent, Closed
  <2> QED
    BY <2>1, <2>2
<1>2. Overspent'
  BY Numbers DEF IndInv, Overspent, Typed
<1> QED
  BY <1>1, <1>2 DEF IndInv

\* Failing: the step ends, and all it keeps is what it logged and spent.
LEMMA FailStep ==
  ASSUME IndInv, NEW s \in Steps, pc[s] # "failed", Fail(s), UNCHANGED <<acc, log>>
  PROVE  IndInv'
<1>1. /\ UNCHANGED <<turn, base, calls, retried, total, clock, asked, acc, log>>
      /\ pc' = [pc EXCEPT ![s] = "failed"] /\ pc'[s] = "failed"
      /\ \A t \in Steps : t # s => pc'[t] = pc[t]
  BY DEF Fail, IndInv, Typed
<1>2. Typed'
  BY <1>1 DEF IndInv, Typed, Place, Ended
<1>3. StepInv(s)'
  BY <1>1 DEF IndInv, StepInv, Placed, Spent, Closed, Ended, InFlight
<1> QED
  BY <1>1, <1>2, <1>3, OthersKept

\* A step is admitted against the cost committed so far.
LEMMA AdmitStep == ASSUME IndInv, NEW s \in Steps, Admit(s) PROVE IndInv'
<1>1. CASE Fail(s) /\ UNCHANGED <<acc, log>>
  BY <1>1, FailStep DEF Admit
<1>2. CASE ~(Fail(s) /\ UNCHANGED <<acc, log>>)
  <2>1. /\ pc[s] = "idle" /\ CheckRun(total)
        /\ base' = [base EXCEPT ![s] = total] /\ turn' = [turn EXCEPT ![s] = 1]
        /\ UNCHANGED <<acc, retried, total, clock, log, asked>>
        /\ IF Kind[s] = "tool"
             THEN /\ \E c \in Call : calls' = [calls EXCEPT ![s] = <<c>>]
                  /\ Goto(s, "call")
             ELSE UNCHANGED calls /\ Goto(s, "turn")
    BY <1>2 DEF Admit
  <2>2. /\ calls' \in [Steps -> Seq(Call)] /\ pc' \in [Steps -> Place]
        /\ \/ pc'[s] = "turn"
           \/ pc'[s] = "call" /\ calls'[s] # <<>> /\ Kind[s] # "loop"
        /\ \A t \in Steps : t # s => calls'[t] = calls[t] /\ pc'[t] = pc[t]
    <3>1. CASE Kind[s] = "tool"
      <4>1. PICK c \in Call : calls' = [calls EXCEPT ![s] = <<c>>]
        BY <2>1, <3>1
      <4>2. <<c>> \in Seq(Call) /\ <<c>> # <<>>
        OBVIOUS
      <4> QED
        BY <2>1, <3>1, <4>1, <4>2 DEF IndInv, Typed, Goto, Place
    <3>2. CASE Kind[s] # "tool"
      BY <2>1, <3>2 DEF IndInv, Typed, Goto, Place
    <3> QED
      BY <3>1, <3>2
  <2>3. /\ base'[s] = total /\ turn'[s] = 1 /\ acc'[s] = 0
        /\ base' \in [Steps -> Nat] /\ turn' \in [Steps -> 0..MaxIter]
        /\ \A t \in Steps : t # s => base'[t] = base[t] /\ turn'[t] = turn[t]
    BY <2>1, Numbers DEF IndInv, Typed, StepInv, Placed
  <2>4. Typed'
    BY <2>1, <2>2, <2>3 DEF IndInv, Typed
  <2>5. Placed(s)'
    BY <2>2, <2>3 DEF Placed
  <2>6. Spent(s)'
    <3>1. Budget > 0 => total <= Budget
      BY <2>1 DEF CheckRun
    <3>2. total \in Nat
      BY DEF IndInv, Typed
    <3> QED
      BY <2>3, <3>1, <3>2, Numbers, Dearest DEF Spent
  <2>7. Closed(s)'
    BY <2>1 DEF IndInv, StepInv, Closed
  <2> QED
    BY <2>1, <2>2, <2>3, <2>4, <2>5, <2>6, <2>7, OthersKept DEF StepInv
<1> QED
  BY <1>1, <1>2

\* A completion is requested, within the budget unless the agent has no tools.
LEMMA StartTurnStep == ASSUME IndInv, NEW s \in Steps, StartTurn(s) PROVE IndInv'
<1>1. CASE Fail(s) /\ UNCHANGED <<acc, log>>
  BY <1>1, FailStep DEF StartTurn
<1>2. CASE ~(Fail(s) /\ UNCHANGED <<acc, log>>)
  <2>1. /\ pc[s] = "turn" /\ Goto(s, "model") /\ Ask(s)
        /\ UNCHANGED <<turn, base, acc, calls, total, clock, log>>
    BY <1>2 DEF StartTurn
  <2>2. /\ pc' \in [Steps -> Place] /\ pc'[s] = "model"
        /\ retried' \in [Steps -> BOOLEAN] /\ asked' \in [Steps -> Nat]
        /\ \A t \in Steps : t # s => pc'[t] = pc[t]
    BY <2>1 DEF IndInv, Typed, Goto, Ask, Place, InFlight
  <2>3. Typed'
    BY <2>1, <2>2 DEF IndInv, Typed
  <2>4. StepInv(s)'
    BY <2>1, <2>2 DEF IndInv, StepInv, Placed, Spent, Closed, InFlight, Ended
  <2> QED
    BY <2>1, <2>2, <2>3, <2>4, OthersKept
<1> QED
  BY <1>1, <1>2

\* A price is added to what the step has spent within the budget.
LEMMA PriceAdded ==
  ASSUME IndInv, NEW s \in Steps, NEW price \in Prices, pc[s] \in {"turn", "call"} \cup InFlight
  PROVE  /\ price \in Nat /\ acc[s] + price \in Nat
         /\ Budget > 0 => base[s] + (acc[s] + price) <= Budget + Max(Prices)
         /\ Affordable(s, acc[s] + price) /\ Budget > 0 => base[s] + (acc[s] + price) <= Budget
<1>1. base[s] \in Nat /\ acc[s] \in Nat
  BY DEF IndInv, Typed
<1>2. Budget > 0 => base[s] + acc[s] <= Budget
  BY DEF IndInv, StepInv, Spent
<1>3. Affordable(s, acc[s] + price) /\ Budget > 0 => base[s] + (acc[s] + price) <= Budget
  BY DEF Affordable, CheckAgentLoopRun, CheckRun
<1> QED
  BY <1>1, <1>2, <1>3, Numbers, Dearest

\* A completion arrives and decides how the step goes on.
LEMMA AnswerStep ==
  ASSUME IndInv, NEW s \in Steps, NEW price \in Prices, Answer(s, price) \/ AnswerFinal(s, price)
  PROVE  IndInv'
<1>1. /\ pc[s] \in {"model", "final"} /\ UNCHANGED <<turn, base, total, clock, log>>
      /\ acc' = [acc EXCEPT ![s] = acc[s] + price]
  BY DEF Answer, AnswerFinal
<1>2. /\ price \in Nat /\ acc[s] + price \in Nat
      /\ Budget > 0 => base[s] + (acc[s] + price) <= Budget + Max(Prices)
      /\ Affordable(s, acc[s] + price) /\ Budget > 0 => base[s] + (acc[s] + price) <= Budget
  BY <1>1, PriceAdded DEF InFlight
<1>3. /\ acc' \in [Steps -> Nat] /\ acc'[s] = acc[s] + price
      /\ \A t \in Steps : t # s => acc'[t] = acc[t]
  BY <1>1, <1>2 DEF IndInv, Typed
<1>4. turn[s] \in 1..MaxIter
  <2>1. turn[s] \in 0..MaxIter
    BY DEF IndInv, Typed
  <2>2. turn[s] >= 1
    BY <1>1 DEF IndInv, StepInv, Placed, Ended
  <2> QED
    BY <2>1, <2>2, Numbers
<1> DEFINE Stops == \E where \in {"failed", "commit"} : Goto(s, where) /\ UNCHANGED <<calls, retried, asked>>
           Finals == Affordable(s, acc[s] + price) /\ Goto(s, "final") /\ Ask(s) /\ UNCHANGED calls
           Calls == /\ Affordable(s, acc[s] + price) /\ Goto(s, "call") /\ ~AtCap(s)
                    /\ UNCHANGED <<retried, asked>>
                    /\ \E cs \in Seq(Call) : cs # <<>> /\ calls' = [calls EXCEPT ![s] = cs]
<1>5. Stops \/ Finals \/ Calls
  <2>1. CASE AnswerFinal(s, price)
    BY <2>1 DEF AnswerFinal, Complete
  <2>2. CASE Answer(s, price) /\ ~Stops
    <3>1. PICK n \in 1..MaxCalls : \E cs \in [1..n -> Call] :
            /\ Affordable(s, acc[s] + price)
            /\ IF AtCap(s)
                 THEN /\ Goto(s, "final") /\ Ask(s)
                      /\ UNCHANGED calls
                 ELSE /\ Goto(s, "call")
                      /\ calls' = [calls EXCEPT ![s] = cs]
                      /\ UNCHANGED <<retried, asked>>
      BY <2>2 DEF Answer, Complete
    <3>2. \A cs \in [1..n -> Call] : cs \in Seq(Call) /\ cs # <<>>
      BY LoopAssumption
    <3> QED
      BY <3>1, <3>2
  <2> QED
    BY <2>1, <2>2
<1>6. /\ pc' \in [Steps -> Place] /\ calls' \in [Steps -> Seq(Call)]
      /\ retried' \in [Steps -> BOOLEAN] /\ asked' \in [Steps -> Nat]
      /\ \A t \in Steps : t # s => pc'[t] = pc[t] /\ calls'[t] = calls[t]
      /\ \/ pc'[s] \in {"failed", "commit"}
         \/ pc'[s] = "final" /\ Affordable(s, acc[s] + price)
         \/ pc'[s] = "call" /\ Affordable(s, acc[s] + price) /\ calls'[s] # <<>> /\ ~AtCap(s)
  <2>1. CASE Stops
    BY <2>1 DEF IndInv, Typed, Goto, Place, Ended
  <2>2. CASE Finals
    BY <2>2 DEF IndInv, Typed, Goto, Ask, Place, InFlight
  <2>3. CASE Calls
    BY <2>3 DEF IndInv, Typed, Goto, Place
  <2> QED
    BY <1>5, <2>1, <2>2, <2>3
<1> HIDE DEF Stops, Finals, Calls
<1>7. Typed'
  BY <1>1, <1>3, <1>6 DEF IndInv, Typed
<1>8. Placed(s)'
  BY <1>1, <1>4, <1>6, Numbers DEF Placed, AtCap
<1>9. Spent(s)'
  BY <1>1, <1>2, <1>3, <1>6 DEF Spent, InFlight
<1>10. Closed(s)'
  BY <1>1 DEF IndInv, StepInv, Closed
<1> QED
  BY <1>1, <1>3, <1>6, <1>7, <1>8, <1>9, <1>10, OthersKept DEF StepInv

\* A failed completion is retried once or fails the step.
LEMMA ModelFailsStep == ASSUME IndInv, NEW s \in Steps, ModelFails(s) PROVE IndInv'
<1>1. CASE Fail(s) /\ UNCHANGED <<acc, log>>
  BY <1>1, FailStep DEF ModelFails
<1>2. CASE ~(Fail(s) /\ UNCHANGED <<acc, log>>)
  <2>1. /\ retried' = [retried EXCEPT ![s] = TRUE] /\ pc[s] \in {"model", "final"}
        /\ UNCHANGED <<pc, turn, base, acc, calls, total, clock, log, asked>>
    BY <1>2 DEF ModelFails
  <2>2. Typed'
    BY <2>1 DEF IndInv, Typed
  <2>3. StepInv(s)'
    BY <2>1 DEF IndInv, StepInv, Placed, Spent, Closed
  <2> QED
    BY <2>1, <2>2, <2>3, OthersKept
<1> QED
  BY <1>1, <1>2

\* What an appended sequence holds.
LEMMA Appended ==
  ASSUME NEW S, NEW q \in Seq(S), NEW e \in S
  PROVE  /\ Append(q, e) \in Seq(S) /\ Append(q, e) # <<>>
         /\ \A i \in DOMAIN Append(q, e) :
              \/ i \in DOMAIN q /\ Append(q, e)[i] = q[i]
              \/ Append(q, e)[i] = e
<1>1. /\ Append(q, e) \in Seq(S) /\ DOMAIN Append(q, e) = 1..(Len(q) + 1)
      /\ Append(q, e)[Len(q) + 1] = e /\ DOMAIN q = 1..Len(q) /\ Len(q) \in Nat
      /\ \A i \in 1..Len(q) : Append(q, e)[i] = q[i]
  OBVIOUS
<1>2. Append(q, e) # <<>>
  <2>1. Len(Append(q, e)) = Len(q) + 1 /\ Len(<<>>) = 0 /\ Len(q) + 1 # 0
    OBVIOUS
  <2> QED
    BY <2>1
<1>3. ASSUME NEW i \in 1..(Len(q) + 1) PROVE i \in 1..Len(q) \/ i = Len(q) + 1
  BY <1>1
<1> QED
  BY <1>1, <1>2, <1>3

\* A tool is dispatched: an allowed call, below the cap of a loop.
LEMMA CallToolStep == ASSUME IndInv, NEW s \in Steps, CallTool(s) PROVE IndInv'
<1>1. CASE Fail(s) /\ UNCHANGED <<acc, log>>
  BY <1>1, FailStep DEF CallTool
<1>2. CASE ~(Fail(s) /\ UNCHANGED <<acc, log>>)
  <2> DEFINE c == Head(calls[s])
             e == [turn |-> turn[s], call |-> c, outcome |-> "none"]
  <2>1. /\ pc[s] = "call" /\ c = "allowed" /\ Goto(s, "tool")
        /\ log' = [log EXCEPT ![s] = Append(@, e)]
        /\ UNCHANGED <<turn, base, acc, calls, retried, total, clock, asked>>
    BY <1>2 DEF CallTool, MayCall
  <2>2. turn[s] \in 1..MaxIter /\ (Kind[s] = "loop" => turn[s] < MaxIter)
    <3>1. turn[s] \in 0..MaxIter
      BY DEF IndInv, Typed
    <3>2. turn[s] >= 1 /\ (Kind[s] = "loop" => turn[s] < MaxIter)
      BY <2>1 DEF IndInv, StepInv, Placed, Ended
    <3> QED
      BY <3>1, <3>2, Numbers
  <2>3. e \in Entry /\ e.turn = turn[s] /\ e.call = "allowed" /\ e.outcome = "none"
    BY <2>1, <2>2 DEF Entry, Call
  <2> HIDE DEF e
  <2>4. /\ log[s] \in Seq(Entry) /\ Append(log[s], e) \in Seq(Entry) /\ Append(log[s], e) # <<>>
        /\ \A i \in DOMAIN Append(log[s], e) :
             \/ i \in DOMAIN log[s] /\ Append(log[s], e)[i] = log[s][i]
             \/ Append(log[s], e)[i] = e
    <3>1. log[s] \in Seq(Entry)
      BY DEF IndInv, Typed
    <3> QED
      BY <2>3, <3>1, Appended
  <2>5. /\ log' \in [Steps -> Seq(Entry)] /\ log'[s] = Append(log[s], e)
        /\ pc' \in [Steps -> Place] /\ pc'[s] = "tool"
        /\ \A t \in Steps : t # s => log'[t] = log[t] /\ pc'[t] = pc[t]
    BY <2>1, <2>4 DEF IndInv, Typed, Goto, Place, InFlight
  <2>6. Typed'
    BY <2>1, <2>5 DEF IndInv, Typed
  <2>7. Placed(s)'
    BY <2>1, <2>4, <2>5 DEF IndInv, StepInv, Placed, Ended
  <2>8. Spent(s)'
    BY <2>1, <2>5 DEF IndInv, StepInv, Spent, InFlight
  <2>9. Closed(s)'
    <3>1. \A i \in DOMAIN log[s] :
            /\ log[s][i].call = "allowed" /\ log[s][i].outcome # "error"
            /\ Kind[s] = "loop" => log[s][i].turn < MaxIter
      BY <2>1 DEF IndInv, StepInv, Closed
    <3> QED
      BY <2>2, <2>3, <2>4, <2>5, <3>1 DEF Closed
  <2> QED
    BY <2>1, <2>5, <2>6, <2>7, <2>8, <2>9, OthersKept DEF StepInv
<1> QED
  BY <1>1, <1>2

\* The outcome of the last dispatched call is logged.
LEMMA Recorded ==
  ASSUME IndInv, NEW s \in Steps, pc[s] = "tool", NEW outcome \in Outcome, Record(s, outcome)
  PROVE  /\ log' \in [Steps -> Seq(Entry)]
         /\ \A t \in Steps : t # s => log'[t] = log[t]
         /\ DOMAIN log'[s] = DOMAIN log[s] /\ Len(log'[s]) = Len(log[s])
         /\ \A i \in DOMAIN log[s] :
              /\ log'[s][i].call = log[s][i].call /\ log'[s][i].turn = log[s][i].turn
              /\ i = Len(log[s]) => log'[s][i].outcome = outcome
              /\ i # Len(log[s]) => log'[s][i].outcome = log[s][i].outcome
<1> DEFINE q == log[s]
           n == Len(q)
           e == [q[n] EXCEPT !.outcome = outcome]
           r == [q EXCEPT ![n] = e]
<1>1. q \in Seq(Entry) /\ q # <<>>
  BY DEF IndInv, Typed, StepInv, Placed
<1>2. n \in DOMAIN q /\ q[n] \in Entry
  BY <1>1
<1>3. /\ e \in Entry /\ e.call = q[n].call /\ e.turn = q[n].turn /\ e.outcome = outcome
  BY <1>2 DEF Entry
<1>4. log' = [log EXCEPT ![s] = r]
  BY DEF Record
<1> HIDE DEF e
<1>5. /\ r \in Seq(Entry) /\ DOMAIN r = DOMAIN q /\ Len(r) = Len(q) /\ r[n] = e
      /\ \A i \in DOMAIN q : i # n => r[i] = q[i]
  BY <1>1, <1>2, <1>3
<1> HIDE DEF r
<1>6. log' \in [Steps -> Seq(Entry)] /\ log'[s] = r /\ \A t \in Steps : t # s => log'[t] = log[t]
  BY <1>4, <1>5 DEF IndInv, Typed
<1> QED
  BY <1>3, <1>5, <1>6

\* What is left of a nonempty sequence.
LEMMA TailOf ==
  ASSUME NEW S, NEW q \in Seq(S), q # <<>>
  PROVE  /\ Tail(q) \in Seq(S)
         /\ Len(q) # 1 => Tail(q) # <<>>
<1> DEFINE t == Tail(q)
           n == Len(q)
<1>1. t \in Seq(S) /\ Len(t) = n - 1 /\ n \in Nat
  OBVIOUS
<1> HIDE DEF t, n
<1>2. n # 1 => Len(t) # 0
  BY <1>1
<1>3. t = <<>> => Len(t) = 0
  OBVIOUS
<1>4. t \in Seq(S) /\ (n # 1 => t # <<>>)
  BY <1>1, <1>2, <1>3
<1> QED
  BY <1>4 DEF t, n

\* A tool call returns: its outcome is logged, and an error that no adapter
\* marked ends the step.
LEMMA ToolReturnsStep ==
  ASSUME IndInv, NEW s \in Steps, NEW price \in Prices, NEW outcome \in Outcome,
         ToolReturns(s, price, outcome)
  PROVE  IndInv'
<1>1. pc[s] = "tool" /\ Record(s, outcome)
  BY DEF ToolReturns
<1>2. /\ price \in Nat /\ acc[s] + price \in Nat
      /\ Budget > 0 => base[s] + (acc[s] + price) <= Budget + Max(Prices)
      /\ Affordable(s, acc[s] + price) /\ Budget > 0 => base[s] + (acc[s] + price) <= Budget
  BY <1>1, PriceAdded DEF InFlight
<1>3. /\ calls[s] \in Seq(Call) /\ calls[s] # <<>> /\ turn[s] \in 0..MaxIter
      /\ turn[s] >= 1 /\ (Kind[s] = "loop" => turn[s] < MaxIter)
  BY <1>1 DEF IndInv, Typed, StepInv, Placed, Ended
<1>4. /\ Tail(calls[s]) \in Seq(Call)
      /\ Len(calls[s]) # 1 => Tail(calls[s]) # <<>>
  BY <1>3, TailOf
<1> DEFINE Next1 == /\ Kind[s] = "loop" /\ Affordable(s, acc[s] + price) /\ outcome # "error"
                    /\ calls' = [calls EXCEPT ![s] = Tail(@)]
                    /\ \/ /\ Len(calls[s]) = 1
                          /\ Goto(s, "turn") /\ turn' = [turn EXCEPT ![s] = @ + 1]
                       \/ /\ Len(calls[s]) # 1
                          /\ Goto(s, "call") /\ UNCHANGED turn
           Stops == /\ UNCHANGED <<turn, calls>>
                    /\ \/ Goto(s, "failed")
                       \/ Goto(s, "commit") /\ outcome # "error"
<1>5. /\ Next1 \/ Stops
      /\ acc' = acc \/ acc' = [acc EXCEPT ![s] = acc[s] + price]
      /\ Next1 => acc' = [acc EXCEPT ![s] = acc[s] + price]
      /\ UNCHANGED <<base, retried, total, clock, asked>>
  <2>1. CASE Kind[s] = "loop" /\ (outcome = "output" \/ Recoverable(outcome))
    <3>1. outcome # "error"
      BY <2>1 DEF Recoverable
    <3>2. CASE ~Affordable(s, acc[s] + price)
      BY <2>1, <3>2 DEF ToolReturns
    <3>3. CASE Affordable(s, acc[s] + price)
      BY <2>1, <3>1, <3>3 DEF ToolReturns
    <3> QED
      BY <3>2, <3>3
  <2>2. CASE Kind[s] = "loop" /\ ~(outcome = "output" \/ Recoverable(outcome))
    <3>1. Fail(s) /\ UNCHANGED acc
      BY <2>2 DEF ToolReturns
    <3>2. ~Next1
      BY <2>2 DEF Outcome, Recoverable
    <3> QED
      BY <3>1, <3>2 DEF Fail, Goto
  <2>3. CASE Kind[s] # "loop" /\ outcome = "output"
    BY <2>3 DEF ToolReturns
  <2>4. CASE Kind[s] # "loop" /\ outcome # "output"
    BY <2>4 DEF ToolReturns, Fail, Goto
  <2> QED
    BY <2>1, <2>2, <2>3, <2>4
<1>6. /\ acc' \in [Steps -> Nat] /\ acc'[s] \in {acc[s], acc[s] + price}
      /\ \A t \in Steps : t # s => acc'[t] = acc[t]
  <2>1. CASE acc' = acc
    BY <2>1 DEF IndInv, Typed
  <2>2. CASE acc' = [acc EXCEPT ![s] = acc[s] + price]
    BY <1>2, <2>2 DEF IndInv, Typed
  <2> QED
    BY <1>5, <2>1, <2>2
<1>7. /\ pc' \in [Steps -> Place] /\ calls' \in [Steps -> Seq(Call)] /\ turn' \in [Steps -> 0..MaxIter]
      /\ \A t \in Steps : t # s => pc'[t] = pc[t] /\ calls'[t] = calls[t] /\ turn'[t] = turn[t]
      /\ turn'[s] >= 1
      /\ \/ pc'[s] = "failed" \/ (pc'[s] = "commit" /\ outcome # "error")
         \/ /\ pc'[s] \in {"turn", "call"} /\ outcome # "error" /\ Next1
            /\ pc'[s] = "call" => calls'[s] # <<>> /\ turn'[s] < MaxIter
  <2>1. CASE Stops
    BY <1>3, <2>1 DEF IndInv, Typed, Goto, Place, Ended
  <2>2. CASE Next1 /\ Goto(s, "turn") /\ turn' = [turn EXCEPT ![s] = @ + 1]
    <3>1. turn[s] + 1 \in 0..MaxIter /\ turn[s] + 1 >= 1
      BY <1>3, <2>2, Numbers
    <3> QED
      BY <1>4, <2>2, <3>1 DEF IndInv, Typed, Goto, Place
  <2>3. CASE Next1 /\ Len(calls[s]) # 1 /\ Goto(s, "call") /\ UNCHANGED turn
    BY <1>3, <1>4, <2>3 DEF IndInv, Typed, Goto, Place
  <2> QED
    BY <1>5, <2>1, <2>2, <2>3
<1>8. /\ log' \in [Steps -> Seq(Entry)]
      /\ \A t \in Steps : t # s => log'[t] = log[t]
      /\ DOMAIN log'[s] = DOMAIN log[s] /\ Len(log'[s]) = Len(log[s])
      /\ \A i \in DOMAIN log[s] :
           /\ log'[s][i].call = log[s][i].call /\ log'[s][i].turn = log[s][i].turn
           /\ i = Len(log[s]) => log'[s][i].outcome = outcome
           /\ i # Len(log[s]) => log'[s][i].outcome = log[s][i].outcome
  BY <1>1, Recorded
<1>9. Typed'
  BY <1>5, <1>6, <1>7, <1>8 DEF IndInv, Typed
<1>10. Placed(s)'
  BY <1>7 DEF Placed
<1>11. Spent(s)'
  <2>1. base[s] \in Nat /\ acc[s] \in Nat /\ (Budget > 0 => base[s] + acc[s] <= Budget + Max(Prices))
    BY DEF IndInv, Typed, StepInv, Spent
  <2>2. Next1 => acc'[s] = acc[s] + price /\ Affordable(s, acc[s] + price)
    BY <1>5 DEF IndInv, Typed
  <2> HIDE DEF Next1
  <2> QED
    BY <1>2, <1>5, <1>6, <1>7, <2>1, <2>2 DEF Spent, InFlight
<1>12. Closed(s)'
  <2>1. \A i \in DOMAIN log[s] :
          /\ log[s][i].call = "allowed" /\ log[s][i].outcome # "error"
          /\ Kind[s] = "loop" => log[s][i].turn < MaxIter
    BY <1>1 DEF IndInv, StepInv, Closed
  <2> HIDE DEF Next1
  <2> QED
    BY <1>7, <1>8, <2>1 DEF Closed
<1> QED
  BY <1>1, <1>5, <1>6, <1>7, <1>8, <1>9, <1>10, <1>11, <1>12, OthersKept DEF StepInv

\* The step's cost is added to the total: within the budget, or the step fails.
LEMMA CommitStep == ASSUME IndInv, NEW s \in Steps, Commit(s) PROVE IndInv'
<1>1. /\ pc[s] = "commit" /\ total' = total + acc[s]
      /\ UNCHANGED <<turn, base, acc, calls, retried, clock, log, asked>>
  BY DEF Commit
<1>2. /\ pc' \in [Steps -> Place] /\ \A t \in Steps : t # s => pc'[t] = pc[t]
      /\ \/ pc'[s] = "failed"
         \/ pc'[s] = "succeeded" /\ (Budget > 0 => total' <= Budget)
  <2>1. CASE Goto(s, "failed")
    BY <2>1 DEF IndInv, Typed, Goto, Place, Ended
  <2>2. CASE CommitAllowed(total') /\ Goto(s, "succeeded")
    BY <2>2 DEF IndInv, Typed, Goto, Place, Ended, CommitAllowed, CheckRun
  <2> QED
    BY <2>1, <2>2 DEF Commit
<1>3. total' \in Nat
  BY <1>1 DEF IndInv, Typed
<1>4. Typed'
  BY <1>1, <1>2, <1>3 DEF IndInv, Typed
<1>5. StepInv(s)'
  BY <1>1, <1>2 DEF IndInv, StepInv, Placed, Spent, Closed, Ended, InFlight
<1> QED
  BY <1>1, <1>2, <1>4, <1>5, OthersKept

\* Every step of the specification keeps the invariant.
LEMMA NextInv == IndInv /\ [Next]_vars => IndInv'
<1> SUFFICES ASSUME IndInv, [Next]_vars PROVE IndInv'
  OBVIOUS
<1>1. ASSUME NEW s \in Steps, Moves(s) PROVE IndInv'
  <2>1. CASE Unencodable(s)
    BY <2>1, FailStep DEF Unencodable
  <2> QED
    BY <1>1, <2>1, AdmitStep, StartTurnStep, CallToolStep, CommitStep DEF Moves
<1>2. ASSUME NEW s \in Steps, Answers(s) PROVE IndInv'
  BY <1>2, AnswerStep, ToolReturnsStep, ModelFailsStep DEF Answers
<1>3. ASSUME NEW s \in Steps, Expire(s) \/ Cancel(s) PROVE IndInv'
  BY <1>3, FailStep DEF Expire, Cancel, InFlight
<1>4. CASE Tick
  <2>1. /\ clock' = clock + 1 /\ clock <= Deadline
        /\ UNCHANGED <<pc, turn, base, acc, calls, retried, total, log, asked>>
    BY <1>4 DEF Tick
  <2>2. clock' \in 0..(Deadline + 1)
    BY <2>1, Numbers DEF IndInv, Typed
  <2> QED
    BY <2>1, <2>2 DEF IndInv, Typed, StepInv, Placed, Spent, Closed, Overspent
<1>5. CASE UNCHANGED vars
  BY <1>5 DEF vars, IndInv, Typed, StepInv, Placed, Spent, Closed, Overspent
<1> QED
  BY <1>1, <1>2, <1>3, <1>4, <1>5 DEF Next, Done

\* The inductive invariant holds in every reachable state.
LEMMA Invariance == Spec => []IndInv
BY InitInv, NextInv, PTL DEF Spec

-----------------------------------------------------------------------------
\* Every variable keeps its type: the turn never passes the iteration cap and
\* every logged call belongs to a turn of its step.
THEOREM TypeCorrect == Spec => []TypeOK
<1>1. IndInv => TypeOK
  <2> SUFFICES ASSUME IndInv PROVE TypeOK
    OBVIOUS
  <2>1. ASSUME NEW s \in Steps, NEW i \in DOMAIN log[s]
        PROVE  log[s][i].turn \in 1..MaxIter /\ log[s][i].outcome \in Outcome \cup {"none"}
    <3>1. log[s][i] \in Entry
      BY DEF IndInv, Typed
    <3> QED
      BY <3>1 DEF Entry
  <2> QED
    BY <2>1 DEF IndInv, Typed, TypeOK, Place
<1> QED
  BY <1>1, Invariance, PTL

\* Whatever number of steps run side by side, a run whose committed cost passed
\* maxTotalCostUsd has a failed step, and each step overshoots the budget it sees
\* by one completion or call (run after cost.add, checkAgentLoopRun).
THEOREM BudgetKept == Spec => []BudgetHolds
<1>1. IndInv => BudgetHolds
  BY DEF IndInv, StepInv, Spent, Overspent, BudgetHolds
<1> QED
  BY <1>1, Invariance, PTL

\* A tool is dispatched only for an allowed call, never in an agent's last turn,
\* and nothing follows an error that no adapter marked (runAgentToolCall).
THEOREM ToolsFailClosed == Spec => []FailsClosed
<1>1. IndInv => FailsClosed
  BY DEF IndInv, StepInv, Closed, FailsClosed
<1> QED
  BY <1>1, Invariance, PTL
=============================================================================
