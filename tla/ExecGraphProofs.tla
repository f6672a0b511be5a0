---------------------------- MODULE ExecGraphProofs ----------------------------
(***************************************************************************)
(* A durable run of any needs-DAG, on any number of workers, across any     *)
(* number of suspensions and resumes: every call returns one result at      *)
(* most, a succeeded run has one of each, and the run implements            *)
(* DurableRun.  One suspension cause per checkpoint is enough for that as   *)
(* long as no callee is cut short by somebody else's pause (Sheltered).     *)
(***************************************************************************)
EXTENDS ExecGraph, TLAPS

\* The steps that have completed when n is launched: those it needs, those they
\* need, and so on.
Above(n) == {m \in Node : \A S \in SUBSET Node : Needs[n] \subseteq S /\ (\A x \in S : Needs[x] \subseteq S) => m \in S}

\* Every attempt that launches m launches n with it or before it.
LaunchedWith(n, m) == Needs[n] \subseteq Above(m)

\* A gate of m cannot ask while a frame of the callee n waits to be taken up: n is
\* launched by then, m completed before the frame was made, or m is a callee that
\* completed in the attempt that made it, or was refused there.
Harmless(n, m) == LaunchedWith(n, m) \/ m \in Above(n) \/ (m \in Sub /\ LaunchedWith(m, n))

\* No pause but its own stops a callee between two of its leaves.  A callee with
\* a deadline is the only step with gates, if there are any; to one that may pause
\* with leaves behind it every gate is harmless.
Alone(n) == \A l \in Gated : l[1] = n
Sheltered ==
  \A n \in Sub :
    /\ (\E k \in 1..Body : <<n, k>> \in Timed) => Alone(n)
    /\ (\E k \in 2..Body : <<n, k>> \in Gated) => \A l \in Gated : Harmless(n, l[1])

\* How many leaves of n have returned: all once it is memoized, as many as its
\* goroutine counted, and before that as many as the frame it will resume from.
Frame(s, n) == IF n \in Sub /\ s.kind = "nested" /\ s.leaf[1] = n THEN s.inner ELSE 0
Progress(n) ==
  IF n \in memo THEN Length(n)
  ELSE IF thr[n] \in {"idle", "launched"} THEN Frame(seed, n) ELSE inner[n]

\* The same, of the checkpoint.
Checkpointed(n) == IF n \in cp.memo THEN Length(n) ELSE Frame(cp.slot, n)

\* A goroutine and what is recorded of its node.
Goroutine(n) ==
  /\ thr[n] = "done" => n \in memo
  /\ thr[n] \in {"eval", "inflight", "suspended", "abandoned", "failed"}
       => n \notin memo /\ inner[n] < Length(n)
  /\ thr[n] # "idle" => Ready(n)
  /\ thr[n] = "suspended" => Current(n) \in Gated /\ slot # NoSlot
  /\ thr[n] = "suspended" /\ n \in Sub => slot = NestedFrame(Current(n), inner[n])
  /\ thr[n] = "abandoned" => FirstErr \/ n \notin Sub
  /\ thr[n] = "idle" => \A m \in Node : LaunchedWith(n, m) => thr[m] = "idle"

\* A suspension cause: a gate of its node, with the leaves before it.
Cause(s) ==
  \/ s = NoSlot
  \/ \E n \in Node : /\ s = IF n \in Sub THEN NestedFrame(<<n, s.inner + 1>>, s.inner)
                                         ELSE DirectGate(<<n, 1>>)
                     /\ s.leaf \in Gated

\* The cause to present is that of a suspended goroutine; the one to answer is
\* the checkpoint's.
Presented == slot = NoSlot \/ \E n \in Node : /\ thr[n] = "suspended" /\ slot.leaf = Current(n)
                                              /\ slot.inner = inner[n]
Causes ==
  /\ Cause(slot) /\ Cause(cp.slot) /\ Presented
  /\ status = "running" => seed \in {NoSlot, cp.slot}

\* A leaf has returned once if its node has come that far, and else never.
Results(n) ==
  \A k \in 1..Body : returned[<<n, k>>] = IF k <= Progress(n) THEN 1 ELSE 0

\* A call that was made has returned or is in flight, or it failed and the run
\* with it, or it was given up at its deadline.
Dispatches(n) ==
  \A k \in 1..Body :
    LET made == effects[<<n, k>>]
        flying == thr[n] = "inflight" /\ k = inner[n] + 1
    IN /\ k <= Progress(n) \/ flying => made >= 1
       /\ made >= 1 /\ <<n, k>> \notin Timed => made = 1 /\ (k <= Progress(n) \/ flying \/ FirstErr)

NodeInv(n) == Goroutine(n) /\ Results(n) /\ Dispatches(n)

\* The checkpoint an interrupted run waits on has kept all of that, and a run
\* succeeds with every node recorded.
Kept ==
  /\ status = "interrupted" => ~FirstErr /\ \A n \in Node : ~Live(n) /\ Progress(n) = Checkpointed(n)
  /\ status = "succeeded" => \A n \in Node : n \in memo

\* A checkpoint with a callee's frame has recorded the steps above the callee, and
\* every other callee that was launched with it; an attempt starts from all of it.
Carried ==
  /\ status = "running" => cp.memo \subseteq memo
  /\ \A n \in Node : Frame(cp.slot, n) # 0 =>
       \A m \in Node : m # n /\ (m \in Above(n) \/ (m \in Sub /\ LaunchedWith(m, n))) => m \in cp.memo

\* The inductive invariant.
IndInv == Sheltered /\ TypeOK /\ (\A n \in Node : NodeInv(n)) /\ Causes /\ Kept /\ Carried

-----------------------------------------------------------------------------
\* The constants.
LEMMA Sizes ==
  /\ Body \in Nat /\ Body >= 1
  /\ \A n \in Node : Length(n) \in 1..Body /\ (n \notin Sub => Length(n) = 1) /\ (n \in Sub => Length(n) = Body)
BY GraphAssumption DEF Length

\* An empty slot is a slot, and it is no frame.
LEMMA Empty == NoSlot \in Slot /\ NoSlot.kind = "none" /\ \A n \in Node : Frame(NoSlot, n) = 0
BY Sizes DEF NoSlot, Slot, Frame

\* The frame of a cause: that of a callee with a gate, before the gate.
LEMMA Framed ==
  ASSUME NEW s \in Slot, Cause(s), NEW n \in Node
  PROVE  /\ Frame(s, n) \in 0..(Length(n) - 1)
         /\ Frame(s, n) # 0 => n \in Sub /\ \E k \in 2..Body : <<n, k>> \in Gated
<1>1. CASE Frame(s, n) = 0
  BY <1>1, Sizes
<1>2. CASE Frame(s, n) # 0
  <2>1. n \in Sub /\ s.kind = "nested" /\ s.leaf[1] = n /\ Frame(s, n) = s.inner
    BY <1>2 DEF Frame
  <2>2. s # NoSlot
    BY <2>1, Empty
  <2>3. PICK m \in Node : /\ s = IF m \in Sub THEN NestedFrame(<<m, s.inner + 1>>, s.inner)
                                              ELSE DirectGate(<<m, 1>>)
                          /\ s.leaf \in Gated
    BY <2>2 DEF Cause
  <2>4. m \in Sub
    BY <2>1, <2>3 DEF DirectGate
  <2>5. s.leaf = <<m, s.inner + 1>>
    BY <2>3, <2>4 DEF NestedFrame
  <2>6. m = n
    BY <2>1, <2>5
  <2>7. s.inner \in 0..Body /\ s.inner + 1 \in 1..Body
    BY <2>3, <2>5, GraphAssumption DEF Leaf, Slot
  <2> QED
    BY <2>1, <2>3, <2>5, <2>6, <2>7, Sizes
<1> QED
  BY <1>1, <1>2

\* The initial states.
LEMMA InitInv == Sheltered /\ Init => IndInv
<1> SUFFICES ASSUME Sheltered, Init PROVE IndInv
  OBVIOUS
<1>1. TypeOK
  BY Sizes, Empty DEF Init, TypeOK, Checkpoint, Thread, Twice
<1>2. ASSUME NEW n \in Node PROVE NodeInv(n)
  <2>1. Progress(n) = 0
    BY Empty DEF Init, Progress
  <2>2. Goroutine(n)
    BY DEF Init, Goroutine
  <2>3. Results(n) /\ Dispatches(n)
    BY <2>1, Sizes DEF Init, Results, Dispatches, Leaf
  <2> QED
    BY <2>2, <2>3 DEF NodeInv
<1>3. Causes
  BY DEF Init, Causes, Cause, Presented
<1>4. Kept
  BY DEF Init, Kept
<1>5. Carried
  BY Empty DEF Init, Carried
<1> QED
  BY <1>1, <1>2, <1>3, <1>4, <1>5 DEF IndInv

\* The condition is one on the program.
LEMMA AboveStays == \A n, m \in Node : Above(n)' = Above(n) /\ LaunchedWith(n, m)' = LaunchedWith(n, m)
BY DEF Above, LaunchedWith

LEMMA ShelterStays == Sheltered' = Sheltered
BY DEF Sheltered, Alone, Harmless, LaunchedWith, Above

\* What is above a ready node has completed: the completed steps are a set that
\* holds, with a step, what it needs.
LEMMA AboveDone ==
  ASSUME \A x \in Node : NodeInv(x), NEW n \in Node, Ready(n), NEW m \in Above(n)
  PROVE  m \in Node /\ thr[m] = "done" /\ m \in memo
<1> DEFINE S == {x \in Node : thr[x] = "done"}
<1>1. Needs[n] \subseteq S
  BY GraphAssumption DEF Ready
<1>2. \A x \in S : Needs[x] \subseteq S
  BY GraphAssumption DEF NodeInv, Goroutine, Ready
<1>3. S \in SUBSET Node
  OBVIOUS
<1> HIDE DEF S
<1>4. m \in S
  BY <1>1, <1>2, <1>3 DEF Above
<1> QED
  BY <1>4 DEF S, NodeInv, Goroutine

\* A node launched with another is ready when that one is.
LEMMA LaunchedReady ==
  ASSUME \A x \in Node : NodeInv(x), NEW n \in Node, NEW m \in Node, LaunchedWith(n, m), Ready(m)
  PROVE  Ready(n)
<1>1. \A x \in Needs[n] : x \in Above(m)
  BY DEF LaunchedWith
<1> QED
  BY <1>1, AboveDone DEF Ready

\* An attempt adds to the memo and leaves the checkpoint alone.
LEMMA CarriedOn ==
  ASSUME Carried, status = "running", UNCHANGED cp, memo \subseteq memo' PROVE Carried'
BY DEF Carried, Frame

\* What one goroutine does leaves the other nodes as they were: a slot once taken
\* stays taken, by a frame if a frame took it.
LEMMA OthersKept ==
  ASSUME IndInv, status = "running", UNCHANGED <<status, cp>>, TypeOK', Causes',
         NEW n \in Node, thr[n] \in {"launched", "eval", "inflight"}, NodeInv(n)',
         NEW x \in Thread \ {"idle", "launched"}, thr' = [thr EXCEPT ![n] = x],
         \A m \in Node : m # n =>
           /\ inner'[m] = inner[m] /\ (m \in memo' <=> m \in memo) /\ Frame(seed', m) = Frame(seed, m)
           /\ \A k \in 1..Body : /\ returned'[<<m, k>>] = returned[<<m, k>>]
                                  /\ effects'[<<m, k>>] = effects[<<m, k>>],
         slot' = slot \/ (slot.kind # "nested" /\ slot' # NoSlot), memo \subseteq memo'
  PROVE  IndInv'
<1>1. thr'[n] = x /\ \A m \in Node : m # n => thr'[m] = thr[m]
  BY DEF IndInv, TypeOK
<1>2. FirstErr => FirstErr'
  BY <1>1 DEF FirstErr
<1>3. ASSUME NEW m \in Node, m # n PROVE NodeInv(m)'
  <2>1. NodeInv(m) /\ thr'[m] = thr[m] /\ Progress(m)' = Progress(m)
    BY <1>1, <1>3 DEF IndInv, Progress, Length
  <2>2. Ready(m) => Ready(m)'
    BY <1>1, GraphAssumption DEF Ready
  <2>3. slot # NoSlot => slot' # NoSlot
    OBVIOUS
  <2>4. Current(m)' = Current(m) /\ (slot = NestedFrame(Current(m), inner[m]) => slot' = slot)
    BY <1>3 DEF Current, NestedFrame
  <2>5. Goroutine(m)'
    <3>1. thr[m] = "idle" => \A y \in Node : LaunchedWith(m, y)' => thr'[y] = "idle"
      BY <1>1, <2>1, AboveStays DEF NodeInv, Goroutine
    <3> QED
      BY <1>2, <1>3, <2>1, <2>2, <2>3, <2>4, <3>1 DEF NodeInv, Goroutine, Length
  <2>6. Results(m)'
    BY <1>3, <2>1 DEF NodeInv, Results
  <2>7. Dispatches(m)'
    BY <1>2, <1>3, <2>1 DEF NodeInv, Dispatches
  <2> QED
    BY <2>5, <2>6, <2>7 DEF NodeInv
<1>4. Kept'
  BY DEF Kept
<1>5. Carried'
  BY CarriedOn DEF IndInv
<1> QED
  BY <1>3, <1>4, <1>5, ShelterStays DEF IndInv

\* The cause to present stays the one of a goroutine that stays suspended.
LEMMA CausesKept ==
  ASSUME IndInv, status = "running", UNCHANGED <<status, cp, slot>>, seed' \in {seed, NoSlot},
         NEW n \in Node, thr[n] # "suspended", NEW x, thr' = [thr EXCEPT ![n] = x],
         \A m \in Node : m # n => inner'[m] = inner[m]
  PROVE  Causes'
<1>1. \A m \in Node : m # n => thr'[m] = thr[m]
  BY DEF IndInv, TypeOK
<1>2. Presented'
  BY <1>1 DEF IndInv, Causes, Presented, Current
<1> QED
  BY <1>2 DEF IndInv, Causes

\* What the invariant says of a goroutine that evaluates or waits for a leaf.
LEMMA Evaluating ==
  ASSUME IndInv, NEW n \in Node, thr[n] \in {"eval", "inflight"}
  PROVE  /\ n \notin memo /\ Progress(n) = inner[n] /\ inner[n] \in 0..(Length(n) - 1)
         /\ Current(n) \in Leaf /\ Current(n) = <<n, inner[n] + 1>> /\ inner[n] + 1 \in 1..Length(n)
         /\ Ready(n) /\ n \notin Needs[n] /\ Results(n) /\ Dispatches(n)
<1>1. NodeInv(n) /\ inner[n] \in 0..Body
  BY DEF IndInv, TypeOK
<1>2. n \notin memo /\ inner[n] < Length(n) /\ Ready(n)
  BY <1>1 DEF NodeInv, Goroutine
<1>3. Progress(n) = inner[n]
  BY <1>2 DEF Progress
<1>4. inner[n] \in 0..(Length(n) - 1) /\ inner[n] + 1 \in 1..Length(n) /\ inner[n] + 1 \in 1..Body
  BY <1>1, <1>2, Sizes
<1> QED
  BY <1>1, <1>2, <1>3, <1>4 DEF Current, Leaf, Ready, NodeInv

\* The goroutine of n moves on to x and everything else stays: it gave up, was
\* refused or was cancelled.
LEMMA EndStep ==
  ASSUME IndInv, status = "running", UNCHANGED <<status, cp, options, memo, slot, inner, effects, returned>>,
         NEW n \in Node, thr[n] \in {"eval", "inflight"},
         NEW x \in {"failed", "abandoned"}, thr' = [thr EXCEPT ![n] = x],
         x = "abandoned" => \/ FirstErr
                            \/ n \notin Sub /\ thr[n] = "inflight" /\ Current(n) \in Timed,
         seed' = seed \/ (seed' = NoSlot /\ \A m \in Node : m # n => Frame(seed, m) = 0)
  PROVE  IndInv'
<1>1. /\ n \notin memo /\ Progress(n) = inner[n] /\ inner[n] \in 0..(Length(n) - 1)
      /\ Current(n) = <<n, inner[n] + 1>> /\ Ready(n) /\ n \notin Needs[n] /\ Results(n) /\ Dispatches(n)
  BY Evaluating
<1>2. /\ thr' \in [Node -> Thread] /\ thr'[n] = x
      /\ \A m \in Node : m # n => thr'[m] = thr[m]
  BY DEF IndInv, TypeOK, Thread
<1>3. TypeOK'
  BY <1>2, Empty DEF IndInv, TypeOK
<1>4. Causes'
  BY CausesKept
<1>5. x = "failed" \/ FirstErr => FirstErr'
  BY <1>2 DEF FirstErr
<1>6. Progress(n)' = Progress(n)
  BY <1>1, <1>2 DEF Progress
<1>7. Goroutine(n)'
  BY <1>1, <1>2, <1>5, GraphAssumption DEF Goroutine, Ready, Length
<1>8. Results(n)'
  BY <1>1, <1>6 DEF Results
<1>9. Dispatches(n)'
  BY <1>1, <1>2, <1>5, <1>6 DEF Dispatches
<1>10. NodeInv(n)'
  BY <1>7, <1>8, <1>9 DEF NodeInv
<1>11. \A m \in Node : m # n => Frame(seed', m) = Frame(seed, m)
  BY Empty
<1>12. x \in Thread \ {"idle", "launched"}
  BY DEF Thread
<1> QED
  BY <1>3, <1>4, <1>10, <1>11, <1>12, OthersKept

\* A goroutine gets the semaphore: it replays its result or takes its frame.
LEMMA StartStep == ASSUME IndInv, NEW n \in Node, Start(n) PROVE IndInv'
<1> DEFINE x == IF n \in memo THEN "done" ELSE "eval"
<1>1. /\ status = "running" /\ thr[n] = "launched" /\ thr' = [thr EXCEPT ![n] = x]
      /\ inner' = [inner EXCEPT ![n] = Frame(seed, n)]
      /\ UNCHANGED <<status, cp, options, memo, seed, slot, effects, returned>>
  BY DEF Start, durable, Frame
<1>2. Frame(seed, n) \in 0..(Length(n) - 1)
  <2>1. seed \in {NoSlot, cp.slot} /\ Cause(cp.slot) /\ cp.slot \in Slot
    BY <1>1 DEF IndInv, Causes, TypeOK, Checkpoint
  <2> QED
    BY <2>1, Framed, Empty, Sizes
<1>3. /\ thr' \in [Node -> Thread] /\ thr'[n] = x /\ inner' \in [Node -> 0..Body]
      /\ inner'[n] = Frame(seed, n)
      /\ \A m \in Node : m # n => thr'[m] = thr[m] /\ inner'[m] = inner[m]
  BY <1>1, <1>2, Sizes DEF IndInv, TypeOK, Thread
<1>4. TypeOK'
  BY <1>1, <1>3 DEF IndInv, TypeOK
<1>5. Causes'
  BY <1>1, <1>3, CausesKept
<1>6. Progress(n)' = Progress(n)
  BY <1>1, <1>3 DEF Progress, Length
<1>7. NodeInv(n) /\ Ready(n) /\ n \notin Needs[n]
  BY <1>1 DEF IndInv, NodeInv, Goroutine, Ready
<1>8. Goroutine(n)'
  BY <1>1, <1>2, <1>3, <1>7, Sizes, GraphAssumption DEF Goroutine, Ready, Length
<1>9. Results(n)'
  BY <1>1, <1>6, <1>7 DEF NodeInv, Results
<1>10. Dispatches(n)'
  <2>1. FirstErr => FirstErr'
    BY <1>1, <1>3 DEF FirstErr
  <2> QED
    BY <1>1, <1>3, <1>6, <1>7, <2>1 DEF NodeInv, Dispatches
<1>11. NodeInv(n)'
  BY <1>8, <1>9, <1>10 DEF NodeInv
<1>12. x \in Thread \ {"idle", "launched"}
  BY DEF Thread
<1> QED
  BY <1>1, <1>3, <1>4, <1>5, <1>11, <1>12, OthersKept

\* The decided gate is the seed's, and no other node's frame depends on it.
LEMMA SeedOwner ==
  ASSUME NEW n \in Node, Resolves(n), NEW m \in Node, m # n
  PROVE  Frame(seed, m) = 0
BY DEF Resolves, ClaimsPending, Current, Frame

\* A call leaves the process, for the first time unless it was given up before.
LEMMA CallStep == ASSUME IndInv, NEW n \in Node, Call(n) \/ Approve(n) PROVE IndInv'
<1>1. /\ status = "running" /\ thr[n] = "eval" /\ ~FirstErr /\ thr' = [thr EXCEPT ![n] = "inflight"]
      /\ effects' = [effects EXCEPT ![Current(n)] = Bump(@)]
      /\ UNCHANGED <<status, cp, options, memo, slot, inner, returned>>
      /\ seed' = seed \/ (seed' = NoSlot /\ Resolves(n))
  BY DEF Call, Approve, Dispatched, durable
<1>2. /\ n \notin memo /\ Progress(n) = inner[n] /\ inner[n] \in 0..(Length(n) - 1)
      /\ Current(n) \in Leaf /\ Current(n) = <<n, inner[n] + 1>>
      /\ Ready(n) /\ n \notin Needs[n] /\ Results(n) /\ Dispatches(n)
  BY <1>1, Evaluating
<1>3. /\ thr' \in [Node -> Thread] /\ thr'[n] = "inflight"
      /\ \A m \in Node : m # n => thr'[m] = thr[m]
  BY <1>1 DEF IndInv, TypeOK, Thread
<1>4. /\ effects' \in [Leaf -> 0..Twice] /\ effects'[Current(n)] = Bump(effects[Current(n)])
      /\ \A l \in Leaf : l # Current(n) => effects'[l] = effects[l]
      /\ effects[Current(n)] \in 0..Twice
  BY <1>1, <1>2 DEF IndInv, TypeOK, Bump, Twice
<1>5. TypeOK'
  BY <1>1, <1>3, <1>4, Empty DEF IndInv, TypeOK
<1>6. Causes'
  BY <1>1, CausesKept
<1>7. Progress(n)' = Progress(n)
  BY <1>1, <1>2, <1>3 DEF Progress
<1>8. Goroutine(n)'
  BY <1>1, <1>2, <1>3, GraphAssumption DEF Goroutine, Ready, Length
<1>9. Results(n)'
  BY <1>1, <1>2, <1>7 DEF Results
<1>10. Dispatches(n)'
  <2>1. Current(n) \notin Timed => effects[Current(n)] = 0
    BY <1>1, <1>2, <1>4, Sizes DEF Dispatches, Twice
  <2>2. effects'[Current(n)] >= 1 /\ (Current(n) \notin Timed => effects'[Current(n)] = 1)
    BY <1>4, <2>1 DEF Bump, Twice
  <2>3. ASSUME NEW k \in 1..Body, k # inner[n] + 1 PROVE effects'[<<n, k>>] = effects[<<n, k>>]
    BY <1>2, <1>4, <2>3 DEF Leaf
  <2> QED
    BY <1>1, <1>2, <1>3, <1>7, <2>2, <2>3 DEF Dispatches
<1>11. NodeInv(n)'
  BY <1>8, <1>9, <1>10 DEF NodeInv
<1>12. ASSUME NEW m \in Node, m # n
       PROVE  /\ Frame(seed', m) = Frame(seed, m)
              /\ \A k \in 1..Body : effects'[<<m, k>>] = effects[<<m, k>>]
  BY <1>1, <1>2, <1>4, <1>12, Empty, SeedOwner DEF Leaf
<1>13. "inflight" \in Thread \ {"idle", "launched"}
  BY DEF Thread
<1> QED
  BY <1>1, <1>5, <1>6, <1>11, <1>12, <1>13, OthersKept

\* An undecided gate: the goroutine suspends, with a cause to present, or as the
\* second suspended callee it fails.
LEMMA PauseStep == ASSUME IndInv, NEW n \in Node, Pause(n) PROVE IndInv'
<1>1. /\ status = "running" /\ thr[n] = "eval" /\ Current(n) \in Gated
      /\ UNCHANGED <<status, cp, options, memo, seed, inner, effects, returned>>
  BY DEF Pause, durable
<1>2. CASE n \in Sub /\ NestedRefused(slot)
  <2>1. slot' = slot /\ thr' = [thr EXCEPT ![n] = "failed"]
    BY <1>2 DEF Pause, SetNestedIfFirst
  <2> QED
    BY <1>1, <2>1, EndStep
<1>3. CASE ~(n \in Sub /\ NestedRefused(slot))
  <2>1. /\ thr' = [thr EXCEPT ![n] = "suspended"]
        /\ \/ n \in Sub /\ slot.kind # "nested" /\ slot' = NestedFrame(Current(n), inner[n])
           \/ n \notin Sub /\ slot.kind = "none" /\ slot' = DirectGate(Current(n))
           \/ n \notin Sub /\ slot.kind # "none" /\ slot' = slot
    BY <1>3 DEF Pause, SetNestedIfFirst, SetPendingIfFirst, NestedRefused
  <2>2. /\ n \notin memo /\ Progress(n) = inner[n] /\ inner[n] \in 0..(Length(n) - 1)
        /\ Current(n) \in Leaf /\ Current(n) = <<n, inner[n] + 1>>
        /\ Ready(n) /\ n \notin Needs[n] /\ Results(n) /\ Dispatches(n)
    BY <1>1, Evaluating
  <2>3. /\ thr' \in [Node -> Thread] /\ thr'[n] = "suspended"
        /\ \A m \in Node : m # n => thr'[m] = thr[m]
    BY <2>1 DEF IndInv, TypeOK, Thread
  <2>4. n \notin Sub => inner[n] = 0
    BY <2>2, Sizes
  <2>5. slot \in Slot /\ Cause(slot) /\ Presented
    BY DEF IndInv, TypeOK, Causes
  <2>6. CASE slot' = slot /\ slot.kind # "none" /\ n \notin Sub
    <3>1. slot # NoSlot
      BY <2>6, Empty
    <3>2. Causes'
      BY <1>1, <2>1, <2>6, CausesKept
    <3>3. TypeOK'
      BY <1>1, <2>3, <2>6 DEF IndInv, TypeOK
    <3>4. Progress(n)' = Progress(n)
      BY <1>1, <2>2, <2>3 DEF Progress
    <3>5. Goroutine(n)'
      BY <1>1, <2>2, <2>3, <2>6, <3>1, GraphAssumption DEF Goroutine, Ready, Length, Current
    <3>6. FirstErr => FirstErr'
      BY <1>1, <2>3 DEF FirstErr
    <3>7. Results(n)' /\ Dispatches(n)'
      BY <1>1, <2>2, <2>3, <3>4, <3>6 DEF Results, Dispatches
    <3> QED
      BY <1>1, <2>1, <2>6, <3>2, <3>3, <3>5, <3>7, OthersKept DEF NodeInv, Thread
  <2>7. CASE /\ slot.kind # "nested" /\ slot' = IF n \in Sub THEN NestedFrame(Current(n), inner[n])
                                                              ELSE DirectGate(Current(n))
    <3>1. /\ slot' \in Slot /\ slot'.leaf = Current(n) /\ slot'.inner = inner[n]
          /\ slot'.kind # "none" /\ slot' # NoSlot
      <4>1. inner[n] \in 0..Body
        BY DEF IndInv, TypeOK
      <4>2. CASE n \in Sub
        BY <2>2, <2>7, <4>1, <4>2, Empty DEF NestedFrame, Slot
      <4>3. CASE n \notin Sub
        BY <2>2, <2>4, <2>7, <4>1, <4>3, Empty DEF DirectGate, Slot
      <4> QED
        BY <4>2, <4>3
    <3>2. Cause(slot)'
      <4>1. slot' = IF n \in Sub THEN NestedFrame(<<n, slot'.inner + 1>>, slot'.inner)
                                 ELSE DirectGate(<<n, 1>>)
        BY <2>2, <2>4, <2>7, <3>1
      <4> QED
        BY <1>1, <3>1, <4>1 DEF Cause
    <3>3. Presented'
      BY <1>1, <2>3, <3>1 DEF Presented, Current
    <3>4. Causes'
      BY <1>1, <3>2, <3>3 DEF IndInv, Causes
    <3>5. TypeOK'
      BY <1>1, <2>3, <3>1 DEF IndInv, TypeOK
    <3>6. Progress(n)' = Progress(n)
      BY <1>1, <2>2, <2>3 DEF Progress
    <3>7. Goroutine(n)'
      BY <1>1, <2>2, <2>3, <2>7, <3>1, GraphAssumption DEF Goroutine, Ready, Length, Current
    <3>8. FirstErr => FirstErr'
      BY <1>1, <2>3 DEF FirstErr
    <3>9. Results(n)' /\ Dispatches(n)'
      BY <1>1, <2>2, <2>3, <3>6, <3>8 DEF Results, Dispatches
    <3> QED
      BY <1>1, <2>1, <2>7, <3>1, <3>4, <3>5, <3>7, <3>9, OthersKept DEF NodeInv, Thread
  <2> QED
    BY <2>1, <2>6, <2>7
<1> QED
  BY <1>2, <1>3

\* A result arrives: the leaf's first, and with a callee's last its node's.
LEMMA ReturnStep == ASSUME IndInv, NEW n \in Node, Return(n) PROVE IndInv'
<1> DEFINE last == inner[n] + 1 = Length(n)
           x == IF last THEN "done" ELSE "eval"
<1>1. /\ status = "running" /\ thr[n] = "inflight" /\ thr' = [thr EXCEPT ![n] = x]
      /\ inner' = [inner EXCEPT ![n] = inner[n] + 1]
      /\ returned' = [returned EXCEPT ![Current(n)] = Bump(@)]
      /\ memo' = IF last THEN memo \cup {n} ELSE memo
      /\ UNCHANGED <<status, cp, options, seed, slot, effects>>
  BY DEF Return, durable
<1>2. /\ n \notin memo /\ Progress(n) = inner[n] /\ inner[n] \in 0..(Length(n) - 1)
      /\ Current(n) \in Leaf /\ Current(n) = <<n, inner[n] + 1>> /\ inner[n] + 1 \in 1..Length(n)
      /\ Ready(n) /\ n \notin Needs[n] /\ Results(n) /\ Dispatches(n)
  BY <1>1, Evaluating
<1>3. /\ thr' \in [Node -> Thread] /\ thr'[n] = x /\ inner' \in [Node -> 0..Body]
      /\ inner'[n] = inner[n] + 1
      /\ \A m \in Node : m # n => thr'[m] = thr[m] /\ inner'[m] = inner[m]
  BY <1>1, <1>2, Sizes DEF IndInv, TypeOK, Thread
<1>4. /\ returned' \in [Leaf -> 0..Twice] /\ returned'[Current(n)] = Bump(returned[Current(n)])
      /\ \A l \in Leaf : l # Current(n) => returned'[l] = returned[l]
  BY <1>1, <1>2 DEF IndInv, TypeOK, Bump, Twice
<1>5. TypeOK'
  BY <1>1, <1>3, <1>4 DEF IndInv, TypeOK
<1>6. Causes'
  BY <1>1, <1>3, CausesKept
<1>7. Progress(n)' = inner[n] + 1
  BY <1>1, <1>2, <1>3 DEF Progress, Length
<1>8. Goroutine(n)'
  BY <1>1, <1>2, <1>3, Sizes, GraphAssumption DEF Goroutine, Ready, Length
<1>9. Results(n)'
  <2>1. returned'[Current(n)] = 1
    BY <1>2, <1>4, Sizes DEF Results, Bump, Twice
  <2>2. ASSUME NEW k \in 1..Body, k # inner[n] + 1
        PROVE  /\ returned'[<<n, k>>] = returned[<<n, k>>]
               /\ k <= inner[n] + 1 <=> k <= inner[n]
    BY <1>2, <1>4, <2>2, Sizes DEF Leaf
  <2> QED
    BY <1>2, <1>7, <2>1, <2>2, Sizes DEF Results
<1>10. Dispatches(n)'
  <2>1. FirstErr => FirstErr'
    BY <1>1, <1>3 DEF FirstErr
  <2>2. ASSUME NEW k \in 1..Body
        PROVE  k <= inner[n] + 1 <=> k <= inner[n] \/ k = inner[n] + 1
    BY <1>2, Sizes
  <2> QED
    BY <1>1, <1>2, <1>3, <1>7, <2>1, <2>2 DEF Dispatches
<1>11. NodeInv(n)'
  BY <1>8, <1>9, <1>10 DEF NodeInv
<1>12. ASSUME NEW m \in Node, m # n
       PROVE  /\ m \in memo' <=> m \in memo
              /\ Frame(seed', m) = Frame(seed, m)
              /\ \A k \in 1..Body : /\ returned'[<<m, k>>] = returned[<<m, k>>]
                                     /\ effects'[<<m, k>>] = effects[<<m, k>>]
  BY <1>1, <1>2, <1>4, <1>12 DEF Leaf
<1>13. x \in Thread \ {"idle", "launched"}
  BY DEF Thread
<1> HIDE DEF x, last
<1> QED
  BY <1>1, <1>3, <1>5, <1>6, <1>11, <1>12, <1>13, OthersKept

\* A deadline passes: a callee's only where no other step can have paused.
LEMMA TimeoutStep == ASSUME IndInv, NEW n \in Node, Timeout(n) PROVE IndInv'
<1>1. /\ status = "running" /\ thr[n] = "inflight" /\ Current(n) \in Timed
      /\ thr' = [thr EXCEPT ![n] = IF Suspended \/ FirstErr THEN "abandoned" ELSE "failed"]
      /\ UNCHANGED <<status, cp, options, memo, seed, slot, inner, effects, returned>>
  BY DEF Timeout, durable
<1>2. ASSUME Suspended, n \in Sub PROVE FALSE
  <2>1. PICK m \in Node : thr[m] = "suspended"
    BY <1>2 DEF Suspended
  <2>2. Current(m) \in Gated /\ Current(m)[1] = m
    BY <2>1 DEF IndInv, NodeInv, Goroutine, Current
  <2>3. Current(n) = <<n, inner[n] + 1>> /\ inner[n] + 1 \in 1..Body
    BY <1>1, Evaluating, Sizes
  <2>4. Alone(n)
    BY <1>1, <1>2, <2>3 DEF IndInv, Sheltered
  <2> QED
    BY <1>1, <2>1, <2>2, <2>4 DEF Alone
<1>3. CASE Suspended \/ FirstErr
  BY <1>1, <1>2, <1>3, EndStep
<1>4. CASE ~(Suspended \/ FirstErr)
  BY <1>1, <1>4, EndStep
<1> QED
  BY <1>3, <1>4

\* A refused gate, a failed call and a cancelled sibling.
LEMMA GiveUpStep == ASSUME IndInv, NEW n \in Node, Refuse(n) \/ Fail(n) \/ Abandon(n) PROVE IndInv'
<1>1. CASE Refuse(n)
  BY <1>1, EndStep, SeedOwner DEF Refuse, durable
<1>2. CASE Fail(n)
  BY <1>2, EndStep DEF Fail, durable
<1>3. CASE Abandon(n)
  BY <1>3, EndStep DEF Abandon, durable
<1> QED
  BY <1>1, <1>2, <1>3

\* A step of a goroutine.
LEMMA GoroutineStep == ASSUME IndInv, NEW n \in Node, Step(n) PROVE IndInv'
BY StartStep, CallStep, PauseStep, ReturnStep, TimeoutStep, GiveUpStep DEF Step

\* The ready nodes are launched, the roots among them at once.
LEMMA ScheduleStep == ASSUME IndInv, Schedule PROVE IndInv'
<1>1. /\ status = "running" /\ thr' = [n \in Node |-> IF n \in Schedulable THEN "launched" ELSE thr[n]]
      /\ UNCHANGED <<status, cp, options, memo, seed, slot, inner, effects, returned>>
  BY DEF Schedule, durable
<1>2. \A n \in Node : thr'[n] = thr[n] \/ (thr[n] = "idle" /\ Ready(n) /\ thr'[n] = "launched")
  BY <1>1 DEF Schedulable
<1>3. TypeOK'
  BY <1>1 DEF IndInv, TypeOK, Thread
<1>4. FirstErr' = FirstErr
  BY <1>2 DEF FirstErr
<1>5. Causes'
  BY <1>1, <1>2 DEF IndInv, Causes, Presented, Current
<1>6. ASSUME NEW n \in Node PROVE NodeInv(n)'
  <2>1. Progress(n)' = Progress(n) /\ NodeInv(n)
    BY <1>1, <1>2 DEF IndInv, Progress, Length
  <2>2. Ready(n) => Ready(n)'
    BY <1>2, GraphAssumption DEF Ready
  <2>3. ASSUME thr'[n] = "idle", NEW m \in Node, LaunchedWith(n, m)' PROVE thr'[m] = "idle"
    <3>1. LaunchedWith(n, m) /\ thr[n] = "idle" /\ ~Ready(n)
      BY <1>1, <2>3, AboveStays DEF Schedulable
    <3>2. thr[m] = "idle" /\ ~Ready(m)
      BY <2>1, <3>1, LaunchedReady DEF IndInv, NodeInv, Goroutine
    <3> QED
      BY <1>2, <3>2
  <2>4. Goroutine(n)'
    BY <1>1, <1>2, <1>4, <2>1, <2>2, <2>3 DEF NodeInv, Goroutine, Length, Current
  <2>5. Results(n)' /\ Dispatches(n)'
    BY <1>1, <1>2, <1>4, <2>1 DEF NodeInv, Results, Dispatches
  <2> QED
    BY <2>4, <2>5 DEF NodeInv
<1>7. Kept'
  BY <1>1 DEF Kept
<1>8. Carried'
  BY <1>1, CarriedOn DEF IndInv
<1> QED
  BY <1>3, <1>5, <1>6, <1>7, <1>8, ShelterStays DEF IndInv

\* A step that only ends or pauses the run keeps what concerns the nodes.
LEMMA NodesKept ==
  ASSUME IndInv, UNCHANGED <<memo, seed, slot, thr, inner, effects, returned>>
  PROVE  (\A n \in Node : NodeInv(n)') /\ FirstErr' = FirstErr
<1>1. FirstErr' = FirstErr
  BY DEF FirstErr
<1>2. ASSUME NEW n \in Node PROVE NodeInv(n)'
  <2>1. Progress(n)' = Progress(n) /\ NodeInv(n)
    BY DEF IndInv, Progress, Length
  <2>2. Goroutine(n)'
    BY <1>1, <2>1 DEF NodeInv, Goroutine, Length, Current, Ready
  <2>3. Results(n)' /\ Dispatches(n)'
    BY <1>1, <2>1 DEF NodeInv, Results, Dispatches
  <2> QED
    BY <2>2, <2>3 DEF NodeInv
<1> QED
  BY <1>1, <1>2

\* The run pauses: nothing its nodes have come to is lost.
LEMMA InterruptStep == ASSUME IndInv, Interrupt PROVE IndInv'
<1>1. /\ status = "running" /\ ~FirstErr /\ Suspended /\ \A n \in Node : ~Live(n)
      /\ cp' = [memo |-> memo, slot |-> slot] /\ status' = "interrupted"
      /\ UNCHANGED <<options, memo, seed, slot, thr, inner, effects, returned>>
  BY DEF Interrupt, Joined, session
<1>2. TypeOK'
  BY <1>1 DEF IndInv, TypeOK, Checkpoint
<1>3. (\A n \in Node : NodeInv(n)') /\ ~FirstErr'
  BY <1>1, NodesKept
<1>4. Causes'
  BY <1>1 DEF IndInv, Causes, Presented, Current
<1>5. PICK p \in Node : thr[p] = "suspended" /\ Current(p) \in Gated /\ Current(p)[1] = p
  BY <1>1 DEF Suspended, IndInv, NodeInv, Goroutine, Current
<1>6. ASSUME NEW n \in Node PROVE Progress(n)' = Checkpointed(n)'
  <2>1. Progress(n)' = Progress(n) /\ NodeInv(n)
    BY <1>1 DEF IndInv, Progress, Length
  <2>2. Checkpointed(n)' = IF n \in memo THEN Length(n) ELSE Frame(slot, n)
    BY <1>1 DEF Checkpointed, Length
  <2>3. ASSUME n \notin memo PROVE Progress(n) = Frame(slot, n)
    <3>1. thr[n] \in {"idle", "suspended", "abandoned"}
      <4>1. thr[n] \in Thread
        BY DEF IndInv, TypeOK
      <4> QED
        BY <1>1, <2>1, <2>3, <4>1 DEF Thread, Live, FirstErr, NodeInv, Goroutine
    <3>2. thr[n] # "suspended" => Frame(slot, n) = 0
      <4>1. CASE slot = NoSlot
        BY <4>1, Empty
      <4>2. CASE slot # NoSlot
        <5>1. PICK m \in Node : thr[m] = "suspended" /\ slot.leaf = Current(m)
          BY <4>2 DEF IndInv, Causes, Presented
        <5> QED
          BY <5>1 DEF Frame, Current
      <4> QED
        BY <4>1, <4>2
    <3>3. CASE thr[n] = "idle"
      <4>1. Progress(n) = Frame(seed, n)
        BY <2>3, <3>3 DEF Progress
      <4>2. Frame(seed, n) # 0 => n \in Sub /\ \E k \in 2..Body : <<n, k>> \in Gated
        <5>1. seed \in {NoSlot, cp.slot} /\ Cause(cp.slot) /\ cp.slot \in Slot
          BY <1>1 DEF IndInv, Causes, TypeOK, Checkpoint
        <5> QED
          BY <5>1, Framed, Empty
      <4>4. Frame(seed, n) = 0
        <5> SUFFICES ASSUME Frame(seed, n) # 0 PROVE FALSE
          OBVIOUS
        <5>1. Harmless(n, p)
          BY <1>5, <4>2 DEF IndInv, Sheltered
        <5>2. seed = cp.slot
          BY <1>1, Empty DEF IndInv, Causes
        <5>3. p \notin memo /\ p # n
          BY <1>5, <3>3 DEF IndInv, NodeInv, Goroutine
        <5>4. ~LaunchedWith(n, p)
          BY <1>5, <2>1, <3>3 DEF NodeInv, Goroutine
        <5>5. p \notin Above(n) /\ ~(p \in Sub /\ LaunchedWith(p, n))
          BY <1>1, <5>2, <5>3 DEF IndInv, Carried
        <5> QED
          BY <5>1, <5>4, <5>5 DEF Harmless
      <4> QED
        BY <3>2, <3>3, <4>1, <4>4
    <3>4. CASE thr[n] = "abandoned"
      <4>1. n \notin Sub /\ inner[n] < Length(n) /\ inner[n] \in 0..Body
        BY <1>1, <2>1, <3>4 DEF NodeInv, Goroutine, IndInv, TypeOK
      <4>2. inner[n] = 0
        BY <4>1, Sizes
      <4> QED
        BY <2>3, <3>2, <3>4, <4>2 DEF Progress
    <3>5. CASE thr[n] = "suspended"
      <4>1. Progress(n) = inner[n] /\ inner[n] < Length(n) /\ inner[n] \in 0..Body
        BY <2>1, <2>3, <3>5 DEF Progress, NodeInv, Goroutine, IndInv, TypeOK
      <4>2. CASE n \in Sub
        BY <2>1, <3>5, <4>1, <4>2 DEF NodeInv, Goroutine, Frame, NestedFrame, Current
      <4>3. CASE n \notin Sub
        BY <4>1, <4>3, Sizes DEF Frame
      <4> QED
        BY <4>2, <4>3
    <3> QED
      BY <3>1, <3>3, <3>4, <3>5
  <2> QED
    BY <2>1, <2>2, <2>3 DEF Progress
<1>7. Kept'
  BY <1>1, <1>3, <1>6 DEF Kept, Live
<1>8. ASSUME NEW n \in Node, Frame(slot, n) # 0, NEW m \in Node, m # n,
             m \in Above(n) \/ (m \in Sub /\ LaunchedWith(m, n))
      PROVE  m \in memo
  <2>1. slot # NoSlot /\ slot.leaf[1] = n
    BY <1>8, Empty DEF Frame
  <2>2. thr[n] = "suspended" /\ NodeInv(n) /\ NodeInv(m)
    BY <2>1 DEF IndInv, Causes, Presented, Current
  <2>3. CASE m \in Above(n)
    BY <2>2, <2>3, AboveDone DEF IndInv, NodeInv, Goroutine
  <2>4. CASE m \in Sub /\ LaunchedWith(m, n)
    <3>1. thr[m] \in Thread /\ thr[m] # "idle"
      BY <2>2, <2>4 DEF IndInv, TypeOK, NodeInv, Goroutine
    <3>2. thr[m] # "suspended"
      BY <1>8, <2>1, <2>2, <2>4 DEF NodeInv, Goroutine, NestedFrame, Current
    <3>3. thr[m] # "abandoned" /\ thr[m] # "failed" /\ ~Live(m)
      BY <1>1, <2>2, <2>4 DEF FirstErr, NodeInv, Goroutine
    <3> QED
      BY <2>2, <3>1, <3>2, <3>3 DEF Thread, Live, NodeInv, Goroutine
  <2> QED
    BY <1>8, <2>3, <2>4
<1>9. Carried'
  <2>1. status' # "running" /\ cp'.slot = slot /\ cp'.memo = memo
    BY <1>1
  <2> QED
    BY <1>8, <2>1, AboveStays DEF Carried
<1> QED
  BY <1>2, <1>3, <1>4, <1>7, <1>9, ShelterStays DEF IndInv

\* The run ends.
LEMMA EndRunStep == ASSUME IndInv, FailRun \/ Finish PROVE IndInv'
<1>1. /\ status = "running" /\ status' \in {"failed", "succeeded"}
      /\ UNCHANGED <<cp, options, memo, seed, slot, thr, inner, effects, returned>>
      /\ status' = "succeeded" => \A n \in Node : thr[n] = "done"
  BY DEF FailRun, Finish, Joined, session
<1>2. TypeOK'
  BY <1>1 DEF IndInv, TypeOK
<1>3. \A n \in Node : NodeInv(n)'
  BY <1>1, NodesKept
<1>4. Causes'
  BY <1>1 DEF IndInv, Causes, Presented, Current
<1>5. Kept'
  BY <1>1 DEF IndInv, NodeInv, Goroutine, Kept
<1>6. Carried'
  BY <1>1 DEF IndInv, Carried
<1> QED
  BY <1>2, <1>3, <1>4, <1>5, <1>6, ShelterStays DEF IndInv

\* A resume goes on from the checkpoint.
LEMMA ResumeStep == ASSUME IndInv, NEW opt \in Options, Resume(opt) PROVE IndInv'
<1>1. /\ status = "interrupted" /\ status' = "running" /\ options' = opt /\ memo' = cp.memo
      /\ seed' = cp.slot /\ slot' = NoSlot /\ thr' = [n \in Node |-> "idle"]
      /\ inner' = [n \in Node |-> 0] /\ UNCHANGED <<cp, effects, returned>>
  BY DEF Resume, Seeded
<1>2. TypeOK'
  BY <1>1, Empty, Sizes DEF IndInv, TypeOK, Checkpoint, Thread
<1>3. ~FirstErr /\ ~FirstErr' /\ \A n \in Node : thr'[n] = "idle"
  BY <1>1 DEF IndInv, Kept, FirstErr
<1>4. Causes'
  BY <1>1 DEF IndInv, Causes, Cause, Presented
<1>5. ASSUME NEW n \in Node PROVE NodeInv(n)'
  <2>1. Progress(n)' = Progress(n) /\ NodeInv(n)
    <3>1. Progress(n) = Checkpointed(n)
      BY <1>1 DEF IndInv, Kept
    <3>2. Progress(n)' = Checkpointed(n)
      BY <1>1, <1>3 DEF Progress, Checkpointed, Length
    <3> QED
      BY <3>1, <3>2 DEF IndInv
  <2>2. Goroutine(n)'
    BY <1>3 DEF Goroutine
  <2>3. Results(n)'
    BY <1>1, <2>1 DEF NodeInv, Results
  <2>4. Dispatches(n)'
    <3>1. thr[n] # "inflight" /\ thr'[n] # "inflight"
      BY <1>1, <1>3 DEF IndInv, Kept, Live
    <3> QED
      BY <1>1, <1>3, <2>1, <3>1 DEF NodeInv, Dispatches
  <2> QED
    BY <2>2, <2>3, <2>4 DEF NodeInv
<1>6. Kept'
  BY <1>1 DEF Kept
<1>7. Carried'
  BY <1>1 DEF IndInv, Carried
<1> QED
  BY <1>2, <1>4, <1>5, <1>6, <1>7, ShelterStays DEF IndInv

\* Every step of the specification keeps the invariant.
LEMMA NextInv == IndInv /\ [Next]_vars => IndInv'
<1> SUFFICES ASSUME IndInv, [Next]_vars PROVE IndInv'
  OBVIOUS
<1>1. CASE UNCHANGED vars
  <2>1. \A n \in Node : NodeInv(n)'
    BY <1>1, NodesKept DEF vars
  <2>2. TypeOK' /\ Causes'
    BY <1>1 DEF vars, IndInv, TypeOK, Causes, Presented, Current
  <2>3. Kept'
    BY <1>1 DEF vars, IndInv, Kept, FirstErr, Progress, Checkpointed, Length, Live
  <2>4. Carried'
    BY <1>1 DEF vars, IndInv, Carried
  <2> QED
    BY <2>1, <2>2, <2>3, <2>4, ShelterStays DEF IndInv
<1> QED
  BY <1>1, GoroutineStep, ScheduleStep, InterruptStep, EndRunStep, ResumeStep DEF Next, Terminated

\* The inductive invariant holds in every reachable state.
LEMMA Invariance == Sheltered /\ Spec => []IndInv
BY InitInv, NextInv, PTL DEF Spec

-----------------------------------------------------------------------------
\* S7 of docs/SOUNDNESS.md: no call without a deadline leaves the process twice,
\* whatever the order of branches, suspensions and resumes (claimPending, the
\* memo and the seeded frame of execir_invoker.go).
THEOREM NoEffectTwice == Sheltered /\ Spec => []EffectOnce
<1>1. IndInv => EffectOnce
  <2> SUFFICES ASSUME IndInv, NEW l \in Leaf \ Timed PROVE effects[l] <= 1
    BY DEF EffectOnce
  <2>1. PICK n \in Node, k \in 1..Body : l = <<n, k>>
    BY DEF Leaf
  <2>2. effects[l] \in 0..Twice
    BY DEF IndInv, TypeOK
  <2>3. effects[<<n, k>>] >= 1 /\ <<n, k>> \notin Timed => effects[<<n, k>>] = 1
    BY DEF IndInv, NodeInv, Dispatches
  <2> QED
    BY <2>1, <2>2, <2>3 DEF Twice
<1> QED
  BY <1>1, Invariance, PTL

\* No call returns two results to the run, and a run reported succeeded has the
\* one result of each of its calls (execGraph over the memo).
THEOREM OneResult == Sheltered /\ Spec => []OneResultEach
<1>1. IndInv => OneResultEach
  <2> SUFFICES ASSUME IndInv PROVE OneResultEach
    OBVIOUS
  <2>1. ASSUME NEW l \in Leaf PROVE returned[l] <= 1
    <3>1. PICK n \in Node, k \in 1..Body : l = <<n, k>>
      BY DEF Leaf
    <3> QED
      BY <3>1 DEF IndInv, NodeInv, Results
  <2>2. ASSUME status = "succeeded", NEW n \in Node, NEW l \in Leaves(n) PROVE returned[l] = 1
    <3>1. PICK k \in 1..Length(n) : l = <<n, k>>
      BY DEF Leaves
    <3>2. Progress(n) = Length(n) /\ Results(n)
      BY <2>2 DEF IndInv, Kept, NodeInv, Progress
    <3>3. k \in 1..Body /\ k <= Length(n)
      BY Sizes
    <3> QED
      BY <3>1, <3>2, <3>3 DEF Results
  <2> QED
    BY <2>1, <2>2 DEF OneResultEach
<1> QED
  BY <1>1, Invariance, PTL

-----------------------------------------------------------------------------
(* The refinement. *)

\* No call both waits for a decision and has a deadline: one given up at its
\* deadline would be asked about again.
GatesWait == Timed \cap Gated = {}

\* The mapping of DurableRun's calls and of their number.
CallSet == UNION {Leaves(n) : n \in Node}
Made == [l \in CallSet |-> IF l \in Timed /\ effects[l] > 1 THEN 1 ELSE effects[l]]
Precedes == [l \in Leaf |-> {<<l[1], k>> : k \in 1..(l[2] - 1)}
                              \cup UNION {Leaves(m) : m \in Needs[l[1]]}]

\* The calls are leaves.
LEMMA CallLeaves ==
  /\ CallSet \subseteq Leaf
  /\ \A n \in Node : \A k \in 1..Length(n) : <<n, k>> \in CallSet
  /\ \A n \in Node : \A l \in Leaves(n) : l \in CallSet /\ \E k \in 1..Length(n) : l = <<n, k>>
<1>1. ASSUME NEW n \in Node, NEW l \in Leaves(n) PROVE l \in Leaf /\ \E k \in 1..Length(n) : l = <<n, k>>
  <2>1. PICK k \in 1..Length(n) : l = <<n, k>>
    BY DEF Leaves
  <2>2. k \in 1..Body
    BY Sizes
  <2> QED
    BY <2>1, <2>2 DEF Leaf
<1>2. ASSUME NEW n \in Node, NEW k \in 1..Length(n) PROVE <<n, k>> \in Leaves(n)
  BY DEF Leaves
<1> QED
  BY <1>1, <1>2 DEF CallSet

\* What a node has come to was made once.
LEMMA MadeOnce ==
  ASSUME IndInv, NEW n \in Node, NEW k \in 1..Length(n), k <= Progress(n)
  PROVE  Made[<<n, k>>] = 1
<1>1. <<n, k>> \in CallSet /\ <<n, k>> \in Leaf /\ k \in 1..Body
  BY CallLeaves, Sizes
<1>2. effects[<<n, k>>] \in 0..Twice
  BY <1>1 DEF IndInv, TypeOK
<1>3. effects[<<n, k>>] >= 1 /\ (<<n, k>> \notin Timed => effects[<<n, k>>] = 1)
  BY <1>1, <1>2 DEF IndInv, NodeInv, Dispatches
<1> QED
  BY <1>1, <1>2, <1>3 DEF Made, Twice

\* The whole node, once it is done.
LEMMA DoneMade == ASSUME IndInv, NEW n \in Node, n \in memo, NEW l \in Leaves(n) PROVE Made[l] = 1
<1>1. PICK k \in 1..Length(n) : l = <<n, k>>
  BY CallLeaves
<1>2. k <= Progress(n)
  BY Sizes DEF Progress
<1> QED
  BY <1>1, <1>2, MadeOnce

\* A dispatch makes its call, in its turn and with its decision, or makes again
\* one that was given up, which counts once.
LEMMA DispatchMakes ==
  ASSUME IndInv, GatesWait, NEW n \in Node, Call(n) \/ Approve(n)
  PROVE  \/ Made' = Made
         \/ /\ Current(n) \in CallSet
            /\ Made[Current(n)] = 0 /\ Made' = [Made EXCEPT ![Current(n)] = 1]
            /\ \A d \in Precedes[Current(n)] : Made[d] = 1
            /\ Current(n) \in Gated => options = "auto" \/ cp.slot.leaf = Current(n)
<1> DEFINE c == Current(n)
<1>1. /\ status = "running" /\ thr[n] = "eval" /\ ~FirstErr
      /\ effects' = [effects EXCEPT ![c] = Bump(effects[c])]
  BY DEF Call, Approve, Dispatched
<1>2. /\ Progress(n) = inner[n] /\ c \in Leaf /\ c = <<n, inner[n] + 1>> /\ inner[n] + 1 \in 1..Length(n)
      /\ inner[n] \in 0..(Length(n) - 1) /\ Ready(n) /\ Dispatches(n)
  BY <1>1, Evaluating
<1>3. c \in CallSet
  BY <1>2, CallLeaves
<1>4. effects[c] \in 0..Twice
  BY <1>2 DEF IndInv, TypeOK
<1>5. /\ effects'[c] = Bump(effects[c])
      /\ \A l \in CallSet : l # c => effects'[l] = effects[l]
  BY <1>1, <1>2, CallLeaves DEF IndInv, TypeOK
<1>6. CASE effects[c] # 0
  <2>1. c \in Timed
    <3>1. inner[n] + 1 \in 1..Body /\ ~(inner[n] + 1 <= Progress(n)) /\ effects[c] >= 1
      BY <1>2, <1>4, <1>6, Sizes DEF Twice
    <3> QED
      BY <1>1, <1>2, <3>1 DEF Dispatches
  <2>2. Made'[c] = Made[c]
    BY <1>3, <1>4, <1>5, <1>6, <2>1 DEF Made, Bump, Twice
  <2>3. \A l \in CallSet : Made'[l] = Made[l]
    BY <1>5, <2>2 DEF Made
  <2> QED
    BY <2>3 DEF Made
<1>7. CASE effects[c] = 0
  <2>1. Made[c] = 0
    BY <1>3, <1>7 DEF Made
  <2>2. effects'[c] = 1
    BY <1>5, <1>7 DEF Bump, Twice
  <2>3. Made' = [Made EXCEPT ![c] = 1]
    BY <1>3, <1>5, <2>2 DEF Made
  <2>4. ASSUME NEW d \in Precedes[c] PROVE Made[d] = 1
    <3>1. c[1] = n /\ c[2] = inner[n] + 1
      BY <1>2
    <3>2. Precedes[c] = {<<n, k>> : k \in 1..inner[n]} \cup UNION {Leaves(m) : m \in Needs[n]}
      <4>1. c[2] - 1 = inner[n]
        BY <1>2, <3>1, Sizes
      <4> QED
        BY <1>2, <3>1, <4>1 DEF Precedes
    <3>3. CASE \E k \in 1..inner[n] : d = <<n, k>>
      <4>1. PICK k \in 1..inner[n] : d = <<n, k>>
        BY <3>3
      <4>2. k \in 1..Length(n) /\ k <= Progress(n)
        BY <1>2, Sizes
      <4> QED
        BY <4>1, <4>2, MadeOnce
    <3>4. CASE \E m \in Needs[n] : d \in Leaves(m)
      <4>1. PICK m \in Needs[n] : d \in Leaves(m)
        BY <3>4
      <4>2. m \in Node /\ m \in memo
        BY <1>2, GraphAssumption DEF Ready, IndInv, NodeInv, Goroutine
      <4> QED
        BY <4>1, <4>2, DoneMade
    <3> QED
      BY <2>4, <3>2, <3>3, <3>4
  <2>5. c \in Gated => options = "auto" \/ cp.slot.leaf = c
    <3>1. CASE Call(n)
      BY <3>1 DEF Call
    <3>2. CASE Approve(n)
      <4>1. seed.leaf = c /\ seed.kind # "none"
        BY <3>2 DEF Approve, Resolves, ClaimsPending
      <4>2. seed = cp.slot
        BY <1>1, <4>1, Empty DEF IndInv, Causes
      <4> QED
        BY <4>1, <4>2
    <3> QED
      BY <3>1, <3>2
  <2> QED
    BY <1>3, <2>1, <2>3, <2>4, <2>5
<1> QED
  BY <1>6, <1>7

\* A pause asks about a gate whose call was not made.
LEMMA PauseAsks ==
  ASSUME IndInv, GatesWait, Interrupt
  PROVE  cp'.slot.leaf \in {c \in Gated : Made[c] = 0}
<1>1. /\ status = "running" /\ ~FirstErr /\ Suspended /\ cp' = [memo |-> memo, slot |-> slot]
  BY DEF Interrupt, Joined
<1>2. slot # NoSlot
  BY <1>1 DEF Suspended, IndInv, NodeInv, Goroutine
<1>3. PICK n \in Node : thr[n] = "suspended" /\ slot.leaf = Current(n)
  BY <1>2 DEF IndInv, Causes, Presented
<1>4. /\ Current(n) \in Gated /\ n \notin memo /\ inner[n] < Length(n) /\ inner[n] \in 0..Body /\ Dispatches(n)
  BY <1>3 DEF IndInv, NodeInv, Goroutine, TypeOK
<1>5. /\ inner[n] + 1 \in 1..Length(n) /\ inner[n] + 1 \in 1..Body /\ Progress(n) = inner[n]
      /\ ~(inner[n] + 1 <= inner[n])
  BY <1>3, <1>4, Sizes DEF Progress
<1>6. Current(n) \in CallSet /\ Current(n) \in Leaf /\ Current(n) \notin Timed
  BY <1>4, <1>5, CallLeaves DEF Current, GatesWait
<1>7. effects[Current(n)] \in 0..Twice
  BY <1>6 DEF IndInv, TypeOK
<1>8. ~(effects[Current(n)] >= 1)
  BY <1>1, <1>3, <1>4, <1>5, <1>6 DEF Dispatches, Current
<1>9. Made[Current(n)] = 0
  BY <1>6, <1>7, <1>8 DEF Made, Twice
<1> QED
  BY <1>1, <1>3, <1>4, <1>9

\* The initial states are DurableRun's.
LEMMA RefinesInit == Init => Abstract!Init
<1> SUFFICES ASSUME Init PROVE Abstract!Init
  OBVIOUS
<1>1. status = "running"
  BY DEF Init
<1>2. Made = [l \in CallSet |-> 0]
  BY CallLeaves DEF Init, Made
<1>3. cp.slot.leaf \notin Gated
  BY GraphAssumption DEF Init, NoSlot
<1> QED
  BY <1>1, <1>2, <1>3 DEF Abstract!Init, Made, CallSet

\* Every step is one of DurableRun's, or is not seen there.
LEMMA RefinesNext == IndInv /\ GatesWait /\ [Next]_vars => [Abstract!Next]_(Abstract!vars)
<1> SUFFICES ASSUME IndInv, GatesWait, [Next]_vars PROVE [Abstract!Next]_(Abstract!vars)
  OBVIOUS
<1>1. ASSUME UNCHANGED <<status, cp, options, effects>> PROVE UNCHANGED Abstract!vars
  BY <1>1 DEF Abstract!vars
<1>2. ASSUME NEW n \in Node, Call(n) \/ Approve(n) PROVE [Abstract!Next]_(Abstract!vars)
  <2>1. status = "running" /\ UNCHANGED <<status, cp, options>>
    BY <1>2 DEF Call, Approve, durable
  <2>2. CASE Made' = Made
    BY <2>1, <2>2 DEF Abstract!vars, Made, CallSet
  <2>3. CASE /\ Current(n) \in CallSet
             /\ Made[Current(n)] = 0 /\ Made' = [Made EXCEPT ![Current(n)] = 1]
             /\ \A d \in Precedes[Current(n)] : Made[d] = 1
             /\ Current(n) \in Gated => options = "auto" \/ cp.slot.leaf = Current(n)
    <3>1. PICK c \in CallSet : c = Current(n)
      BY <2>3
    <3>2. Abstract!Make(c)
      BY <2>1, <2>3, <3>1 DEF Abstract!Make, Made, CallSet, Precedes
    <3> QED
      BY <3>2 DEF Abstract!Next, CallSet
  <2> QED
    BY <1>2, <2>2, <2>3, DispatchMakes
<1>3. ASSUME NEW n \in Node, Step(n) PROVE [Abstract!Next]_(Abstract!vars)
  <2>1. CASE ~(Call(n) \/ Approve(n))
    <3>1. UNCHANGED <<status, cp, options, effects>>
      BY <1>3, <2>1 DEF Step, Start, Refuse, Pause, Return, Fail, Timeout, Abandon, durable
    <3> QED
      BY <1>1, <3>1
  <2> QED
    BY <1>2, <2>1
<1>4. CASE Interrupt
  <2>1. /\ status = "running" /\ status' = "interrupted" /\ UNCHANGED <<options, effects>>
    BY <1>4 DEF Interrupt, Joined, session
  <2>2. cp'.slot.leaf \in {c \in Gated : Made[c] = 0}
    BY <1>4, PauseAsks
  <2>3. Abstract!Pause
    BY <2>1, <2>2 DEF Abstract!Pause, Made, CallSet
  <2> QED
    BY <2>3 DEF Abstract!Next
<1>5. CASE Finish
  <2>1. /\ status = "running" /\ status' = "succeeded" /\ UNCHANGED <<cp, options, effects>>
        /\ \A n \in Node : n \in memo
    BY <1>5 DEF Finish, Joined, session, IndInv, NodeInv, Goroutine
  <2>2. \A l \in CallSet : Made[l] = 1
    BY <2>1, DoneMade DEF CallSet
  <2>3. Abstract!Succeed
    BY <2>1, <2>2 DEF Abstract!Succeed, Made, CallSet
  <2> QED
    BY <2>3 DEF Abstract!Next
<1>6. CASE FailRun
  <2>1. Abstract!Abort
    BY <1>6 DEF FailRun, Joined, session, Abstract!Abort
  <2> QED
    BY <2>1 DEF Abstract!Next
<1>7. ASSUME NEW opt \in Options, Resume(opt) PROVE [Abstract!Next]_(Abstract!vars)
  <2>1. Abstract!Continue
    BY <1>7 DEF Resume, Seeded, Abstract!Continue
  <2> QED
    BY <2>1 DEF Abstract!Next
<1>8. CASE Schedule \/ UNCHANGED vars
  BY <1>1, <1>8 DEF Schedule, durable, vars
<1> QED
  BY <1>3, <1>4, <1>5, <1>6, <1>7, <1>8 DEF Next, Terminated

\* The interpreter, the invoker and the checkpoint implement the durable run:
\* each call at most once and in needs order, a gated one only under a decision on
\* the gate the checkpoint asked about, over any number of pauses and resumes.
THEOREM ImplementsDurableRun == Sheltered /\ GatesWait /\ Spec => Refines
<1>1. GatesWait /\ [Next]_vars => GatesWait'
  BY DEF GatesWait
<1> QED
  BY <1>1, RefinesNext, Invariance, RefinesInit, PTL DEF Spec, Refines, Abstract!Spec

=============================================================================
