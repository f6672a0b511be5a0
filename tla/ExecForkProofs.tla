---------------------------- MODULE ExecForkProofs ----------------------------
(***************************************************************************)
(* A durable run of forks and parallel loops, of any number of branches     *)
(* with any number of leaves in their inner forks, on any number of         *)
(* workers, across any number of suspensions and resumes: it implements     *)
(* DurableRun as long as no callee's frame is dropped at a join that        *)
(* somebody else's pause cut short (Shielded) and no call has a deadline of *)
(* its own, which a join takes for a sibling's cancel (NoDeadline).         *)
(***************************************************************************)
EXTENDS ExecFork, TLAPS

\* A callee with leaves before a gate of its own comes first in its branch; or the
\* gates are those of its branch, which are behind it when its frame waits, and of
\* callees that come first in theirs, which completed in the attempt that paused.
First(w) == Inner[w[1]] = 0
Patient(w, v) == v[1] = w[1] \/ (v \in Sub /\ First(v))
Shielded ==
  \A w \in Sub :
    (\E k \in 2..Body : <<w, k>> \in Gated) => First(w) \/ \A l \in Gated : Patient(w, l[1])

\* A call ends with a result or with an error, never at a deadline of its own.
NoDeadline == Outcome \subseteq {"failed"}

\* The branches of G that failed, and whether the run is bound to.
FailedIn(G) == \E w \in G : thr[w] = "failed"
Struck == FailedIn(Outer)

\* How many leaves of w have returned: all once it is memoized, as many as its
\* goroutine counted, and before that as many as the frame it will resume from.
Frame(s, w) == IF w \in Sub /\ s.kind = "nested" /\ s.leaf[1] = w THEN s.inner ELSE 0
Progress(w) ==
  IF w \in memo THEN Length(w) ELSE IF thr[w] = "idle" THEN Frame(seed, w) ELSE inner[w]

\* The same, of the checkpoint.
Checkpointed(w) == IF w \in cp.memo THEN Length(w) ELSE Frame(cp.slot, w)

\* The inner fork before the call of w is over, with every leaf recorded, or with
\* some suspended.
Forked(w) == IF w[2] = 0 THEN InnerOf(w[1]) ELSE {}
Begun(w) == Struck \/ \A u \in Forked(w) : thr[u] = "done"
Settled(w) == Struck \/ \A u \in Forked(w) : thr[u] \in {"done", "suspended"}

\* A goroutine and what is recorded of its walk.
Goroutine(w) ==
  /\ thr[w] = "joining" => w[2] = 0 /\ ~First(w) /\ inner[w] \in {0, Frame(cp.slot, w)}
  /\ thr[w] \in {"eval", "inflight"} => w \notin memo
  /\ thr[w] = "done" => w \in memo
  /\ thr[w] # "idle" => inner[w] < Length(w) \/ w \in memo
  /\ thr[w] \in {"eval", "inflight", "done"} => Begun(w)
  /\ thr[w] = "suspended" => Settled(w) /\ slot # NoSlot
  /\ thr[w] = "suspended" /\ w \in Sub /\ w \notin memo =>
       slot = NestedFrame(Current(w), inner[w]) \/ (~First(w) /\ inner[w] = 0)
  /\ thr[w] = "canceled" => Struck \/ (w[2] > 0 /\ FailedIn(InnerOf(w[1])))

\* A suspension cause: a gate of its walk, with the leaves before it.
Cause(s) ==
  \/ s = NoSlot
  \/ \E w \in Walk : /\ s = IF w \in Sub THEN NestedFrame(<<w, s.inner + 1>>, s.inner)
                                         ELSE DirectGate(<<w, 1>>)
                     /\ s.leaf \in Gated

\* The cause to present is that of a goroutine suspended in its own call; the one
\* to answer is the checkpoint's.
Asks(w) ==
  thr[w] = "suspended" /\ slot.leaf = Current(w) /\ slot.inner = inner[w] /\ w \notin memo /\ Begun(w)
Presented == slot = NoSlot \/ \E w \in Walk : Asks(w)
Causes ==
  /\ Cause(slot) /\ Cause(cp.slot) /\ Presented
  /\ status = "running" => seed \in {NoSlot, cp.slot}

\* A call was made once if it returned or is in flight, or if its branch failed or
\* was cancelled; and else never.
Flying(w, k) == thr[w] = "inflight" /\ k = inner[w] + 1
Made(w, k) == k <= Progress(w) \/ Flying(w, k)
Dispatches(w) ==
  \A k \in 1..Length(w) :
    /\ Made(w, k) => effects[<<w, k>>] = 1
    /\ effects[<<w, k>>] # 0 =>
         effects[<<w, k>>] = 1 /\ (Made(w, k) \/ thr[w] \in {"failed", "canceled"})

WalkInv(w) == Goroutine(w) /\ Dispatches(w)

\* The checkpoint an interrupted run waits on has kept all of that, and a run
\* succeeds with every walk recorded.
Kept ==
  /\ status = "interrupted" =>
       \A w \in Walk : thr[w] \in {"done", "suspended"} /\ Progress(w) = Checkpointed(w)
  /\ status = "succeeded" => \A w \in Walk : w \in memo

\* A checkpoint with a callee's frame has recorded the inner fork before it and the
\* callees that come first in their branches; an attempt starts from all of it.
Carried ==
  /\ status = "running" => cp.memo \subseteq memo
  /\ \A w \in Walk : Frame(cp.slot, w) # 0 =>
       \A v \in Walk : v # w /\ Patient(w, v) => v \in cp.memo

\* The inductive invariant.
IndInv ==
  Shielded /\ NoDeadline /\ TypeOK /\ (\A w \in Walk : WalkInv(w)) /\ Causes /\ Kept /\ Carried

-----------------------------------------------------------------------------
\* The walks and their leaves.
LEMMA Walks ==
  /\ \A w \in Walk : w = <<w[1], w[2]>> /\ w[1] \in Branch /\ w[2] \in Nat /\ Inner[w[1]] \in Nat /\ w[2] \in 0..Inner[w[1]]
  /\ \A b \in Branch : Inner[b] \in Nat /\ <<b, 0>> \in Walk /\ <<b, 0>> \in Outer
  /\ \A b \in Branch : \A i \in 1..Inner[b] : <<b, i>> \in Walk /\ <<b, i>> \in InnerOf(b)
<1>1. \A b \in Branch : Inner[b] \in Nat
  BY ForkAssumption
<1>2. ASSUME NEW w \in Walk
      PROVE  w = <<w[1], w[2]>> /\ w[1] \in Branch /\ w[2] \in 0..Inner[w[1]]
  <2>1. PICK b \in Branch : w \in {b} \X (0..Inner[b])
    BY DEF Walk
  <2> QED
    BY <2>1
<1>3. ASSUME NEW b \in Branch, NEW i \in 0..Inner[b] PROVE <<b, i>> \in Walk
  <2>1. <<b, i>> \in {b} \X (0..Inner[b])
    OBVIOUS
  <2> QED
    BY <2>1 DEF Walk
<1>4. \A b \in Branch : 0 \in 0..Inner[b] /\ \A i \in 1..Inner[b] : i \in 0..Inner[b]
  BY <1>1
<1> QED
  BY <1>1, <1>2, <1>3, <1>4 DEF Outer, InnerOf

\* The groups.
LEMMA Groups ==
  /\ \A w \in Outer : w \in Walk /\ w[2] = 0
  /\ \A b \in Branch : \A u \in InnerOf(b) : u \in Walk /\ u[1] = b /\ u[2] > 0
  /\ \A w \in Walk : w[2] = 0 => w \in Outer
  /\ \A w \in Walk : w[2] > 0 => w \in InnerOf(w[1])
  /\ \A w \in Walk : \A u \in Forked(w) : u \in Walk /\ u[1] = w[1] /\ u[2] > 0 /\ w[2] = 0 /\ u # w
<1>1. ASSUME NEW w \in Outer PROVE w \in Walk /\ w[2] = 0
  <2>1. PICK b \in Branch : w = <<b, 0>>
    BY DEF Outer
  <2> QED
    BY <2>1, Walks
<1>2. ASSUME NEW b \in Branch, NEW u \in InnerOf(b) PROVE u \in Walk /\ u[1] = b /\ u[2] > 0
  <2>1. PICK i \in 1..Inner[b] : u = <<b, i>>
    BY DEF InnerOf
  <2> QED
    BY <2>1, Walks
<1>3. ASSUME NEW w \in Walk PROVE (w[2] = 0 => w \in Outer) /\ (w[2] > 0 => w \in InnerOf(w[1]))
  <2>1. w = <<w[1], w[2]>> /\ w[1] \in Branch /\ w[2] \in 0..Inner[w[1]] /\ Inner[w[1]] \in Nat
    BY Walks
  <2>2. w[2] > 0 => w[2] \in 1..Inner[w[1]]
    BY <2>1
  <2> QED
    BY <2>1, <2>2 DEF Outer, InnerOf
<1>4. ASSUME NEW w \in Walk, NEW u \in Forked(w)
      PROVE  u \in Walk /\ u[1] = w[1] /\ u[2] > 0 /\ w[2] = 0 /\ u # w
  <2>1. w[2] = 0 /\ u \in InnerOf(w[1]) /\ w[1] \in Branch
    BY Walks DEF Forked
  <2> QED
    BY <1>2, <2>1
<1> QED
  BY <1>1, <1>2, <1>3, <1>4

\* The lengths.
LEMMA Sizes ==
  /\ Body \in Nat /\ Body >= 1
  /\ \A w \in Walk : Length(w) \in 1..Body /\ (w \notin Sub => Length(w) = 1) /\ (w \in Sub => Length(w) = Body)
BY ForkAssumption DEF Length

\* The leaves.
LEMMA Leafs ==
  /\ \A w \in Walk : \A k \in 1..Length(w) : <<w, k>> \in Leaf
  /\ \A l \in Leaf : \E w \in Walk : \E k \in 1..Length(w) : l = <<w, k>>
<1>1. ASSUME NEW w \in Walk, NEW k \in 1..Length(w) PROVE <<w, k>> \in Leaf
  <2>1. <<w, k>> \in {w} \X (1..Length(w))
    OBVIOUS
  <2> QED
    BY <2>1 DEF Leaf
<1>2. ASSUME NEW l \in Leaf PROVE \E w \in Walk : \E k \in 1..Length(w) : l = <<w, k>>
  <2>1. PICK w \in Walk : l \in {w} \X (1..Length(w))
    BY DEF Leaf
  <2> QED
    BY <2>1
<1> QED
  BY <1>1, <1>2

\* An empty slot is a slot, and it is no frame.
LEMMA Empty == NoSlot \in Slot /\ NoSlot.kind = "none" /\ \A w \in Walk : Frame(NoSlot, w) = 0
BY Sizes DEF NoSlot, Slot, Frame

\* The frame of a cause: that of a callee with a gate, before the gate.
LEMMA Framed ==
  ASSUME NEW s \in Slot, Cause(s), NEW w \in Walk
  PROVE  /\ Frame(s, w) \in 0..(Length(w) - 1)
         /\ Frame(s, w) # 0 => w \in Sub /\ \E k \in 2..Body : <<w, k>> \in Gated
<1>1. CASE Frame(s, w) = 0
  BY <1>1, Sizes
<1>2. CASE Frame(s, w) # 0
  <2>1. w \in Sub /\ s.kind = "nested" /\ s.leaf[1] = w /\ Frame(s, w) = s.inner
    BY <1>2 DEF Frame
  <2>2. s # NoSlot
    BY <2>1, Empty
  <2>3. PICK v \in Walk : /\ s = IF v \in Sub THEN NestedFrame(<<v, s.inner + 1>>, s.inner)
                                              ELSE DirectGate(<<v, 1>>)
                          /\ s.leaf \in Gated
    BY <2>2 DEF Cause
  <2>4. v \in Sub
    BY <2>1, <2>3 DEF DirectGate
  <2>5. s.leaf = <<v, s.inner + 1>>
    BY <2>3, <2>4 DEF NestedFrame
  <2>6. v = w
    BY <2>1, <2>5
  <2>7. s.inner \in 0..Body
    BY DEF Slot
  <2>8. PICK u \in Walk : \E k \in 1..Length(u) : <<w, s.inner + 1>> = <<u, k>>
    BY <2>3, <2>5, <2>6, Leafs, ForkAssumption
  <2>9. s.inner + 1 \in 1..Length(w)
    BY <2>8
  <2>10. s.inner \in 0..(Length(w) - 1) /\ (s.inner # 0 => s.inner + 1 \in 2..Body)
    BY <2>7, <2>9, Sizes
  <2> QED
    BY <1>2, <2>1, <2>3, <2>5, <2>6, <2>10
<1> QED
  BY <1>1, <1>2

\* The initial states.
LEMMA InitInv == Shielded /\ NoDeadline /\ Init => IndInv
<1> SUFFICES ASSUME Shielded, NoDeadline, Init PROVE IndInv
  OBVIOUS
<1>1. TypeOK
  BY Sizes, Empty DEF Init, TypeOK, Twice
<1>2. ASSUME NEW w \in Walk PROVE WalkInv(w)
  <2>1. Progress(w) = 0 /\ thr[w] = "idle"
    BY Empty DEF Init, Progress
  <2>2. Goroutine(w)
    BY <2>1 DEF Goroutine
  <2>3. ASSUME NEW k \in 1..Length(w) PROVE effects[<<w, k>>] = 0 /\ ~Made(w, k)
    <3>1. <<w, k>> \in Leaf
      BY Leafs
    <3> QED
      BY <2>1, <3>1, Sizes DEF Init, Made, Flying
  <2> QED
    BY <2>2, <2>3 DEF WalkInv, Dispatches
<1>3. Causes
  BY DEF Init, Causes, Cause, Presented
<1>4. Kept
  BY DEF Init, Kept
<1>5. Carried
  BY Empty DEF Init, Carried
<1> QED
  BY <1>1, <1>2, <1>3, <1>4, <1>5 DEF IndInv

\* The conditions are on the program.
LEMMA ConditionsStay == (Shielded /\ NoDeadline) => (Shielded /\ NoDeadline)'
BY DEF Shielded, NoDeadline, Patient, First

\* An attempt adds to the memo and leaves the checkpoint alone.
LEMMA CarriedOn ==
  ASSUME Carried, status = "running", UNCHANGED cp, memo \subseteq memo' PROVE Carried'
BY DEF Carried, Frame

\* A goroutine that moves on undoes nothing: a branch that failed stays failed, and
\* an inner fork that is over stays over.
Moving == {"idle", "joining", "eval", "inflight"}
LEMMA Monotone ==
  ASSUME TypeOK, NEW n \in Walk, thr[n] \in Moving, NEW x, thr' = [thr EXCEPT ![n] = x]
  PROVE  /\ Struck => Struck'
         /\ \A w \in Walk : FailedIn(InnerOf(w[1])) => FailedIn(InnerOf(w[1]))'
         /\ \A w \in Walk : (Begun(w) => Begun(w)') /\ (Settled(w) => Settled(w)')
<1>1. \A m \in Walk : m # n => thr'[m] = thr[m]
  BY DEF TypeOK
<1>2. ASSUME NEW G, \A w \in G : w \in Walk, FailedIn(G) PROVE FailedIn(G)'
  BY <1>1, <1>2 DEF FailedIn, Moving
<1>3. Struck => Struck'
  BY <1>2, Groups DEF Struck
<1>4. ASSUME NEW w \in Walk, FailedIn(InnerOf(w[1])) PROVE FailedIn(InnerOf(w[1]))'
  <2>1. w[1] \in Branch
    BY Walks
  <2> QED
    BY <1>1, <1>4, <2>1, Groups DEF FailedIn, Moving, InnerOf
<1>5. ASSUME NEW w \in Walk PROVE (Begun(w) => Begun(w)') /\ (Settled(w) => Settled(w)')
  <2>1. \A u \in Forked(w) : u \in Walk
    BY Groups
  <2>2. Forked(w)' = Forked(w)
    BY DEF Forked, InnerOf
  <2> QED
    BY <1>1, <1>3, <2>1, <2>2 DEF Begun, Settled, Moving
<1> QED
  BY <1>3, <1>4, <1>5

\* What one goroutine does leaves the other walks as they were: a slot once taken
\* stays taken, by a frame if a frame took it.
LEMMA OthersKept ==
  ASSUME IndInv, status = "running", UNCHANGED <<status, cp>>, TypeOK', Causes',
         NEW n \in Walk, thr[n] \in Moving, WalkInv(n)', NEW x, thr' = [thr EXCEPT ![n] = x],
         \A m \in Walk : m # n =>
           /\ inner'[m] = inner[m] /\ (m \in memo' <=> m \in memo) /\ Frame(seed', m) = Frame(seed, m)
           /\ \A k \in 1..Length(m) : effects'[<<m, k>>] = effects[<<m, k>>],
         slot' = slot \/ (slot.kind # "nested" /\ slot' # NoSlot), memo \subseteq memo'
  PROVE  IndInv'
<1>1. \A m \in Walk : m # n => thr'[m] = thr[m]
  BY DEF IndInv, TypeOK
<1>2. /\ Struck => Struck'
      /\ \A w \in Walk : FailedIn(InnerOf(w[1])) => FailedIn(InnerOf(w[1]))'
      /\ \A w \in Walk : (Begun(w) => Begun(w)') /\ (Settled(w) => Settled(w)')
  BY Monotone DEF IndInv
<1>3. ASSUME NEW m \in Walk, m # n PROVE WalkInv(m)'
  <2>1. WalkInv(m) /\ thr'[m] = thr[m] /\ inner'[m] = inner[m] /\ (m \in memo' <=> m \in memo)
    BY <1>1, <1>3 DEF IndInv
  <2>2. Progress(m)' = Progress(m)
    BY <1>1, <1>3, <2>1 DEF Progress, Length
  <2>3. Current(m)' = Current(m) /\ (slot = NestedFrame(Current(m), inner[m]) => slot' = slot)
        /\ (slot # NoSlot => slot' # NoSlot)
    BY <2>1 DEF Current, NestedFrame
  <2>4. Goroutine(m)'
    BY <1>2, <2>1, <2>3 DEF WalkInv, Goroutine, Length, First, Frame
  <2>5. ASSUME NEW k \in 1..Length(m) PROVE effects'[<<m, k>>] = effects[<<m, k>>] /\ Made(m, k)' = Made(m, k)
    BY <1>3, <2>1, <2>2 DEF Made, Flying
  <2>6. Dispatches(m)'
    BY <2>1, <2>5 DEF WalkInv, Dispatches, Length
  <2> QED
    BY <2>4, <2>6 DEF WalkInv
<1>4. Kept'
  BY DEF Kept
<1>5. Carried'
  BY CarriedOn DEF IndInv
<1> QED
  BY <1>3, <1>4, <1>5, ConditionsStay DEF IndInv

\* The cause to present stays the one of a goroutine that stays suspended.
LEMMA CausesKept ==
  ASSUME IndInv, status = "running", UNCHANGED <<status, cp, slot>>, seed' \in {seed, NoSlot},
         NEW n \in Walk, thr[n] \in Moving, NEW x, thr' = [thr EXCEPT ![n] = x],
         \A m \in Walk : m # n => inner'[m] = inner[m] /\ (m \in memo' <=> m \in memo)
  PROVE  Causes'
<1>1. \A m \in Walk : m # n => thr'[m] = thr[m]
  BY DEF IndInv, TypeOK
<1>2. \A w \in Walk : Begun(w) => Begun(w)'
  BY Monotone DEF IndInv
<1>3. ASSUME NEW w \in Walk, Asks(w) PROVE Asks(w)'
  BY <1>1, <1>2, <1>3 DEF Asks, Moving, Current
<1>4. Presented'
  BY <1>3 DEF IndInv, Causes, Presented
<1> QED
  BY <1>4 DEF IndInv, Causes

\* What the invariant says of a goroutine that evaluates or waits for a leaf.
LEMMA Evaluating ==
  ASSUME IndInv, NEW n \in Walk, thr[n] \in {"eval", "inflight"}
  PROVE  /\ n \notin memo /\ Progress(n) = inner[n] /\ inner[n] \in 0..(Length(n) - 1)
         /\ Current(n) \in Leaf /\ Current(n) = <<n, inner[n] + 1>> /\ inner[n] + 1 \in 1..Length(n)
         /\ Begun(n) /\ Dispatches(n)
<1>1. WalkInv(n) /\ inner[n] \in 0..Body
  BY DEF IndInv, TypeOK
<1>2. n \notin memo /\ inner[n] < Length(n) /\ Begun(n)
  BY <1>1 DEF WalkInv, Goroutine
<1>3. Progress(n) = inner[n]
  BY <1>2 DEF Progress
<1>4. inner[n] \in 0..(Length(n) - 1) /\ inner[n] + 1 \in 1..Length(n)
  BY <1>1, <1>2, Sizes
<1>5. Current(n) \in Leaf /\ Current(n) = <<n, inner[n] + 1>>
  BY <1>4, Leafs DEF Current
<1> QED
  BY <1>1, <1>2, <1>3, <1>4, <1>5 DEF WalkInv

\* The goroutine of n ends with an error: it failed, was refused or was cancelled.
LEMMA EndStep ==
  ASSUME IndInv, status = "running", UNCHANGED <<status, cp, options, memo, slot, inner, effects>>,
         NEW n \in Walk, thr[n] \in {"joining", "eval", "inflight"},
         NEW x \in {"failed", "canceled"}, thr' = [thr EXCEPT ![n] = x],
         x = "canceled" => Struck \/ (n[2] > 0 /\ FailedIn(InnerOf(n[1]))),
         seed' = seed \/ (seed' = NoSlot /\ \A m \in Walk : m # n => Frame(seed, m) = 0)
  PROVE  IndInv'
<1>1. thr[n] \in Moving
  BY DEF Moving
<1>2. thr'[n] = x /\ \A m \in Walk : m # n => thr'[m] = thr[m]
  BY DEF IndInv, TypeOK
<1>3. TypeOK'
  BY <1>2, Empty DEF IndInv, TypeOK
<1>4. Causes'
  BY <1>1, CausesKept
<1>5. /\ Struck => Struck'
      /\ FailedIn(InnerOf(n[1])) => FailedIn(InnerOf(n[1]))'
  BY <1>1, Monotone DEF IndInv
<1>6. WalkInv(n)
  BY DEF IndInv
<1>7. Progress(n)' = Progress(n)
  BY <1>2 DEF Progress, Length
<1>8. Goroutine(n)'
  BY <1>2, <1>5, <1>6 DEF WalkInv, Goroutine, Length
<1>9. Dispatches(n)'
  <2>1. ASSUME NEW k \in 1..Length(n)
        PROVE  (Made(n, k)' => Made(n, k)) /\ effects'[<<n, k>>] = effects[<<n, k>>]
    BY <1>2, <1>7 DEF Made, Flying
  <2> QED
    BY <1>2, <1>6, <2>1 DEF WalkInv, Dispatches, Length
<1>10. \A m \in Walk : m # n => Frame(seed', m) = Frame(seed, m)
  BY Empty
<1>11. WalkInv(n)'
  BY <1>8, <1>9 DEF WalkInv
<1> QED
  BY <1>1, <1>3, <1>4, <1>10, <1>11, OthersKept

\* A branch is launched: it replays its result, takes its frame, or forks first.
LEMMA LaunchStep == ASSUME IndInv, NEW n \in Walk, Launch(n) PROVE IndInv'
<1> DEFINE x == IF n[2] = 0 /\ Inner[n[1]] > 0 THEN "joining" ELSE Enter(n)
<1>1. /\ status = "running" /\ thr[n] = "idle" /\ thr' = [thr EXCEPT ![n] = x]
      /\ inner' = [inner EXCEPT ![n] = Frame(seed, n)]
      /\ UNCHANGED <<status, cp, options, memo, seed, slot, effects>>
  BY DEF Launch, durable, Frame, SeededInner
<1>2. /\ Frame(seed, n) \in 0..(Length(n) - 1) /\ Frame(seed, n) \in {0, Frame(cp.slot, n)}
  <2>1. seed \in {NoSlot, cp.slot} /\ Cause(cp.slot) /\ cp.slot \in Slot
    BY <1>1 DEF IndInv, Causes, TypeOK
  <2> QED
    BY <2>1, Framed, Empty, Sizes
<1>3. x \in {"joining", "done", "eval"} /\ thr[n] \in Moving
      /\ (x = "joining" => n[2] = 0 /\ ~First(n)) /\ (x = "done" => n \in memo) /\ (x = "eval" => n \notin memo)
  BY <1>1, Walks DEF Enter, Moving, First
<1>4. /\ thr'[n] = x /\ inner' \in [Walk -> 0..Body] /\ inner'[n] = Frame(seed, n)
      /\ \A m \in Walk : m # n => thr'[m] = thr[m] /\ inner'[m] = inner[m]
  BY <1>1, <1>2, Sizes DEF IndInv, TypeOK
<1>5. TypeOK'
  BY <1>1, <1>3, <1>4 DEF IndInv, TypeOK
<1>6. Causes'
  BY <1>1, <1>3, <1>4, CausesKept
<1>7. Progress(n)' = Progress(n)
  BY <1>1, <1>3, <1>4 DEF Progress, Length
<1>8. x # "joining" => Forked(n) = {}
  <2>1. x # "joining" => n[2] # 0 \/ ~(Inner[n[1]] > 0)
    BY DEF Enter
  <2>2. ~(Inner[n[1]] > 0) => InnerOf(n[1]) = {}
    <3>1. Inner[n[1]] \in Nat
      BY Walks
    <3>2. ~(Inner[n[1]] > 0) => 1..Inner[n[1]] = {}
      BY <3>1
    <3> QED
      BY <3>2 DEF InnerOf
  <2> QED
    BY <2>1, <2>2 DEF Forked
<1>9. x # "joining" => Begun(n)'
  BY <1>8 DEF Begun, Forked, InnerOf
<1>10. inner'[n] < Length(n)
  BY <1>2, <1>4, Sizes
<1> HIDE DEF x
<1>11. Goroutine(n)'
  BY <1>1, <1>2, <1>3, <1>4, <1>9, <1>10 DEF Goroutine, Length, First, Frame
<1>12. WalkInv(n)
  BY DEF IndInv
<1>13. Dispatches(n)'
  <2>1. ASSUME NEW k \in 1..Length(n) PROVE Made(n, k)' = Made(n, k) /\ effects'[<<n, k>>] = effects[<<n, k>>]
    BY <1>1, <1>3, <1>4, <1>7 DEF Made, Flying
  <2> QED
    BY <1>1, <1>12, <2>1 DEF WalkInv, Dispatches, Length
<1>14. WalkInv(n)'
  BY <1>11, <1>13 DEF WalkInv
<1> QED
  BY <1>1, <1>3, <1>4, <1>5, <1>6, <1>14, OthersKept

\* Nobody asks while a callee waits behind its inner fork with a frame to go on from.
LEMMA NobodyAsks ==
  ASSUME IndInv, status = "running", NEW n \in Walk, thr[n] = "joining", n \notin memo, inner[n] # 0
  PROVE  ~Suspended
<1>1. Frame(cp.slot, n) # 0 /\ ~First(n)
  BY DEF IndInv, WalkInv, Goroutine
<1>2. cp.slot \in Slot /\ Cause(cp.slot)
  BY DEF IndInv, TypeOK, Causes
<1>3. n \in Sub /\ \A l \in Gated : Patient(n, l[1])
  BY <1>1, <1>2, Framed DEF IndInv, Shielded
<1>4. SUFFICES ASSUME Suspended PROVE FALSE
  OBVIOUS
<1>5. slot # NoSlot
  BY <1>4 DEF Suspended, IndInv, WalkInv, Goroutine
<1>6. PICK w \in Walk : Asks(w)
  BY <1>5 DEF IndInv, Causes, Presented
<1>7. slot.leaf \in Gated
  BY <1>5 DEF IndInv, Causes, Cause
<1>8. slot.leaf[1] = w /\ w # n /\ w \notin memo
  BY <1>6 DEF Asks, Current
<1>9. w \in cp.memo /\ cp.memo \subseteq memo
  BY <1>1, <1>3, <1>7, <1>8 DEF IndInv, Carried
<1> QED
  BY <1>8, <1>9

\* The inner fork of a branch joins.
LEMMA JoinInnerStep == ASSUME IndInv, NEW n \in Walk, JoinInner(n) PROVE IndInv'
<1> DEFINE verdict == ClassifyConcurrent(InnerOf(n[1]))
           x == IF verdict = "ok" THEN Enter(n) ELSE verdict
<1>1. /\ status = "running" /\ thr[n] = "joining" /\ Joinable(InnerOf(n[1])) /\ thr' = [thr EXCEPT ![n] = x]
      /\ UNCHANGED <<status, cp, options, memo, seed, slot, inner, effects>>
  BY DEF JoinInner, durable
<1>2. WalkInv(n) /\ thr[n] \in Moving /\ n[2] = 0 /\ ~First(n) /\ n[1] \in Branch
  BY <1>1, Walks DEF IndInv, WalkInv, Goroutine, Moving
<1>3. CASE verdict = "failed"
  <2>1. thr' = [thr EXCEPT ![n] = "failed"]
    BY <1>1, <1>3
  <2> QED
    BY <1>1, <2>1, EndStep
<1>4. CASE verdict # "failed"
  <2>1. ~FailedIn(InnerOf(n[1])) /\ (verdict = "ok" <=> ~Suspended)
        /\ (verdict = "ok" \/ verdict = "suspended")
    BY <1>4 DEF ClassifyConcurrent, FailedIn
  <2>2. /\ x \in {"done", "eval", "suspended"} /\ (x = "suspended" <=> Suspended)
        /\ (x = "done" => n \in memo) /\ (x = "eval" => n \notin memo)
    BY <2>1 DEF Enter
  <2>3. ASSUME NEW u \in InnerOf(n[1]) PROVE Struck \/ thr[u] \in {"done", "suspended"}
    <3>1. u \in Walk /\ u[1] = n[1]
      BY <1>2, Groups
    <3>2. thr[u] \in {"done", "suspended", "canceled", "failed"}
      BY <1>1, <3>1 DEF Joinable, Live, IndInv, TypeOK
    <3>3. thr[u] # "failed"
      BY <2>1 DEF FailedIn
    <3>4. thr[u] = "canceled" => Struck
      BY <2>1, <3>1 DEF IndInv, WalkInv, Goroutine
    <3> QED
      BY <3>2, <3>3, <3>4
  <2>4. Settled(n) /\ (~Suspended => Begun(n))
    <3>1. \A u \in Forked(n) : u \in InnerOf(n[1]) /\ u \in Walk
      BY Groups DEF Forked
    <3> QED
      BY <2>3, <3>1 DEF Settled, Begun, Suspended
  <2>5. Suspended => slot # NoSlot
    BY DEF Suspended, IndInv, WalkInv, Goroutine
  <2>6. n \in memo \/ (inner[n] < Length(n) /\ (Suspended => inner[n] = 0))
    BY <1>1, <1>2, NobodyAsks DEF WalkInv, Goroutine
  <2> HIDE DEF x, verdict
  <2>7. thr'[n] = x /\ \A m \in Walk : m # n => thr'[m] = thr[m]
    BY <1>1 DEF IndInv, TypeOK
  <2>8. TypeOK'
    BY <1>1, <2>2, <2>7 DEF IndInv, TypeOK
  <2>9. Causes'
    BY <1>1, <1>2, CausesKept
  <2>10. (Begun(n) => Begun(n)') /\ (Settled(n) => Settled(n)')
    BY <1>1, <1>2, Monotone DEF IndInv
  <2>11. Goroutine(n)'
    BY <1>1, <1>2, <2>2, <2>4, <2>5, <2>6, <2>7, <2>10 DEF Goroutine, Length, First
  <2>12. Progress(n)' = Progress(n)
    BY <1>1, <2>2, <2>7 DEF Progress, Length
  <2>13. Dispatches(n)'
    <3>1. ASSUME NEW k \in 1..Length(n) PROVE Made(n, k)' = Made(n, k) /\ effects'[<<n, k>>] = effects[<<n, k>>]
      BY <1>1, <2>2, <2>7, <2>12 DEF Made, Flying
    <3> QED
      BY <1>1, <1>2, <3>1 DEF WalkInv, Dispatches, Length
  <2>14. WalkInv(n)'
    BY <2>11, <2>13 DEF WalkInv
  <2> QED
    BY <1>1, <1>2, <2>8, <2>9, <2>14, OthersKept
<1> QED
  BY <1>3, <1>4

\* The decided gate is the seed's, and no other walk's frame depends on it.
LEMMA SeedOwner ==
  ASSUME NEW n \in Walk, Resolves(n), NEW m \in Walk, m # n
  PROVE  Frame(seed, m) = 0
BY DEF Resolves, ClaimsPending, Current, Frame

\* A call leaves the process, for the first time.
LEMMA CallStep == ASSUME IndInv, NEW n \in Walk, Call(n) \/ Approve(n) PROVE IndInv'
<1>1. /\ status = "running" /\ thr[n] = "eval" /\ thr' = [thr EXCEPT ![n] = "inflight"]
      /\ effects' = [effects EXCEPT ![Current(n)] = IF @ < Twice THEN @ + 1 ELSE @]
      /\ UNCHANGED <<status, cp, options, memo, slot, inner>>
      /\ seed' = seed \/ (seed' = NoSlot /\ Resolves(n))
  BY DEF Call, Approve, Dispatched, durable
<1>2. /\ n \notin memo /\ Progress(n) = inner[n] /\ inner[n] \in 0..(Length(n) - 1)
      /\ Current(n) \in Leaf /\ Current(n) = <<n, inner[n] + 1>> /\ inner[n] + 1 \in 1..Length(n)
      /\ Begun(n) /\ Dispatches(n)
  BY <1>1, Evaluating
<1>3. /\ thr'[n] = "inflight" /\ thr[n] \in Moving
      /\ \A m \in Walk : m # n => thr'[m] = thr[m]
  BY <1>1 DEF IndInv, TypeOK, Moving
<1>4. effects[Current(n)] = 0
  <2>1. ~Made(n, inner[n] + 1) /\ thr[n] \notin {"failed", "canceled"}
    BY <1>1, <1>2, Sizes DEF Made, Flying
  <2> QED
    BY <1>2, <2>1 DEF Dispatches
<1>5. effects'[Current(n)] = 1 /\ effects' \in [Leaf -> 0..Twice]
      /\ \A l \in Leaf : l # Current(n) => effects'[l] = effects[l]
  BY <1>1, <1>2, <1>4 DEF IndInv, TypeOK, Twice
<1>6. TypeOK'
  BY <1>1, <1>3, <1>5, Empty DEF IndInv, TypeOK
<1>7. Causes'
  BY <1>1, <1>3, CausesKept
<1>8. Begun(n)'
  BY <1>1, <1>2, <1>3, Monotone DEF IndInv
<1>9. inner[n] < Length(n)
  BY <1>2, Sizes
<1>10. Goroutine(n)'
  BY <1>1, <1>2, <1>3, <1>8, <1>9 DEF Goroutine, Length
<1>11. Progress(n)' = Progress(n)
  BY <1>1, <1>2, <1>3 DEF Progress
<1>12. Dispatches(n)'
  <2>1. ASSUME NEW k \in 1..Length(n), k # inner[n] + 1
        PROVE  Made(n, k)' = Made(n, k) /\ effects'[<<n, k>>] = effects[<<n, k>>]
    <3>1. <<n, k>> \in Leaf /\ <<n, k>> # Current(n)
      BY <1>2, <2>1, Leafs
    <3> QED
      BY <1>1, <1>3, <1>5, <1>11, <2>1, <3>1 DEF Made, Flying
  <2>2. Made(n, inner[n] + 1)' /\ effects'[<<n, inner[n] + 1>>] = 1
    BY <1>1, <1>2, <1>3, <1>5 DEF Made, Flying
  <2> QED
    BY <1>1, <1>2, <2>1, <2>2 DEF Dispatches, Length
<1>13. WalkInv(n)'
  BY <1>10, <1>12 DEF WalkInv
<1>14. ASSUME NEW m \in Walk, m # n
       PROVE  Frame(seed', m) = Frame(seed, m) /\ \A k \in 1..Length(m) : effects'[<<m, k>>] = effects[<<m, k>>]
  <2>1. Frame(seed', m) = Frame(seed, m)
    BY <1>1, <1>14, SeedOwner, Empty
  <2>2. \A k \in 1..Length(m) : <<m, k>> \in Leaf /\ <<m, k>> # Current(n)
    BY <1>2, <1>14, Leafs
  <2> QED
    BY <1>5, <2>1, <2>2
<1> QED
  BY <1>1, <1>3, <1>6, <1>7, <1>13, <1>14, OthersKept

\* A gate nobody has decided suspends its branch and takes a free slot; a callee's
\* frame preempts a direct gate, and is refused behind another callee's.
LEMMA PauseStep == ASSUME IndInv, NEW n \in Walk, Pause(n) PROVE IndInv'
<1>1. /\ status = "running" /\ thr[n] = "eval" /\ Current(n) \in Gated
      /\ slot' = IF n \in Sub THEN SetNestedIfFirst(slot, Current(n), inner[n])
                              ELSE SetPendingIfFirst(slot, Current(n))
      /\ thr' = [thr EXCEPT ![n] = IF n \in Sub /\ NestedRefused(slot) THEN "failed" ELSE "suspended"]
      /\ UNCHANGED <<status, cp, options, memo, seed, inner, effects>>
  BY DEF Pause, durable
<1>2. /\ n \notin memo /\ Progress(n) = inner[n] /\ inner[n] \in 0..(Length(n) - 1)
      /\ Current(n) \in Leaf /\ Current(n) = <<n, inner[n] + 1>> /\ inner[n] + 1 \in 1..Length(n)
      /\ Begun(n) /\ Dispatches(n)
  BY <1>1, Evaluating
<1>3. CASE n \in Sub /\ NestedRefused(slot)
  <2>1. thr' = [thr EXCEPT ![n] = "failed"] /\ slot' = slot
    BY <1>1, <1>3 DEF SetNestedIfFirst
  <2> QED
    BY <1>1, <2>1, EndStep
<1>4. CASE ~(n \in Sub /\ NestedRefused(slot))
  <2>1. /\ thr' = [thr EXCEPT ![n] = "suspended"] /\ thr[n] \in Moving
    BY <1>1, <1>4 DEF Moving
  <2>2. /\ thr'[n] = "suspended" /\ \A m \in Walk : m # n => thr'[m] = thr[m]
    BY <2>1 DEF IndInv, TypeOK
  <2>3. (Begun(n) => Begun(n)') /\ (Settled(n) => Settled(n)')
        /\ \A w \in Walk : Begun(w) => Begun(w)'
    BY <2>1, Monotone DEF IndInv
  <2>4. Settled(n)
    BY <1>2 DEF Begun, Settled
  <2>5. slot \in Slot /\ NoSlot.kind = "none"
    BY Empty DEF IndInv, TypeOK
  <2>6. \/ slot' = slot /\ slot.kind # "none" /\ n \notin Sub
        \/ /\ slot' = (IF n \in Sub THEN NestedFrame(Current(n), inner[n]) ELSE DirectGate(Current(n)))
           /\ slot.kind # "nested"
    BY <1>1, <1>4 DEF SetNestedIfFirst, SetPendingIfFirst, NestedRefused
  <2>7. n \notin Sub => inner[n] = 0
    BY <1>2, Sizes
  <2>8. inner[n] \in 0..Body
    BY DEF IndInv, TypeOK
  <2>9. CASE slot' = slot /\ slot.kind # "none" /\ n \notin Sub
    <3>1. slot # NoSlot
      BY <2>5, <2>9
    <3>2. TypeOK'
      BY <1>1, <2>1, <2>9 DEF IndInv, TypeOK
    <3>3. Causes'
      BY <1>1, <2>1, <2>9, CausesKept
    <3>4. Goroutine(n)'
      BY <1>1, <1>2, <2>2, <2>3, <2>4, <2>9, <3>1, Sizes DEF Goroutine, Length
    <3>5. Dispatches(n)'
      <4>1. ASSUME NEW k \in 1..Length(n) PROVE Made(n, k)' = Made(n, k) /\ effects'[<<n, k>>] = effects[<<n, k>>]
        BY <1>1, <1>2, <2>2 DEF Made, Flying, Progress
      <4> QED
        BY <1>1, <1>2, <4>1 DEF Dispatches, Length
    <3>6. WalkInv(n)'
      BY <3>4, <3>5 DEF WalkInv
    <3> QED
      BY <1>1, <2>1, <2>9, <3>2, <3>3, <3>6, OthersKept
  <2>10. CASE /\ slot' = (IF n \in Sub THEN NestedFrame(Current(n), inner[n]) ELSE DirectGate(Current(n)))
              /\ slot.kind # "nested"
    <3>1. /\ slot' \in Slot /\ slot' # NoSlot /\ slot'.leaf = Current(n) /\ slot'.inner = inner[n]
      BY <1>2, <2>7, <2>8, <2>10, Sizes DEF NestedFrame, DirectGate, Slot, NoSlot
    <3>2. TypeOK'
      BY <1>1, <2>1, <3>1 DEF IndInv, TypeOK
    <3>3. Cause(slot')
      <4>1. slot' = IF n \in Sub THEN NestedFrame(<<n, slot'.inner + 1>>, slot'.inner) ELSE DirectGate(<<n, 1>>)
        BY <1>2, <2>7, <2>10, <3>1
      <4>2. slot'.leaf \in Gated
        BY <1>1, <3>1
      <4> QED
        BY <4>1, <4>2 DEF Cause
    <3>4. Current(n)' = Current(n)
      BY <1>1 DEF Current
    <3>5. Asks(n)'
      BY <1>1, <1>2, <2>2, <2>3, <3>1, <3>4 DEF Asks
    <3>6. Causes'
      <4>1. Cause(slot)'
        BY <3>3 DEF Cause
      <4>2. Presented'
        BY <3>5 DEF Presented
      <4>3. Cause(cp.slot)'
        BY <1>1 DEF IndInv, Causes, Cause
      <4> QED
        BY <1>1, <4>1, <4>2, <4>3 DEF IndInv, Causes
    <3>7. Goroutine(n)'
      BY <1>1, <1>2, <2>2, <2>3, <2>4, <2>10, <3>1, <3>4, Sizes DEF Goroutine, Length
    <3>8. Dispatches(n)'
      <4>1. ASSUME NEW k \in 1..Length(n) PROVE Made(n, k)' = Made(n, k) /\ effects'[<<n, k>>] = effects[<<n, k>>]
        BY <1>1, <1>2, <2>2 DEF Made, Flying, Progress
      <4> QED
        BY <1>1, <1>2, <4>1 DEF Dispatches, Length
    <3>9. WalkInv(n)'
      BY <3>7, <3>8 DEF WalkInv
    <3> QED
      BY <1>1, <2>1, <2>10, <3>1, <3>2, <3>6, <3>9, OthersKept
  <2> QED
    BY <2>6, <2>9, <2>10
<1> QED
  BY <1>3, <1>4

\* A call returns: the leaf is counted and, after the last one, the walk recorded.
LEMMA ReturnStep == ASSUME IndInv, NEW n \in Walk, Return(n) PROVE IndInv'
<1> DEFINE x == IF inner[n] + 1 = Length(n) THEN "done" ELSE "eval"
<1>1. /\ status = "running" /\ thr[n] = "inflight" /\ thr' = [thr EXCEPT ![n] = x]
      /\ inner' = [inner EXCEPT ![n] = inner[n] + 1]
      /\ memo' = IF inner[n] + 1 = Length(n) THEN memo \cup {n} ELSE memo
      /\ UNCHANGED <<status, cp, options, seed, slot, effects>>
  BY DEF Return, durable
<1>2. /\ n \notin memo /\ Progress(n) = inner[n] /\ inner[n] \in 0..(Length(n) - 1)
      /\ inner[n] + 1 \in 1..Length(n) /\ Begun(n) /\ Dispatches(n)
  BY <1>1, Evaluating
<1>3. x \in {"done", "eval"} /\ thr[n] \in Moving
  BY <1>1 DEF Moving
<1>4. /\ thr'[n] = x /\ inner' \in [Walk -> 0..Body] /\ inner'[n] = inner[n] + 1 /\ memo' \subseteq Walk
      /\ \A m \in Walk : m # n => thr'[m] = thr[m] /\ inner'[m] = inner[m] /\ (m \in memo' <=> m \in memo)
      /\ memo \subseteq memo'
  BY <1>1, <1>2, Sizes DEF IndInv, TypeOK
<1>5. TypeOK'
  BY <1>1, <1>3, <1>4 DEF IndInv, TypeOK
<1>6. Causes'
  BY <1>1, <1>3, <1>4, CausesKept
<1>7. Begun(n)'
  BY <1>1, <1>2, <1>3, Monotone DEF IndInv
<1>8. (n \in memo' <=> x = "done") /\ (x = "eval" => inner[n] + 1 < Length(n))
  BY <1>1, <1>2, Sizes
<1>9. Progress(n)' = inner[n] + 1
  BY <1>1, <1>3, <1>4, <1>8 DEF Progress, Length
<1> HIDE DEF x
<1>10. Goroutine(n)'
  BY <1>3, <1>4, <1>7, <1>8 DEF Goroutine, Length
<1>11. Dispatches(n)'
  <2>1. ASSUME NEW k \in 1..Length(n) PROVE Made(n, k)' = Made(n, k) /\ effects'[<<n, k>>] = effects[<<n, k>>]
    <3>1. Made(n, k)' = (k <= inner[n] + 1)
      BY <1>3, <1>4, <1>9 DEF Made, Flying
    <3>2. Made(n, k) = (k <= inner[n] \/ k = inner[n] + 1)
      BY <1>1, <1>2 DEF Made, Flying
    <3>3. (k <= inner[n] + 1) = (k <= inner[n] \/ k = inner[n] + 1)
      BY <1>2, Sizes
    <3> QED
      BY <1>1, <3>1, <3>2, <3>3
  <2> QED
    BY <1>1, <1>2, <2>1 DEF Dispatches, Length
<1>12. WalkInv(n)'
  BY <1>10, <1>11 DEF WalkInv
<1> QED
  BY <1>1, <1>3, <1>4, <1>5, <1>6, <1>12, OthersKept

\* A broken construct has a branch that failed.
LEMMA BrokenFailed ==
  ASSUME IndInv, NEW n \in Walk, Canceled(n)
  PROVE  Struck \/ (n[2] > 0 /\ FailedIn(InnerOf(n[1])))
<1>1. Broken(Outer) => Struck
  <2> SUFFICES ASSUME NEW w \in Outer, thr[w] \in {"failed", "canceled"} PROVE Struck
    BY DEF Broken
  <2>1. w \in Walk /\ w[2] = 0
    BY Groups
  <2> QED
    BY <2>1 DEF IndInv, WalkInv, Goroutine, Struck, FailedIn
<1>2. ASSUME n[2] # 0, Broken(InnerOf(n[1])) PROVE Struck \/ (n[2] > 0 /\ FailedIn(InnerOf(n[1])))
  <2>1. n[2] > 0 /\ n[1] \in Branch
    BY <1>2, Walks
  <2>2. PICK w \in InnerOf(n[1]) : thr[w] \in {"failed", "canceled"}
    BY <1>2 DEF Broken
  <2>3. w \in Walk /\ w[1] = n[1]
    BY <2>1, Groups
  <2> QED
    BY <2>1, <2>2, <2>3 DEF IndInv, WalkInv, Goroutine, FailedIn
<1> QED
  BY <1>1, <1>2 DEF Canceled, Group

\* A call ends without a result.
LEMMA GiveUpStep == ASSUME IndInv, NEW n \in Walk, Refuse(n) \/ Fail(n) \/ Cancel(n) PROVE IndInv'
<1>1. CASE Refuse(n)
  <2>1. /\ status = "running" /\ thr[n] = "eval" /\ Resolves(n) /\ seed' = NoSlot
        /\ thr' = [thr EXCEPT ![n] = "failed"]
        /\ UNCHANGED <<status, cp, options, memo, slot, inner, effects>>
    BY <1>1 DEF Refuse, durable
  <2> QED
    BY <2>1, SeedOwner, EndStep
<1>2. CASE Fail(n)
  <2>1. /\ status = "running" /\ thr[n] \in {"eval", "inflight"}
        /\ UNCHANGED <<status, cp, options, memo, seed, slot, inner, effects>>
    BY <1>2 DEF Fail, durable
  <2>2. thr' = [thr EXCEPT ![n] = "failed"]
    BY <1>2 DEF Fail, IndInv, NoDeadline
  <2> QED
    BY <2>1, <2>2, EndStep
<1>3. CASE Cancel(n)
  <2>1. /\ status = "running" /\ thr[n] \in {"eval", "inflight"} /\ Canceled(n)
        /\ thr' = [thr EXCEPT ![n] = "canceled"]
        /\ UNCHANGED <<status, cp, options, memo, seed, slot, inner, effects>>
    BY <1>3 DEF Cancel, durable
  <2> QED
    BY <2>1, BrokenFailed, EndStep
<1> QED
  BY <1>1, <1>2, <1>3

\* The steps of a goroutine.
LEMMA GoroutineStep == ASSUME IndInv, NEW n \in Walk, Step(n) PROVE IndInv'
BY LaunchStep, JoinInnerStep, CallStep, PauseStep, ReturnStep, GiveUpStep DEF Step

\* Where the outer join finds no failed branch, every walk is done or suspended.
LEMMA AllOver ==
  ASSUME IndInv, Joinable(Outer), ~Struck, NEW w \in Walk
  PROVE  thr[w] \in {"done", "suspended"}
<1>1. ASSUME NEW v \in Outer PROVE thr[v] \in {"done", "suspended"} /\ Settled(v)
  <2>1. v \in Walk
    BY Groups
  <2>2. thr[v] \in {"done", "suspended", "canceled", "failed"}
    BY <2>1 DEF Joinable, Live, IndInv, TypeOK
  <2>3. thr[v] \notin {"canceled", "failed"}
    <3>1. v[2] = 0
      BY Groups
    <3> QED
      BY <2>1, <3>1 DEF Struck, FailedIn, IndInv, WalkInv, Goroutine
  <2>4. (thr[v] = "done" => Begun(v)) /\ (thr[v] = "suspended" => Settled(v))
    BY <2>1 DEF IndInv, WalkInv, Goroutine
  <2> QED
    BY <2>2, <2>3, <2>4 DEF Begun, Settled
<1>2. CASE w[2] = 0
  BY <1>1, <1>2, Groups
<1>3. CASE w[2] # 0
  <2>1. w[1] \in Branch /\ w[2] > 0 /\ w \in InnerOf(w[1])
    BY <1>3, Walks, Groups
  <2>2. PICK v \in Outer : v = <<w[1], 0>>
    BY <2>1, Walks
  <2>3. w \in Forked(v)
    BY <2>1, <2>2 DEF Forked
  <2> QED
    BY <1>1, <2>3 DEF Settled
<1> QED
  BY <1>2, <1>3

\* The walks depend on the session and on the effects alone.
LEMMA WalksKept ==
  ASSUME \A w \in Walk : WalkInv(w), UNCHANGED <<memo, seed, slot, thr, inner, effects>>,
         \/ UNCHANGED cp
         \/ \A w \in Walk : thr[w] # "joining"
  PROVE  \A w \in Walk : WalkInv(w)' /\ Progress(w)' = Progress(w)
<1>1. Struck' = Struck /\ \A w \in Walk : FailedIn(InnerOf(w[1]))' = FailedIn(InnerOf(w[1]))
  BY DEF Struck, FailedIn, InnerOf, Outer
<1>2. ASSUME NEW w \in Walk PROVE Begun(w)' = Begun(w) /\ Settled(w)' = Settled(w)
  BY <1>1 DEF Begun, Settled, Forked, InnerOf
<1>3. ASSUME NEW w \in Walk PROVE Goroutine(w)'
  <2>1. Goroutine(w) /\ Current(w)' = Current(w)
    BY DEF WalkInv, Current
  <2> QED
    BY <1>1, <1>2, <2>1 DEF Goroutine, Length, First, Frame
<1>4. ASSUME NEW w \in Walk PROVE Dispatches(w)' /\ Progress(w)' = Progress(w)
  <2>1. Progress(w)' = Progress(w)
    BY DEF Progress, Length
  <2>2. Dispatches(w)
    BY DEF WalkInv
  <2> QED
    BY <2>1, <2>2 DEF Dispatches, Made, Flying, Length
<1> QED
  BY <1>3, <1>4 DEF WalkInv

\* The outer join checkpoints the memo and the cause: what every walk has come to
\* is in one of them, since the only callee that stopped between two of its leaves
\* is the one whose frame is the cause.
LEMMA InterruptStep == ASSUME IndInv, JoinOuter, status' = "interrupted" PROVE IndInv'
<1>1. /\ status = "running" /\ Joinable(Outer) /\ ClassifyConcurrent(Outer) = "suspended"
      /\ cp' = [memo |-> memo, slot |-> slot]
      /\ UNCHANGED <<options, memo, seed, slot, thr, inner, effects>>
  BY DEF JoinOuter, Joined, session
<1>2. ~Struck
  BY <1>1 DEF ClassifyConcurrent, Struck, FailedIn
<1>3. \A w \in Walk : thr[w] \in {"done", "suspended"}
  BY <1>1, <1>2, AllOver
<1>4. TypeOK'
  BY <1>1 DEF IndInv, TypeOK
<1>5. \A w \in Walk : WalkInv(w)' /\ Progress(w)' = Progress(w)
  BY <1>1, <1>3, WalksKept DEF IndInv
<1>6. Presented'
  <2>1. ASSUME NEW w \in Walk, Asks(w) PROVE Asks(w)'
    BY <1>1, <2>1 DEF Asks, Current, Begun, Struck, FailedIn, Outer, Forked, InnerOf
  <2> QED
    BY <1>1, <2>1 DEF IndInv, Causes, Presented
<1>7. Causes'
  <2>1. Cause(slot)' /\ Cause(cp.slot)'
    BY <1>1 DEF IndInv, Causes, Cause
  <2> QED
    BY <1>6, <2>1 DEF Causes
<1>8. ASSUME NEW w \in Walk, w \notin memo, Frame(slot, w) # 0 PROVE Asks(w)
  <2>1. slot.kind = "nested" /\ slot.leaf[1] = w
    BY <1>8 DEF Frame
  <2>2. PICK v \in Walk : Asks(v)
    BY <2>1, Empty DEF IndInv, Causes, Presented
  <2>3. v = w
    BY <2>1, <2>2 DEF Asks, Current
  <2> QED
    BY <2>2, <2>3
<1>9. ASSUME NEW w \in Walk PROVE Progress(w) = (IF w \in memo THEN Length(w) ELSE Frame(slot, w))
  <2>1. CASE w \in memo
    BY <2>1 DEF Progress
  <2>2. CASE w \notin memo
    <3>1. WalkInv(w) /\ thr[w] = "suspended" /\ inner[w] \in 0..Body
      BY <1>3, <2>2 DEF IndInv, WalkInv, Goroutine, TypeOK
    <3>2. Progress(w) = inner[w] /\ inner[w] < Length(w)
      BY <2>2, <3>1 DEF Progress, WalkInv, Goroutine
    <3>3. CASE w \notin Sub
      <4>1. inner[w] = 0 /\ Frame(slot, w) = 0
        BY <3>1, <3>2, <3>3, Sizes DEF Frame
      <4> QED
        BY <2>2, <3>2, <4>1
    <3>4. CASE w \in Sub /\ slot = NestedFrame(Current(w), inner[w])
      <4>1. Frame(slot, w) = inner[w]
        BY <3>4 DEF NestedFrame, Current, Frame
      <4> QED
        BY <2>2, <3>2, <4>1
    <3>5. CASE inner[w] = 0
      <4>1. Frame(slot, w) # 0 => slot.inner = inner[w] /\ Frame(slot, w) = slot.inner
        BY <1>8, <2>2 DEF Asks, Frame
      <4>2. Frame(slot, w) = 0
        BY <3>5, <4>1
      <4> QED
        BY <2>2, <3>2, <3>5, <4>2
    <3> QED
      BY <2>2, <3>1, <3>3, <3>4, <3>5 DEF WalkInv, Goroutine
  <2> QED
    BY <2>1, <2>2
<1>10. Kept'
  <2>1. ASSUME NEW w \in Walk PROVE thr'[w] \in {"done", "suspended"} /\ Progress(w)' = Checkpointed(w)'
    <3>1. Checkpointed(w)' = (IF w \in memo THEN Length(w) ELSE Frame(slot, w))
      BY <1>1 DEF Checkpointed, Length, Frame
    <3> QED
      BY <1>1, <1>3, <1>5, <1>9, <3>1
  <2> QED
    BY <2>1 DEF Kept
<1>11. ASSUME NEW w \in Walk, Frame(slot, w) # 0, NEW v \in Walk, v # w, Patient(w, v) PROVE v \in memo
  <2>1. CASE w \in memo
    <3>1. slot.kind = "nested" /\ slot.leaf[1] = w
      BY <1>11 DEF Frame
    <3>2. PICK u \in Walk : Asks(u)
      BY <3>1, Empty DEF IndInv, Causes, Presented
    <3>3. u = w /\ u \notin memo
      BY <3>1, <3>2 DEF Asks, Current
    <3> QED
      BY <2>1, <3>3
  <2>2. CASE w \notin memo
    <3>1. Asks(w) /\ w \in Sub
      BY <1>8, <1>11, <2>2 DEF Frame
    <3>2. CASE v[1] = w[1]
      <4>1. w[2] = 0
        BY <3>1, ForkAssumption
      <4>2. v[2] > 0
        BY <1>11, <3>2, <4>1, Walks
      <4>3. v \in Forked(w)
        BY <3>2, <4>1, <4>2, Groups DEF Forked
      <4>4. thr[v] = "done"
        BY <1>2, <3>1, <4>3 DEF Asks, Begun
      <4> QED
        BY <4>4 DEF IndInv, WalkInv, Goroutine
    <3>3. CASE v \in Sub /\ First(v)
      <4>1. slot.leaf = <<w, inner[w] + 1>>
        BY <3>1 DEF Asks, Current
      <4>2. slot # NestedFrame(Current(v), inner[v])
        BY <1>11, <4>1 DEF NestedFrame, Current
      <4> QED
        BY <1>3, <3>3, <4>2 DEF IndInv, WalkInv, Goroutine
    <3> QED
      BY <1>11, <3>2, <3>3 DEF Patient
  <2> QED
    BY <2>1, <2>2
<1>12. Carried'
  <2>1. status' # "running" /\ cp'.slot = slot /\ cp'.memo = memo
    BY <1>1
  <2> QED
    BY <1>11, <2>1 DEF Carried, Frame, Patient, First
<1> QED
  BY <1>4, <1>5, <1>7, <1>10, <1>12, ConditionsStay DEF IndInv

\* The run ends.
LEMMA EndRunStep == ASSUME IndInv, JoinOuter, status' # "interrupted" PROVE IndInv'
<1>1. /\ status = "running" /\ Joinable(Outer) /\ status' \in {"failed", "succeeded"}
      /\ status' = "succeeded" => ClassifyConcurrent(Outer) = "ok"
      /\ UNCHANGED <<cp, options, memo, seed, slot, thr, inner, effects>>
  BY DEF JoinOuter, Joined, session
<1>2. TypeOK'
  BY <1>1 DEF IndInv, TypeOK
<1>3. \A w \in Walk : WalkInv(w)'
  BY <1>1, WalksKept DEF IndInv
<1>4. Presented'
  <2>1. ASSUME NEW w \in Walk, Asks(w) PROVE Asks(w)'
    BY <1>1, <2>1 DEF Asks, Current, Begun, Struck, FailedIn, Outer, Forked, InnerOf
  <2> QED
    BY <1>1, <2>1 DEF IndInv, Causes, Presented
<1>5. Causes'
  BY <1>1, <1>4 DEF IndInv, Causes, Cause
<1>6. ASSUME status' = "succeeded", NEW w \in Walk PROVE w \in memo
  <2>1. ~Struck /\ ~Suspended
    BY <1>1, <1>6 DEF ClassifyConcurrent, Struck, FailedIn
  <2>2. thr[w] = "done"
    BY <1>1, <2>1, AllOver DEF Suspended
  <2> QED
    BY <2>2 DEF IndInv, WalkInv, Goroutine
<1>7. Kept'
  BY <1>1, <1>6 DEF Kept
<1>8. Carried'
  BY <1>1 DEF IndInv, Carried, Frame, Patient, First
<1> QED
  BY <1>2, <1>3, <1>5, <1>7, <1>8, ConditionsStay DEF IndInv

\* A resume goes on from the checkpoint.
LEMMA ResumeStep == ASSUME IndInv, NEW opt \in Options, Resume(opt) PROVE IndInv'
<1>1. /\ status = "interrupted" /\ status' = "running" /\ options' = opt /\ memo' = cp.memo
      /\ seed' = cp.slot /\ slot' = NoSlot /\ thr' = [w \in Walk |-> "idle"]
      /\ inner' = [w \in Walk |-> 0] /\ UNCHANGED <<cp, effects>>
  BY DEF Resume, Seeded
<1>2. TypeOK'
  BY <1>1, Empty, Sizes DEF IndInv, TypeOK
<1>3. \A w \in Walk : thr'[w] = "idle"
  BY <1>1
<1>4. Causes'
  BY <1>1 DEF IndInv, Causes, Cause, Presented
<1>5. ASSUME NEW w \in Walk PROVE WalkInv(w)'
  <2>1. /\ Progress(w) = Checkpointed(w) /\ thr[w] \in {"done", "suspended"} /\ WalkInv(w)
    BY <1>1 DEF IndInv, Kept
  <2>2. Progress(w)' = Checkpointed(w)
    BY <1>1, <1>3 DEF Progress, Checkpointed, Length, Frame
  <2>3. Goroutine(w)'
    BY <1>3 DEF Goroutine
  <2>4. ASSUME NEW k \in 1..Length(w) PROVE Made(w, k)' = Made(w, k) /\ effects'[<<w, k>>] = effects[<<w, k>>]
    BY <1>1, <1>3, <2>1, <2>2 DEF Made, Flying
  <2>5. Dispatches(w)'
    BY <1>1, <1>3, <2>1, <2>4 DEF WalkInv, Dispatches, Length
  <2> QED
    BY <2>3, <2>5 DEF WalkInv
<1>6. Kept'
  BY <1>1 DEF Kept
<1>7. Carried'
  BY <1>1 DEF IndInv, Carried, Frame, Patient, First
<1> QED
  BY <1>2, <1>4, <1>5, <1>6, <1>7, ConditionsStay DEF IndInv

\* Every step of the specification keeps the invariant.
LEMMA NextInv == IndInv /\ [Next]_vars => IndInv'
<1> SUFFICES ASSUME IndInv, [Next]_vars PROVE IndInv'
  OBVIOUS
<1>1. CASE UNCHANGED vars
  <2>1. \A w \in Walk : WalkInv(w)' /\ Progress(w)' = Progress(w)
    BY <1>1, WalksKept DEF vars, IndInv
  <2>2. TypeOK'
    BY <1>1 DEF vars, IndInv, TypeOK
  <2>3. Causes'
    BY <1>1 DEF vars, IndInv, Causes, Cause, Presented, Asks, Current, Begun, Struck, FailedIn, Outer, Forked, InnerOf
  <2>4. Kept'
    BY <1>1, <2>1 DEF vars, IndInv, Kept, Checkpointed, Length, Frame
  <2>5. Carried'
    BY <1>1 DEF vars, IndInv, Carried, Frame, Patient, First
  <2> QED
    BY <2>1, <2>2, <2>3, <2>4, <2>5, ConditionsStay DEF IndInv
<1> QED
  BY <1>1, GoroutineStep, InterruptStep, EndRunStep, ResumeStep DEF Next, Terminated

\* The inductive invariant holds in every reachable state.
LEMMA Invariance == Shielded /\ NoDeadline /\ Spec => []IndInv
BY InitInv, NextInv, PTL DEF Spec

-----------------------------------------------------------------------------
\* S7 of docs/SOUNDNESS.md for forks and parallel loops: no leaf of any branch
\* leaves the process twice, whatever the order of branches, joins, suspensions
\* and resumes (claimPending, the memo and the seeded frame of execir_invoker.go).
THEOREM NoEffectTwice == Shielded /\ NoDeadline /\ Spec => []EffectOnce
<1>1. IndInv => EffectOnce
  <2> SUFFICES ASSUME IndInv, NEW l \in Leaf PROVE effects[l] <= 1
    BY DEF EffectOnce
  <2>1. PICK w \in Walk : \E k \in 1..Length(w) : l = <<w, k>>
    BY Leafs
  <2>2. effects[l] # 0 => effects[l] = 1
    BY <2>1 DEF IndInv, WalkInv, Dispatches
  <2> QED
    BY <2>2
<1> QED
  BY <1>1, Invariance, PTL

\* A join that reports success had every branch complete (classifyConcurrent): the
\* run is not marked succeeded over a call that failed or was abandoned.
THEOREM SucceedsComplete == Shielded /\ NoDeadline /\ Spec => []SuccessComplete
<1>1. IndInv => SuccessComplete
  <2> SUFFICES ASSUME IndInv, status = "succeeded", NEW l \in Leaf PROVE effects[l] >= 1 /\ l[1] \in memo
    BY DEF SuccessComplete
  <2>1. PICK w \in Walk : \E k \in 1..Length(w) : l = <<w, k>>
    BY Leafs
  <2>2. PICK k \in 1..Length(w) : l = <<w, k>>
    BY <2>1
  <2>3. w \in memo /\ Dispatches(w)
    BY DEF IndInv, Kept, WalkInv
  <2>4. Made(w, k)
    BY <2>3, Sizes DEF Made, Progress
  <2> QED
    BY <2>2, <2>3, <2>4 DEF Dispatches
<1> QED
  BY <1>1, Invariance, PTL

-----------------------------------------------------------------------------
(* The refinement. *)

\* DurableRun's order of calls: those before a leaf in its body, and the inner fork
\* before a branch's own call.
Precedes == [l \in Leaf |-> {m \in Leaf :
               \/ m[1] = l[1] /\ m[2] < l[2]
               \/ l[1][2] = 0 /\ m[1][1] = l[1][1] /\ m[1][2] > 0}]

\* A dispatch makes its call for the first time, in its turn and with its decision.
LEMMA DispatchMakes ==
  ASSUME IndInv, NEW n \in Walk, Call(n) \/ Approve(n)
  PROVE  /\ Current(n) \in Leaf
         /\ effects[Current(n)] = 0 /\ effects' = [effects EXCEPT ![Current(n)] = 1]
         /\ \A d \in Precedes[Current(n)] : effects[d] = 1
         /\ Current(n) \in Gated => options = "auto" \/ cp.slot.leaf = Current(n)
<1> DEFINE c == Current(n)
<1>1. /\ status = "running" /\ thr[n] = "eval" /\ ~Canceled(n)
      /\ effects' = [effects EXCEPT ![c] = IF effects[c] < Twice THEN effects[c] + 1 ELSE effects[c]]
  BY DEF Call, Approve, Dispatched
<1>2. /\ Progress(n) = inner[n] /\ c \in Leaf /\ c = <<n, inner[n] + 1>> /\ inner[n] + 1 \in 1..Length(n)
      /\ inner[n] \in 0..(Length(n) - 1) /\ Begun(n) /\ Dispatches(n)
  BY <1>1, Evaluating
<1>3. effects[c] = 0
  <2>1. ~Made(n, inner[n] + 1) /\ thr[n] \notin {"failed", "canceled"}
    BY <1>1, <1>2, Sizes DEF Made, Flying
  <2> QED
    BY <1>2, <2>1 DEF Dispatches
<1>4. effects' = [effects EXCEPT ![c] = 1]
  BY <1>1, <1>3 DEF Twice
<1>5. ASSUME NEW d \in Precedes[c] PROVE effects[d] = 1
  <2>1. /\ d \in Leaf
        /\ \/ d[1] = n /\ d[2] < inner[n] + 1
           \/ n[2] = 0 /\ d[1][1] = n[1] /\ d[1][2] > 0
    BY <1>2 DEF Precedes
  <2>2. PICK w \in Walk : \E k \in 1..Length(w) : d = <<w, k>>
    BY <2>1, Leafs
  <2>3. PICK k \in 1..Length(w) : d = <<w, k>>
    BY <2>2
  <2>4. Made(w, k) /\ Dispatches(w)
    <3>1. CASE w = n /\ k < inner[n] + 1
      <4>1. k <= Progress(n)
        BY <1>2, <3>1, Sizes
      <4> QED
        BY <1>2, <3>1, <4>1 DEF Made
    <3>2. CASE n[2] = 0 /\ w[1] = n[1] /\ w[2] > 0
      <4>1. w \in Forked(n)
        BY <3>2, Groups DEF Forked
      <4>2. ~Struck
        BY <1>1 DEF Canceled, Broken, Struck, FailedIn
      <4>3. w \in memo /\ Dispatches(w)
        BY <1>2, <4>1, <4>2 DEF Begun, IndInv, WalkInv, Goroutine
      <4> QED
        BY <4>3, Sizes DEF Made, Progress
    <3> QED
      BY <2>1, <2>3, <3>1, <3>2
  <2> QED
    BY <2>3, <2>4 DEF Dispatches
<1>6. c \in Gated => options = "auto" \/ cp.slot.leaf = c
  <2>1. CASE Call(n)
    BY <2>1 DEF Call
  <2>2. CASE Approve(n)
    <3>1. seed.leaf = c /\ seed.kind # "none"
      BY <2>2 DEF Approve, Resolves, ClaimsPending
    <3>2. seed = cp.slot
      BY <1>1, <3>1, Empty DEF IndInv, Causes
    <3> QED
      BY <3>1, <3>2
  <2> QED
    BY <2>1, <2>2
<1> QED
  BY <1>2, <1>3, <1>4, <1>5, <1>6

\* A pause asks about a gate whose call was not made.
LEMMA PauseAsks ==
  ASSUME IndInv, JoinOuter, status' = "interrupted"
  PROVE  cp'.slot.leaf \in {c \in Gated : effects[c] = 0}
<1>1. /\ status = "running" /\ ClassifyConcurrent(Outer) = "suspended" /\ cp'.slot = slot
  BY DEF JoinOuter, Joined
<1>2. slot # NoSlot
  BY <1>1 DEF ClassifyConcurrent, Suspended, IndInv, WalkInv, Goroutine
<1>3. PICK n \in Walk : Asks(n)
  BY <1>2 DEF IndInv, Causes, Presented
<1>4. slot.leaf = Current(n) /\ slot.leaf \in Gated /\ thr[n] = "suspended" /\ n \notin memo
  BY <1>2, <1>3 DEF Asks, IndInv, Causes, Cause
<1>5. Dispatches(n) /\ inner[n] < Length(n) /\ inner[n] \in 0..Body
  BY <1>4 DEF IndInv, WalkInv, Goroutine, TypeOK
<1>6. inner[n] + 1 \in 1..Length(n) /\ ~Made(n, inner[n] + 1)
  BY <1>4, <1>5, Sizes DEF Made, Flying, Progress
<1>7. effects[<<n, inner[n] + 1>>] = 0
  BY <1>4, <1>5, <1>6 DEF Dispatches
<1> QED
  BY <1>1, <1>4, <1>7 DEF Current

\* The initial states are DurableRun's.
LEMMA RefinesInit == Init => Abstract!Init
<1> SUFFICES ASSUME Init PROVE Abstract!Init
  OBVIOUS
<1>1. cp.slot.leaf \notin Gated
  BY ForkAssumption DEF Init, NoSlot
<1> QED
  BY <1>1 DEF Init, Abstract!Init

\* Every step is one of DurableRun's, or is not seen there.
LEMMA RefinesNext == IndInv /\ [Next]_vars => [Abstract!Next]_(Abstract!vars)
<1> SUFFICES ASSUME IndInv, [Next]_vars PROVE [Abstract!Next]_(Abstract!vars)
  OBVIOUS
<1>1. ASSUME UNCHANGED <<status, cp, options, effects>> PROVE UNCHANGED Abstract!vars
  BY <1>1 DEF Abstract!vars
<1>2. ASSUME NEW n \in Walk, Call(n) \/ Approve(n) PROVE Abstract!Next
  <2>1. status = "running" /\ UNCHANGED <<status, cp, options>>
    BY <1>2 DEF Call, Approve, durable
  <2>2. /\ Current(n) \in Leaf
        /\ effects[Current(n)] = 0 /\ effects' = [effects EXCEPT ![Current(n)] = 1]
        /\ \A d \in Precedes[Current(n)] : effects[d] = 1
        /\ Current(n) \in Gated => options = "auto" \/ cp.slot.leaf = Current(n)
    BY <1>2, DispatchMakes
  <2>3. PICK c \in Leaf : c = Current(n)
    BY <2>2
  <2>4. Abstract!Make(c)
    BY <2>1, <2>2, <2>3 DEF Abstract!Make, Precedes
  <2> QED
    BY <2>4 DEF Abstract!Next
<1>3. ASSUME NEW n \in Walk, Step(n) PROVE [Abstract!Next]_(Abstract!vars)
  <2>1. CASE ~(Call(n) \/ Approve(n))
    <3>1. UNCHANGED <<status, cp, options, effects>>
      BY <1>3, <2>1 DEF Step, Launch, JoinInner, Refuse, Pause, Return, Fail, Cancel, durable
    <3> QED
      BY <1>1, <3>1
  <2> QED
    BY <1>2, <2>1
<1>4. CASE JoinOuter /\ status' = "interrupted"
  <2>1. /\ status = "running" /\ status' = "interrupted" /\ UNCHANGED <<options, effects>>
    BY <1>4 DEF JoinOuter, Joined, session
  <2>2. cp'.slot.leaf \in {c \in Gated : effects[c] = 0}
    BY <1>4, PauseAsks
  <2>3. Abstract!Pause
    BY <2>1, <2>2 DEF Abstract!Pause
  <2> QED
    BY <2>3 DEF Abstract!Next
<1>5. CASE JoinOuter /\ status' # "interrupted"
  <2>1. /\ status = "running" /\ status' \in {"failed", "succeeded"} /\ UNCHANGED <<cp, options, effects>>
    BY <1>5 DEF JoinOuter, Joined, session
  <2>2. CASE status' = "failed"
    <3>1. Abstract!Abort
      BY <2>1, <2>2 DEF Abstract!Abort
    <3> QED
      BY <3>1 DEF Abstract!Next
  <2>3. CASE status' = "succeeded"
    <3>1. ASSUME NEW l \in Leaf PROVE effects[l] = 1
      <4>1. IndInv' /\ UNCHANGED <<memo, effects>>
        BY <1>5, EndRunStep DEF JoinOuter, Joined, session
      <4>2. PICK w \in Walk : \E k \in 1..Length(w) : l = <<w, k>>
        BY Leafs
      <4>3. PICK k \in 1..Length(w) : l = <<w, k>>
        BY <4>2
      <4>4. w \in memo /\ Dispatches(w)
        BY <2>3, <4>1 DEF IndInv, Kept, WalkInv
      <4>5. Made(w, k)
        BY <4>4, Sizes DEF Made, Progress
      <4> QED
        BY <4>3, <4>4, <4>5 DEF Dispatches
    <3>2. Abstract!Succeed
      BY <2>1, <2>3, <3>1 DEF Abstract!Succeed
    <3> QED
      BY <3>2 DEF Abstract!Next
  <2> QED
    BY <2>1, <2>2, <2>3
<1>6. ASSUME NEW opt \in Options, Resume(opt) PROVE Abstract!Next
  <2>1. Abstract!Continue
    BY <1>6 DEF Resume, Seeded, Abstract!Continue
  <2> QED
    BY <2>1 DEF Abstract!Next
<1>7. CASE UNCHANGED vars
  BY <1>1, <1>7 DEF vars
<1> QED
  BY <1>3, <1>4, <1>5, <1>6, <1>7 DEF Next, Terminated

\* Fork, parallel loop, invoker and checkpoint together implement the durable run:
\* each leaf at most once, an inner fork before its branch's own call and a callee's
\* leaves in body order, a gated call only under a decision on the gate the
\* checkpoint asked about, over any number of pauses and resumes.
THEOREM ImplementsDurableRun == Shielded /\ NoDeadline /\ Spec => Refines
BY RefinesNext, Invariance, RefinesInit, PTL DEF Spec, Refines, Abstract!Spec
=============================================================================
