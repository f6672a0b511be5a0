---------------------------- MODULE RunStoreProofs ----------------------------
(***************************************************************************)
(* What the store keeps of a run, for any number of processes, runs, gates *)
(* and rows.  Its row and checkpoints (RunLifecycle): one executor per run, *)
(* at most one dispatch per gated call, and finished runs finished.  Its    *)
(* trace (AuditChain): audit verify accepts what the program wrote, and     *)
(* what it accepts after any changes behind the program's back the program  *)
(* wrote.                                                                   *)
(***************************************************************************)
EXTENDS RunLifecycle, AuditChain, TLAPS, WellFoundedInduction, FiniteSetTheorems, SequenceTheorems

-----------------------------------------------------------------------------
(* Runs and checkpoints. *)

\* The initial states satisfy the types and the strengthened invariant: no
\* process holds a run and no run has made a call.
LEMMA InitInv == Init => TypeOK /\ IndInv
BY LifecycleAssumption
DEF Init, TypeOK, IndInv, SingleExecutor, EffectOnce, HolderInv, Holds, Made, Presented,
    InterruptedPresents, SucceededRan, RowStatus, Checkpoint, PC, Executing, Terminal, Twice

\* The types after a gated call is dispatched.
LEMMA DispatchType ==
  ASSUME TypeOK, NEW p \in Proc, pos[p] < Gates, Dispatch(p)
  PROVE  /\ effects' \in [Run -> [1..Gates -> 0..Twice]]
         /\ pos' \in [Proc -> 0..Gates]
         /\ pc' \in [Proc -> PC]
<1>1. pos[p] + 1 \in 1..Gates /\ job[p] \in Run
  BY LifecycleAssumption DEF TypeOK
<1>2. effects' \in [Run -> [1..Gates -> 0..Twice]]
  <2>1. effects' = [effects EXCEPT ![job[p]] =
                      [effects[job[p]] EXCEPT ![pos[p] + 1] = IF @ < Twice THEN @ + 1 ELSE @]]
    BY DEF Dispatch
  <2>2. [effects[job[p]] EXCEPT ![pos[p] + 1] = IF @ < Twice THEN @ + 1 ELSE @]
          \in [1..Gates -> 0..Twice]
    <3>1. effects[job[p]] \in [1..Gates -> 0..Twice]
      BY <1>1 DEF TypeOK
    <3>2. effects[job[p]][pos[p] + 1] \in 0..Twice
      BY <1>1, <3>1
    <3>3. (IF effects[job[p]][pos[p] + 1] < Twice
           THEN effects[job[p]][pos[p] + 1] + 1
           ELSE effects[job[p]][pos[p] + 1]) \in 0..Twice
      BY <3>2 DEF Twice
    <3> HIDE DEF Twice
    <3> QED
      BY <3>1, <3>3
  <2> QED
    BY <1>1, <2>1, <2>2 DEF TypeOK
<1>3. pos' \in [Proc -> 0..Gates]
  <2>1. pos[p] + 1 \in 0..Gates
    BY <1>1, LifecycleAssumption
  <2> QED
    BY <2>1 DEF Dispatch, TypeOK
<1>4. pc' \in [Proc -> PC]
  BY DEF Dispatch, Goto, TypeOK, PC, Executing
<1> QED
  BY <1>2, <1>3, <1>4

\* Every action keeps every variable in its type.  Two need IndInv: the gate an
\* operator is shown exists (Decide), and so does the one a decision is applied
\* to (Resolve).
LEMMA TypeStep == TypeOK /\ IndInv /\ [Next]_vars => TypeOK'
<1> SUFFICES ASSUME TypeOK, IndInv, [Next]_vars PROVE TypeOK'
  OBVIOUS
<1> USE LifecycleAssumption DEF TypeOK, Goto
<1>0. /\ {"ready", "chosen", "checked", "claimed", "dead"} \cup Executing \subseteq PC
      /\ {"absent", "running", "interrupted", "pruned", "succeeded", "failed"} \subseteq RowStatus
  BY DEF PC, Executing, RowStatus, Terminal
<1>00. \A s \in {"none", "interrupted", "completed", "failed"}, k \in 0..Gates :
         [status |-> s, done |-> k] \in Checkpoint
  BY DEF Checkpoint
<1>1. ASSUME NEW p \in Proc, NEW r \in Run, Invoke(p, r)
      PROVE  TypeOK'
  <2>1. row' \in [Run -> RowStatus]
    BY <1>1, <1>0 DEF Invoke
  <2>2. pc' \in [Proc -> PC]
    BY <1>1, <1>0 DEF Invoke, Executing
  <2>3. job' \in [Proc -> Run] /\ pos' \in [Proc -> 0..Gates]
    BY <1>1 DEF Invoke
  <2>4. answer' \in [Proc -> Decision \cup {"none"}]
    BY <1>1 DEF Invoke
  <2>5. UNCHANGED <<cp, shown, effects, consumed>>
    BY <1>1 DEF Invoke
  <2> QED
    BY <2>1, <2>2, <2>3, <2>4, <2>5
<1>2. ASSUME NEW p \in Proc, NEW r \in Run, NEW d \in Decision, Decide(p, r, d)
      PROVE  TypeOK'
  <2>1. cp[r].done + 1 \in 0..Gates
    BY <1>2 DEF Decide, IndInv, InterruptedPresents, Presented, Checkpoint
  <2> QED
    BY <1>2, <2>1, <1>0 DEF Decide
<1>3. ASSUME NEW p \in Proc, CheckResumable(p)
      PROVE  TypeOK'
  <2>1. pc' = [pc EXCEPT ![p] = "checked"] \/ pc' = [pc EXCEPT ![p] = "ready"]
    BY <1>3 DEF CheckResumable
  <2>2. pc' \in [Proc -> PC]
    BY <2>1, <1>0
  <2> QED
    BY <1>3, <2>2 DEF CheckResumable
<1>4. ASSUME NEW p \in Proc, ClaimRunForResume(p)
      PROVE  TypeOK'
  <2>1. row' \in [Run -> RowStatus]
    <3>1. row' = row \/ row' = [row EXCEPT ![job[p]] = "running"]
      BY <1>4 DEF ClaimRunForResume
    <3>2. CASE row' = row
      BY <3>2
    <3>3. CASE row' = [row EXCEPT ![job[p]] = "running"]
      BY <3>3, <1>0
    <3> QED
      BY <3>1, <3>2, <3>3
  <2>2. pc' \in [Proc -> PC]
    BY <1>4, <1>0 DEF ClaimRunForResume
  <2>3. UNCHANGED <<cp, job, shown, answer, pos, effects, consumed>>
    BY <1>4 DEF ClaimRunForResume
  <2> QED
    BY <2>1, <2>2, <2>3
<1>5. ASSUME NEW p \in Proc, StartEngine(p)
      PROVE  TypeOK'
  BY <1>5, <1>0 DEF StartEngine, Executing
<1>6. ASSUME NEW p \in Proc, LoadCheckpoint(p)
      PROVE  TypeOK'
  <2>1. cp[job[p]].done \in 0..Gates
    BY DEF Checkpoint
  <2>2. pos' = pos \/ pos' = [pos EXCEPT ![p] = cp[job[p]].done]
    BY <1>6 DEF LoadCheckpoint
  <2>3. pos' \in [Proc -> 0..Gates]
    BY <2>1, <2>2
  <2>4. pc' \in [Proc -> PC]
    BY <1>6, <1>0 DEF LoadCheckpoint, Executing
  <2>5. UNCHANGED <<row, cp, job, shown, answer, effects, consumed>>
    BY <1>6 DEF LoadCheckpoint
  <2> QED
    BY <2>3, <2>4, <2>5
<1>7. ASSUME NEW p \in Proc, Resolve(p)
      PROVE  TypeOK'
  <2>0. pos[p] < Gates
    BY <1>7 DEF Resolve, IndInv, HolderInv
  <2>1. shown[p] \in 0..Gates /\ pos[p] + 1 \in 1..Gates
    BY <2>0
  <2>2. consumed' \subseteq (0..Gates) \X (1..Gates)
    BY <1>7, <2>1 DEF Resolve
  <2>3. UNCHANGED <<row, cp, job, shown, answer>>
    BY <1>7 DEF Resolve
  <2>4. CASE Dispatch(p)
    BY <2>0, <2>2, <2>3, <2>4, DispatchType
  <2>5. CASE UNCHANGED <<effects, pos>> /\ \E l \in {"unanswered", "failing"} : Goto(p, l)
    <3>1. pc' \in [Proc -> PC]
      BY <2>5, <1>0 DEF Executing
    <3> QED
      BY <2>2, <2>3, <2>5, <3>1
  <2> QED
    BY <1>7, <2>4, <2>5 DEF Resolve
<1>15. ASSUME NEW p \in Proc, AutoApprove(p)
      PROVE  TypeOK'
  <2>1. UNCHANGED <<row, cp, job, shown, answer, consumed>>
    BY <1>15 DEF AutoApprove
  <2> QED
    BY <1>15, <2>1, DispatchType DEF AutoApprove
<1>8. ASSUME NEW p \in Proc, Walk(p)
      PROVE  TypeOK'
  <2>0. pos[p] \in 0..Gates
    OBVIOUS
  <2>1. cp' \in [Run -> Checkpoint]
    <3>1. \A s \in {"interrupted", "completed"} : [status |-> s, done |-> pos[p]] \in Checkpoint
      BY <2>0, <1>00
    <3>2. cp' = cp \/ \E s \in {"interrupted", "completed"} :
                         cp' = [cp EXCEPT ![job[p]] = [status |-> s, done |-> pos[p]]]
      BY <1>8 DEF Walk, Saved
    <3>3. ASSUME NEW s \in {"interrupted", "completed"},
                 cp' = [cp EXCEPT ![job[p]] = [status |-> s, done |-> pos[p]]]
          PROVE  cp' \in [Run -> Checkpoint]
      BY <3>1, <3>3
    <3>4. CASE cp' = cp
      BY <3>4
    <3> QED
      BY <3>2, <3>3, <3>4
  <2>2. pc' \in [Proc -> PC]
    BY <1>8, <1>0 DEF Walk, Saved, Executing
  <2> QED
    BY <1>8, <2>1, <2>2 DEF Walk, Saved
<1>9. ASSUME NEW p \in Proc, MarkInterrupted(p)
      PROVE  TypeOK'
  <2>1. row' \in [Run -> RowStatus]
    <3>1. row' = row \/ row' = [row EXCEPT ![job[p]] = "interrupted"]
      BY <1>9 DEF MarkInterrupted
    <3>2. CASE row' = row
      BY <3>2
    <3>3. CASE row' = [row EXCEPT ![job[p]] = "interrupted"]
      BY <3>3, <1>0
    <3> QED
      BY <3>1, <3>2, <3>3
  <2>2. pc' \in [Proc -> PC]
    BY <1>9, <1>0 DEF MarkInterrupted
  <2> QED
    BY <1>9, <2>1, <2>2 DEF MarkInterrupted
<1>10. ASSUME NEW p \in Proc, FinishRun(p)
      PROVE  TypeOK'
  <2>1. row' \in [Run -> RowStatus]
    <3>1. row' = row \/ row' = [row EXCEPT ![job[p]] = "succeeded"]
      BY <1>10 DEF FinishRun
    <3>2. CASE row' = row
      BY <3>2
    <3>3. CASE row' = [row EXCEPT ![job[p]] = "succeeded"]
      BY <3>3, <1>0
    <3> QED
      BY <3>1, <3>2, <3>3
  <2>2. pc' \in [Proc -> PC]
    BY <1>10, <1>0 DEF FinishRun
  <2> QED
    BY <1>10, <2>1, <2>2 DEF FinishRun
<1>11. ASSUME NEW p \in Proc, FailRun(p)
      PROVE  TypeOK'
  <2>0. [status |-> "failed", done |-> 0] \in Checkpoint
    BY <1>00
  <2>1. cp' \in [Run -> Checkpoint]
    <3>1. cp' = cp \/ cp' = [cp EXCEPT ![job[p]] = [status |-> "failed", done |-> 0]]
      BY <1>11 DEF FailRun
    <3>2. CASE cp' = cp
      BY <3>2
    <3>3. CASE cp' = [cp EXCEPT ![job[p]] = [status |-> "failed", done |-> 0]]
      BY <3>3, <2>0
    <3> QED
      BY <3>1, <3>2, <3>3
  <2>2. row' \in [Run -> RowStatus]
    <3>1. row' = row \/ row' = [row EXCEPT ![job[p]] = "failed"]
      BY <1>11 DEF FailRun
    <3>2. CASE row' = row
      BY <3>2
    <3>3. CASE row' = [row EXCEPT ![job[p]] = "failed"]
      BY <3>3, <1>0
    <3> QED
      BY <3>1, <3>2, <3>3
  <2>3. pc' \in [Proc -> PC]
    BY <1>11, <1>0 DEF FailRun
  <2> QED
    BY <1>11, <2>1, <2>2, <2>3 DEF FailRun
<1>12. ASSUME NEW r \in Run, PruneRun(r)
      PROVE  TypeOK'
  BY <1>12, <1>0 DEF PruneRun, Executing
<1>13. ASSUME NEW p \in Proc, Crash(p)
      PROVE  TypeOK'
  BY <1>13, <1>0 DEF Crash, Executing
<1>14. CASE UNCHANGED vars
  BY <1>14 DEF vars
<1> QED
  BY <1>1, <1>2, <1>3, <1>4, <1>5, <1>6, <1>7,
     <1>8, <1>9, <1>10, <1>11, <1>12, <1>13, <1>14, <1>15 DEF Next, Advance

\* What the row of r promises, whoever holds it.
RowInv(r) ==
  /\ \A k \in 1..Gates : effects[r][k] <= 1
  /\ row[r] = "absent" => Made(r, 0)
  /\ row[r] = "interrupted" => Presented(r)
  /\ row[r] = "succeeded" => Made(r, Gates)

\* The invariant, arranged by run and by process.
LEMMA IndInvParts ==
  IndInv <=> SingleExecutor /\ (\A p \in Proc : HolderInv(p)) /\ (\A r \in Run : RowInv(r))
BY DEF IndInv, RowInv, EffectOnce, InterruptedPresents, SucceededRan

\* What a holder may count on: its row is running and nobody else holds it.
LEMMA HolderAlone ==
  ASSUME IndInv, NEW p \in Proc, Holds(p)
  PROVE  /\ row[job[p]] = "running"
         /\ \A q \in Proc : q # p /\ Holds(q) => job[q] # job[p]
BY DEF IndInv, SingleExecutor, HolderInv

\* A step that leaves alone what a process relies on leaves its invariant alone.
LEMMA HolderFrame ==
  ASSUME NEW q \in Proc, HolderInv(q),
         pc'[q] = pc[q], job'[q] = job[q], pos'[q] = pos[q],
         Holds(q) => /\ row'[job[q]] = row[job[q]]
                     /\ cp'[job[q]] = cp[job[q]]
                     /\ effects'[job[q]] = effects[job[q]]
  PROVE  HolderInv(q)'
BY DEF HolderInv, Holds, Made, Presented, Executing

\* A step that does not touch a run leaves what its row promises alone.
LEMMA RowFrame ==
  ASSUME NEW r \in Run, RowInv(r),
         row'[r] = row[r], cp'[r] = cp[r], effects'[r] = effects[r]
  PROVE  RowInv(r)'
BY DEF RowInv, Made, Presented

\* Nobody new holds a run, or p alone does and nobody held that one.
LEMMA HolderSet ==
  ASSUME SingleExecutor, NEW p \in Proc,
         \A q \in Proc : q # p => pc'[q] = pc[q] /\ job'[q] = job[q],
         Holds(p)' => \A q \in Proc : q # p /\ Holds(q) => job[q] # job'[p]
  PROVE  SingleExecutor'
BY DEF SingleExecutor, Holds

\* The common part of every step of a process p that works on run r: if p is
\* the only holder r may have, and the step touches no other process and no
\* other run, only p's own invariant and r's row are left to check.
LEMMA OwnStep ==
  ASSUME TypeOK, IndInv, NEW p \in Proc, NEW r \in Run,
         \A q \in Proc : q # p /\ Holds(q) => job[q] # r,
         Holds(p)' => job'[p] = r,
         \A q \in Proc : q # p => pc'[q] = pc[q] /\ job'[q] = job[q] /\ pos'[q] = pos[q],
         \A s \in Run : s # r => row'[s] = row[s] /\ cp'[s] = cp[s] /\ effects'[s] = effects[s],
         HolderInv(p)', RowInv(r)'
  PROVE  IndInv'
<1>1. SingleExecutor'
  BY HolderSet, IndInvParts
<1>2. ASSUME NEW q \in Proc, q # p PROVE HolderInv(q)'
  <2>1. job[q] \in Run
    BY DEF TypeOK
  <2> QED
    BY <1>2, <2>1, HolderFrame, IndInvParts
<1>3. ASSUME NEW s \in Run, s # r PROVE RowInv(s)'
  BY <1>3, RowFrame, IndInvParts
<1> QED
  BY <1>1, <1>2, <1>3 DEF IndInv, RowInv, EffectOnce, InterruptedPresents, SucceededRan

\* A step that changes no row, no checkpoint, no effect, and only the pc of p,
\* to a place where it holds nothing.
LEMMA IdleStep ==
  ASSUME TypeOK, IndInv, NEW p \in Proc,
         UNCHANGED <<row, cp, pos, effects>>,
         ~Holds(p)',
         \A q \in Proc : q # p => pc'[q] = pc[q] /\ job'[q] = job[q]
  PROVE  IndInv'
<1>1. SingleExecutor'
  BY HolderSet, IndInvParts
<1>2. HolderInv(p)'
  BY DEF HolderInv, Holds, Executing
<1>3. ASSUME NEW q \in Proc, q # p PROVE HolderInv(q)'
  BY <1>3, HolderFrame, IndInvParts
<1>4. ASSUME NEW s \in Run PROVE RowInv(s)'
  BY <1>4, RowFrame, IndInvParts
<1> QED
  BY <1>1, <1>2, <1>3, <1>4 DEF IndInv, RowInv, EffectOnce, InterruptedPresents, SucceededRan

\* A holder that dispatches the next call keeps count of it.
LEMMA DispatchInv ==
  ASSUME TypeOK, IndInv, NEW p \in Proc, Holds(p),
         Made(job[p], pos[p]), pos[p] < Gates,
         Dispatch(p), UNCHANGED <<row, cp, job>>
  PROVE  IndInv'
<1> USE LifecycleAssumption
<1>1. /\ job[p] \in Run /\ row[job[p]] = "running" /\ pos[p] \in 0..Gates
      /\ \A q \in Proc : q # p /\ Holds(q) => job[q] # job[p]
  BY HolderAlone DEF TypeOK
<1>2. /\ pos'[p] = pos[p] + 1 /\ pc'[p] = "walking"
      /\ \A q \in Proc : q # p => pc'[q] = pc[q] /\ pos'[q] = pos[q]
  BY DEF Dispatch, Goto, TypeOK
<1>3. \A j \in 1..Gates : effects'[job[p]][j] = (IF j <= pos[p] + 1 THEN 1 ELSE 0)
  BY <1>1 DEF Dispatch, Made, TypeOK, Twice
<1>4. HolderInv(p)'
  BY <1>1, <1>2, <1>3 DEF HolderInv, Holds, Executing, Made
<1>5. RowInv(job[p])'
  BY <1>1, <1>3 DEF RowInv
<1>6. \A s \in Run : s # job[p] => effects'[s] = effects[s]
  BY <1>1 DEF Dispatch, TypeOK
<1> QED
  BY <1>1, <1>2, <1>4, <1>5, <1>6, OwnStep

\* The strengthened invariant is inductive.
LEMMA IndStep == TypeOK /\ IndInv /\ [Next]_vars => IndInv'
<1> SUFFICES ASSUME TypeOK, IndInv, [Next]_vars PROVE IndInv'
  OBVIOUS
<1> USE LifecycleAssumption
<1>1. ASSUME NEW p \in Proc, NEW r \in Run, Invoke(p, r)
      PROVE  IndInv'
  <2>1. \A q \in Proc : q # p /\ Holds(q) => job[q] # r
    BY <1>1, HolderAlone DEF Invoke
  <2>2. /\ row'[r] = "running" /\ pc'[p] \in {"walking", "ready"} /\ job'[p] = r /\ pos'[p] = 0
        /\ effects' = effects /\ cp' = cp
    BY <1>1 DEF Invoke, Goto, TypeOK
  <2>3. Made(r, 0) /\ Made(r, 0)'
    BY <1>1, <2>2, IndInvParts DEF Invoke, RowInv, Made
  <2>4. HolderInv(p)'
    BY <2>2, <2>3 DEF HolderInv, Holds, Executing, Made
  <2>5. RowInv(r)'
    BY <2>2, IndInvParts DEF RowInv
  <2>6. /\ \A q \in Proc : q # p => pc'[q] = pc[q] /\ job'[q] = job[q] /\ pos'[q] = pos[q]
        /\ \A t \in Run : t # r => row'[t] = row[t]
    BY <1>1 DEF Invoke, Goto, TypeOK
  <2> QED
    BY <2>1, <2>2, <2>4, <2>5, <2>6, OwnStep
<1>2. ASSUME NEW p \in Proc, NEW r \in Run, NEW d \in Decision, Decide(p, r, d)
      PROVE  IndInv'
  <2>1. ~Holds(p)' /\ \A q \in Proc : q # p => pc'[q] = pc[q] /\ job'[q] = job[q]
    BY <1>2 DEF Decide, Goto, Holds, Executing, TypeOK
  <2> QED
    BY <1>2, <2>1, IdleStep DEF Decide
<1>3. ASSUME NEW p \in Proc, CheckResumable(p)
      PROVE  IndInv'
  <2>1. ~Holds(p)' /\ \A q \in Proc : q # p => pc'[q] = pc[q] /\ job'[q] = job[q]
    BY <1>3 DEF CheckResumable, Goto, Holds, Executing, TypeOK
  <2> QED
    BY <1>3, <2>1, IdleStep DEF CheckResumable
<1>4. ASSUME NEW p \in Proc, ClaimRunForResume(p)
      PROVE  IndInv'
  <2>1. CASE row[job[p]] # "interrupted"
    <3>1. ~Holds(p)' /\ \A q \in Proc : q # p => pc'[q] = pc[q] /\ job'[q] = job[q]
      BY <1>4, <2>1 DEF ClaimRunForResume, Goto, Holds, Executing, TypeOK
    <3> QED
      BY <1>4, <2>1, <3>1, IdleStep DEF ClaimRunForResume
  <2>2. CASE row[job[p]] = "interrupted"
    <3>1. job[p] \in Run /\ \A q \in Proc : q # p /\ Holds(q) => job[q] # job[p]
      BY <2>2, HolderAlone DEF TypeOK
    <3>2. /\ row' = [row EXCEPT ![job[p]] = "running"] /\ pc' = [pc EXCEPT ![p] = "claimed"]
          /\ UNCHANGED <<cp, job, pos, effects>>
      BY <1>4, <2>2 DEF ClaimRunForResume, Goto
    <3>3. Presented(job[p])'
      BY <2>2, <3>1, <3>2, IndInvParts DEF RowInv, Presented, Made
    <3>4. HolderInv(p)'
      BY <3>1, <3>2, <3>3 DEF HolderInv, Holds, Executing, TypeOK, Presented, Made
    <3>5. RowInv(job[p])'
      BY <3>1, <3>2, IndInvParts DEF RowInv, TypeOK
    <3> QED
      BY <3>1, <3>2, <3>4, <3>5, OwnStep DEF TypeOK
  <2> QED
    BY <2>1, <2>2
<1>5. ASSUME NEW p \in Proc, StartEngine(p)
      PROVE  IndInv'
  <2>1. /\ job[p] \in Run /\ row[job[p]] = "running"
        /\ \A q \in Proc : q # p /\ Holds(q) => job[q] # job[p]
    BY <1>5, HolderAlone DEF StartEngine, Holds, Executing, TypeOK
  <2>2. Presented(job[p])
    BY <1>5 DEF StartEngine, IndInv, HolderInv
  <2>3. HolderInv(p)'
    BY <1>5, <2>1, <2>2 DEF StartEngine, Goto, HolderInv, Holds, Executing, TypeOK, Presented, Made
  <2>4. RowInv(job[p])'
    BY <1>5, <2>1, IndInvParts, RowFrame DEF StartEngine
  <2>5. /\ job' = job
        /\ \A q \in Proc : q # p => pc'[q] = pc[q] /\ pos'[q] = pos[q]
        /\ \A s \in Run : s # job[p] => row'[s] = row[s] /\ cp'[s] = cp[s] /\ effects'[s] = effects[s]
    BY <1>5, <2>1 DEF StartEngine, Goto, TypeOK
  <2> QED
    BY <2>1, <2>3, <2>4, <2>5, OwnStep
<1>6. ASSUME NEW p \in Proc, LoadCheckpoint(p)
      PROVE  IndInv'
  <2>1. /\ job[p] \in Run /\ row[job[p]] = "running"
        /\ \A q \in Proc : q # p /\ Holds(q) => job[q] # job[p]
    BY <1>6, HolderAlone DEF LoadCheckpoint, Holds, Executing, TypeOK
  <2>2. Presented(job[p])
    BY <1>6 DEF LoadCheckpoint, IndInv, HolderInv
  <2>3. HolderInv(p)'
    <3>1. CASE pos'[p] = cp[job[p]].done /\ pc'[p] = "resolving"
      BY <1>6, <2>1, <2>2, <3>1 DEF LoadCheckpoint, HolderInv, Holds, Executing, Presented, Made
    <3>2. CASE pc'[p] = "failing"
      BY <1>6, <2>1, <3>2 DEF LoadCheckpoint, HolderInv, Holds, Executing
    <3> QED
      BY <1>6, <3>1, <3>2 DEF LoadCheckpoint, Goto, TypeOK
  <2>4. RowInv(job[p])'
    BY <1>6, <2>1, IndInvParts, RowFrame DEF LoadCheckpoint
  <2>5. /\ job' = job
        /\ \A q \in Proc : q # p => pc'[q] = pc[q] /\ pos'[q] = pos[q]
        /\ \A s \in Run : s # job[p] => row'[s] = row[s] /\ cp'[s] = cp[s] /\ effects'[s] = effects[s]
    BY <1>6, <2>1 DEF LoadCheckpoint, Goto, TypeOK
  <2> QED
    BY <2>1, <2>3, <2>4, <2>5, OwnStep
<1>7. ASSUME NEW p \in Proc, Resolve(p)
      PROVE  IndInv'
  <2>1. Holds(p) /\ Made(job[p], pos[p]) /\ pos[p] < Gates
    BY <1>7, IndInvParts DEF Resolve, HolderInv, Holds, Executing
  <2>2. UNCHANGED <<row, cp, job>>
    BY <1>7 DEF Resolve
  <2>3. CASE Dispatch(p)
    BY <2>1, <2>2, <2>3, DispatchInv
  <2>4. CASE UNCHANGED <<effects, pos>> /\ \E l \in {"unanswered", "failing"} : Goto(p, l)
    <3>1. /\ job[p] \in Run /\ row[job[p]] = "running"
          /\ \A q \in Proc : q # p /\ Holds(q) => job[q] # job[p]
      BY <2>1, HolderAlone DEF TypeOK
    <3>2. pc'[p] \in {"unanswered", "failing"} /\ \A q \in Proc : q # p => pc'[q] = pc[q]
      BY <2>4 DEF Goto, TypeOK
    <3>3. HolderInv(p)'
      BY <2>2, <2>4, <3>1, <3>2 DEF HolderInv, Holds, Executing
    <3>4. RowInv(job[p])'
      BY <2>2, <2>4, <3>1, IndInvParts, RowFrame
    <3> QED
      BY <2>2, <2>4, <3>1, <3>2, <3>3, <3>4, OwnStep
  <2> QED
    BY <1>7, <2>3, <2>4 DEF Resolve
<1>15. ASSUME NEW p \in Proc, AutoApprove(p)
      PROVE  IndInv'
  <2>1. Holds(p) /\ Made(job[p], pos[p]) /\ pos[p] < Gates
    BY <1>15, IndInvParts DEF AutoApprove, HolderInv, Holds, Executing
  <2>2. UNCHANGED <<row, cp, job>> /\ Dispatch(p)
    BY <1>15 DEF AutoApprove
  <2> QED
    BY <2>1, <2>2, DispatchInv
<1>8. ASSUME NEW p \in Proc, Walk(p)
      PROVE  IndInv'
  <2>1. /\ job[p] \in Run /\ row[job[p]] = "running"
        /\ \A q \in Proc : q # p /\ Holds(q) => job[q] # job[p]
    BY <1>8, HolderAlone DEF Walk, Saved, Holds, Executing, TypeOK
  <2>2. Made(job[p], pos[p]) /\ pos[p] \in 0..Gates
    BY <1>8, IndInvParts DEF Walk, Saved, HolderInv, Executing, TypeOK
  <2>3. HolderInv(p)'
    BY <1>8, <2>1, <2>2 DEF Walk, Saved, Goto, HolderInv, Holds, Executing, TypeOK, Made
  <2>4. RowInv(job[p])'
    BY <1>8, <2>1, IndInvParts DEF Walk, Saved, RowInv
  <2>5. /\ job' = job
        /\ \A q \in Proc : q # p => pc'[q] = pc[q] /\ pos'[q] = pos[q]
        /\ \A s \in Run : s # job[p] => row'[s] = row[s] /\ cp'[s] = cp[s] /\ effects'[s] = effects[s]
    BY <1>8, <2>1 DEF Walk, Saved, Goto, TypeOK
  <2> QED
    BY <2>1, <2>3, <2>4, <2>5, OwnStep
<1>9. ASSUME NEW p \in Proc, MarkInterrupted(p)
      PROVE  IndInv'
  <2>1. /\ job[p] \in Run /\ row[job[p]] = "running"
        /\ \A q \in Proc : q # p /\ Holds(q) => job[q] # job[p]
    BY <1>9, HolderAlone DEF MarkInterrupted, Holds, Executing, TypeOK
  <2>2. /\ Made(job[p], pos[p]) /\ pos[p] < Gates
        /\ cp[job[p]] = [status |-> "interrupted", done |-> pos[p]]
    BY <1>9, IndInvParts DEF MarkInterrupted, HolderInv, Executing
  <2>3. HolderInv(p)'
    BY <1>9 DEF MarkInterrupted, Goto, HolderInv, Holds, Executing, TypeOK
  <2>4. RowInv(job[p])'
    BY <1>9, <2>1, <2>2, IndInvParts DEF MarkInterrupted, RowInv, Presented, Made, TypeOK
  <2>5. /\ job' = job
        /\ \A q \in Proc : q # p => pc'[q] = pc[q] /\ pos'[q] = pos[q]
        /\ \A s \in Run : s # job[p] => row'[s] = row[s] /\ cp'[s] = cp[s] /\ effects'[s] = effects[s]
    BY <1>9, <2>1 DEF MarkInterrupted, Goto, TypeOK
  <2> QED
    BY <2>1, <2>3, <2>4, <2>5, OwnStep
<1>10. ASSUME NEW p \in Proc, FinishRun(p)
      PROVE  IndInv'
  <2>1. /\ job[p] \in Run /\ row[job[p]] = "running"
        /\ \A q \in Proc : q # p /\ Holds(q) => job[q] # job[p]
    BY <1>10, HolderAlone DEF FinishRun, Holds, Executing, TypeOK
  <2>0. pos[p] = Gates /\ Made(job[p], pos[p])
    BY <1>10 DEF FinishRun, IndInv, HolderInv, Executing
  <2>2. Made(job[p], Gates)
    BY <2>0
  <2>3. HolderInv(p)'
    BY <1>10 DEF FinishRun, Goto, HolderInv, Holds, Executing, TypeOK
  <2>4. RowInv(job[p])'
    BY <1>10, <2>1, <2>2, IndInvParts DEF FinishRun, RowInv, Made, TypeOK
  <2>5. /\ job' = job
        /\ \A q \in Proc : q # p => pc'[q] = pc[q] /\ pos'[q] = pos[q]
        /\ \A s \in Run : s # job[p] => row'[s] = row[s] /\ cp'[s] = cp[s] /\ effects'[s] = effects[s]
    BY <1>10, <2>1 DEF FinishRun, Goto, TypeOK
  <2> QED
    BY <2>1, <2>3, <2>4, <2>5, OwnStep
<1>11. ASSUME NEW p \in Proc, FailRun(p)
      PROVE  IndInv'
  <2>1. /\ job[p] \in Run /\ row[job[p]] = "running"
        /\ \A q \in Proc : q # p /\ Holds(q) => job[q] # job[p]
    BY <1>11, HolderAlone DEF FailRun, Holds, Executing, TypeOK
  <2>2. row'[job[p]] \in {"running", "failed"} /\ effects' = effects /\ job' = job
    BY <1>11, <2>1 DEF FailRun, TypeOK
  <2>3. HolderInv(p)'
    BY <1>11 DEF FailRun, Goto, HolderInv, Holds, Executing, TypeOK
  <2>4. RowInv(job[p])'
    <3>1. RowInv(job[p])
      BY <2>1, IndInvParts
    <3> QED
      BY <2>2, <3>1 DEF RowInv
  <2>5. /\ job' = job
        /\ \A q \in Proc : q # p => pc'[q] = pc[q] /\ pos'[q] = pos[q]
        /\ \A s \in Run : s # job[p] => row'[s] = row[s] /\ cp'[s] = cp[s] /\ effects'[s] = effects[s]
    BY <1>11, <2>1 DEF FailRun, Goto, TypeOK
  <2> QED
    BY <2>1, <2>3, <2>4, <2>5, OwnStep
<1>12. ASSUME NEW r \in Run, PruneRun(r)
      PROVE  IndInv'
  <2>1. ASSUME NEW q \in Proc PROVE HolderInv(q)'
    <3>1. Holds(q) => job[q] # r
      BY <1>12, HolderAlone DEF PruneRun, Terminal
    <3> QED
      BY <1>12, <3>1, HolderFrame, IndInvParts DEF PruneRun, TypeOK
  <2>2. SingleExecutor'
    BY <1>12, IndInvParts DEF PruneRun, SingleExecutor, Holds
  <2>3. ASSUME NEW s \in Run PROVE RowInv(s)'
    BY <1>12, IndInvParts DEF PruneRun, RowInv, Made, Presented, TypeOK
  <2> QED
    BY <2>1, <2>2, <2>3 DEF IndInv, RowInv, EffectOnce, InterruptedPresents, SucceededRan
<1>13. ASSUME NEW p \in Proc, Crash(p)
      PROVE  IndInv'
  <2>1. ~Holds(p)' /\ \A q \in Proc : q # p => pc'[q] = pc[q] /\ job'[q] = job[q]
    BY <1>13 DEF Crash, Goto, Holds, Executing, TypeOK
  <2> QED
    BY <1>13, <2>1, IdleStep DEF Crash
<1>14. CASE UNCHANGED vars
  BY <1>14 DEF vars, IndInv, SingleExecutor, HolderInv, Holds, EffectOnce, InterruptedPresents,
     SucceededRan, Made, Presented
<1> QED
  BY <1>1, <1>2, <1>3, <1>4, <1>5, <1>6, <1>7,
     <1>8, <1>9, <1>10, <1>11, <1>12, <1>13, <1>14, <1>15 DEF Next, Advance

\* Every variable keeps its type and the strengthened invariant holds, in every
\* reachable state, for any number of processes, runs and gates.
THEOREM Invariance == Spec => [](TypeOK /\ IndInv)
<1>1. TypeOK /\ IndInv /\ [Next]_vars => (TypeOK /\ IndInv)'
  BY TypeStep, IndStep
<1> QED
  BY <1>1, InitInv, PTL DEF Spec

\* Types.
THEOREM TypeCorrect == Spec => []TypeOK
BY Invariance, PTL

\* No two processes ever execute the same run, however resumes race.
THEOREM OneExecutor == Spec => []SingleExecutor
<1>1. IndInv => SingleExecutor
  BY DEF IndInv
<1> QED
  BY <1>1, Invariance, PTL

\* No gated call is dispatched twice, whatever crashes, races or resumes.
THEOREM NoDuplicateEffect == Spec => []EffectOnce
<1>1. IndInv => EffectOnce
  BY DEF IndInv
<1> QED
  BY <1>1, Invariance, PTL

\* Every interrupted row has the checkpoint its next resume needs.
THEOREM PausesAreDurable == Spec => []InterruptedPresents
<1>1. IndInv => InterruptedPresents
  BY DEF IndInv
<1> QED
  BY <1>1, Invariance, PTL

\* A finished run is never reopened by a process that still writes rows without
\* looking at them: such a process holds its run, so that run is not finished.
THEOREM FinishedIsFinal == Spec => FinishedStays
<1>1. TypeOK /\ IndInv /\ [Next]_vars
        => [\A r \in Run : row[r] \in Terminal => row'[r] \in {row[r], "pruned"}]_vars
  <2> SUFFICES ASSUME TypeOK, IndInv, [Next]_vars, NEW r \in Run, row[r] \in Terminal
               PROVE  row'[r] \in {row[r], "pruned"}
    BY DEF vars
  <2>1. ASSUME NEW p \in Proc, NEW s \in Run, Invoke(p, s) PROVE row'[r] = row[r]
    BY <2>1 DEF Invoke, Terminal, TypeOK
  <2>2. ASSUME NEW p \in Proc, NEW s \in Run, NEW d \in Decision, Decide(p, s, d)
        PROVE  row'[r] = row[r]
    BY <2>2 DEF Decide
  <2>3. ASSUME NEW p \in Proc, Advance(p) PROVE row'[r] = row[r]
    <3>1. Holds(p) => job[p] # r
      BY HolderAlone DEF Terminal
    <3>2. CASE ClaimRunForResume(p)
      BY <3>2 DEF ClaimRunForResume, Terminal, TypeOK
    <3>3. CASE MarkInterrupted(p) \/ FinishRun(p) \/ FailRun(p)
      BY <3>1, <3>3 DEF MarkInterrupted, FinishRun, FailRun, Holds, Executing, TypeOK
    <3>4. CASE \/ CheckResumable(p) \/ StartEngine(p) \/ LoadCheckpoint(p)
               \/ Resolve(p) \/ AutoApprove(p) \/ Walk(p)
      BY <3>4 DEF CheckResumable, StartEngine, LoadCheckpoint, Resolve, AutoApprove, Walk, Saved
    <3> QED
      BY <2>3, <3>2, <3>3, <3>4 DEF Advance
  <2>4. ASSUME NEW p \in Proc, Crash(p) PROVE row'[r] = row[r]
    BY <2>4 DEF Crash
  <2>5. ASSUME NEW s \in Run, PruneRun(s) PROVE row'[r] \in {row[r], "pruned"}
    BY <2>5 DEF PruneRun, TypeOK
  <2>6. CASE UNCHANGED vars
    BY <2>6 DEF vars
  <2> QED
    BY <2>1, <2>2, <2>3, <2>4, <2>5, <2>6 DEF Next
<1> QED
  BY <1>1, Invariance, PTL DEF Spec, FinishedStays

-----------------------------------------------------------------------------
(* The audit chain. *)

\* What is hashed, hashes, rows and transactions.
Item == RunId \cup (Nat \X Data)
Hash == Seq(Item)
Row == [seq : Nat, data : Data, prev : Hash, hash : Hash]
Tx == {NoTx} \cup [at : Nat \ {0}, run : RunId, data : Data, seq : Nat, tip : Hash]

Typed ==
  /\ rows \in [RunId -> Seq(Row)]
  /\ tx \in [Process -> Tx]
  /\ version \in Nat \ {0}
  /\ edits \in 0..MaxEdits
  /\ tips \in [RunId -> SUBSET Hash]

\* A stored hash is one that an append computed: it can be moved or removed
\* behind the program's back, not made there.
Stored == \A r \in RunId : \A i \in DOMAIN rows[r] : rows[r][i].hash \in tips[r] \cup {None}

\* What a transaction has read is what the run holds, as long as nothing was
\* committed since.
Reads ==
  \A p \in Process : tx[p] # NoTx =>
    /\ tx[p].at <= version
    /\ tx[p].at = version => /\ tx[p].seq = NextSeq(rows[tx[p].run])
                             /\ tx[p].tip = ChainTip(rows[tx[p].run])

\* No row breaks the chain.
Sound(r, s) == \A i \in DOMAIN s : ~BreaksAt(r, s, i)

\* What the program alone wrote.
Chain ==
  edits = 0 => \A r \in RunId : Sound(r, rows[r]) /\ \A i \in DOMAIN rows[r] : rows[r][i].seq = i

\* The inductive invariant.
ChainInv == Typed /\ Stored /\ Reads /\ Chain

-----------------------------------------------------------------------------
\* A nonempty set of naturals has a least element.
LEMMA Least ==
  ASSUME NEW T, T \subseteq Nat, T # {}
  PROVE  \E x \in T : \A y \in T : x <= y
<1>1. \E x \in T : \A y \in T : ~(<<y, x>> \in OpToRel(<, Nat))
  BY WFMin, NatLessThanWellFounded
<1>2. PICK x \in T : \A y \in T : ~(<<y, x>> \in OpToRel(<, Nat))
  BY <1>1
<1>3. ASSUME NEW y \in T PROVE x <= y
  <2>1. x \in Nat /\ y \in Nat
    OBVIOUS
  <2>2. ~(y < x)
    BY <1>2, <2>1 DEF OpToRel
  <2> QED
    BY <2>1, <2>2
<1> QED
  BY <1>3

\* Induction up to a bound, on a set.
LEMMA UpTo ==
  ASSUME NEW n \in Nat, NEW T, n >= 1 => 1 \in T,
         \A i \in 1..n : i \in T /\ i + 1 <= n => i + 1 \in T
  PROVE  1..n \subseteq T
<1> DEFINE B == {i \in 1..n : i \notin T}
<1>1. ASSUME B # {} PROVE FALSE
  <2>1. B \subseteq Nat
    OBVIOUS
  <2>2. PICK x \in B : \A y \in B : x <= y
    BY <1>1, <2>1, Least
  <2>3. x \in 1..n /\ x \notin T /\ x # 1
    BY <2>2
  <2>4. x - 1 \in 1..n /\ (x - 1) + 1 = x
    BY <2>3
  <2>5. x - 1 \in T
    BY <2>2, <2>4
  <2> QED
    BY <2>3, <2>4, <2>5
<1> QED
  BY <1>1

-----------------------------------------------------------------------------
(* The chain's operators. *)

\* The bounds are numbers.
LEMMA Bounds == MaxRows \in Nat /\ MaxLegacy \in Nat /\ MaxEdits \in Nat
BY ChainAssumption

\* Verification succeeds if no row breaks the chain.
LEMMA SoundIsOk == ASSUME NEW r, NEW s \in Seq(Row), Sound(r, s) PROVE VerifyRunChain(r, s) = 0
BY DEF VerifyRunChain, Sound

\* An event's hash is a hash and not the empty one.
LEMMA Hashed ==
  ASSUME NEW e, e.seq \in Nat, e.data \in Data, NEW prev \in Hash
  PROVE  EventHash(e, prev) \in Hash /\ EventHash(e, prev) # None
<1>1. CanonicalEvent(e) \in Item
  BY DEF CanonicalEvent, Item
<1>2. EventHash(e, prev) \in Hash /\ Len(EventHash(e, prev)) = Len(prev) + 1 /\ Len(prev) \in Nat
  BY <1>1 DEF EventHash, Hash
<1>3. Len(None) = 0
  BY DEF None
<1> QED
  BY <1>2, <1>3

\* So is what it is linked to.
LEMMA Linked ==
  ASSUME NEW r \in RunId, NEW tip \in Hash
  PROVE  PrevHashForChainTip(r, tip) \in Hash /\ PrevHashForChainTip(r, tip) # None
<1>1. <<r>> \in Hash /\ <<r>> # None
  BY DEF Hash, Item, None
<1> QED
  BY <1>1 DEF PrevHashForChainTip, GenesisHash

\* The tip is a hash.
LEMMA TipTyped == ASSUME NEW s \in Seq(Row) PROVE ChainTip(s) \in Hash
<1> DEFINE I == {i \in DOMAIN s : s[i].hash # None}
<1>1. None \in Hash
  BY DEF None, Hash
<1>2. CASE I = {}
  BY <1>1, <1>2 DEF ChainTip
<1>3. CASE I # {}
  <2>1. \E i \in I : \A j \in I : j <= i
    <3> DEFINE G == {Len(s) - i : i \in I}
    <3>1. G \subseteq Nat /\ G # {}
      BY <1>3
    <3>2. PICK g \in G : \A h \in G : g <= h
      BY <3>1, Least
    <3>3. PICK i \in I : g = Len(s) - i
      BY <3>2
    <3>4. ASSUME NEW j \in I PROVE j <= i
      <4>1. Len(s) - i <= Len(s) - j
        BY <3>2, <3>3
      <4>2. i \in Nat /\ j \in Nat /\ Len(s) \in Nat
        OBVIOUS
      <4> HIDE DEF I
      <4> QED
        BY <4>1, <4>2
    <3> QED
      BY <3>4
  <2> DEFINE last == CHOOSE i \in I : \A j \in I : j <= i
  <2>2. last \in I
    BY <2>1
  <2>3. ChainTip(s) = s[last].hash
    BY <1>3 DEF ChainTip
  <2>4. s[last] \in Row
    BY <2>2
  <2> QED
    BY <2>3, <2>4 DEF Row
<1> QED
  BY <1>2, <1>3

\* The next sequence number is a number.
LEMMA SeqTyped == ASSUME NEW s \in Seq(Row) PROVE NextSeq(s) \in Nat
<1>1. CASE s = <<>>
  BY <1>1 DEF NextSeq
<1>2. CASE s # <<>>
  <2>1. Len(s) \in DOMAIN s
    BY <1>2
  <2>2. s[Len(s)] \in Row
    BY <2>1
  <2> QED
    BY <1>2, <2>2 DEF NextSeq, Row
<1> QED
  BY <1>1, <1>2

\* A prefix of a longer sequence.
LEMMA Prefix ==
  ASSUME NEW S, NEW s \in Seq(S), NEW e \in S
  PROVE  /\ Append(s, e) \in Seq(S) /\ DOMAIN Append(s, e) = 1..(Len(s) + 1) /\ DOMAIN s = 1..Len(s)
         /\ Append(s, e)[Len(s) + 1] = e /\ Len(s) \in Nat
         /\ \A i \in 1..Len(s) : Append(s, e)[i] = s[i]
         /\ \A n \in 0..Len(s) : SubSeq(Append(s, e), 1, n) = SubSeq(s, 1, n)
         /\ SubSeq(Append(s, e), 1, Len(s)) = s
<1> DEFINE t == Append(s, e)
<1>1. /\ t \in Seq(S) /\ DOMAIN t = 1..(Len(s) + 1) /\ DOMAIN s = 1..Len(s)
      /\ t[Len(s) + 1] = e /\ Len(s) \in Nat /\ Len(t) = Len(s) + 1
      /\ \A i \in 1..Len(s) : t[i] = s[i]
  OBVIOUS
<1> HIDE DEF t
<1>2. ASSUME NEW n \in 0..Len(s) PROVE SubSeq(t, 1, n) = SubSeq(s, 1, n)
  BY <1>1
<1>3. SubSeq(s, 1, Len(s)) = s
  OBVIOUS
<1>4. SubSeq(t, 1, Len(s)) = s
  BY <1>1, <1>2, <1>3
<1> QED
  BY <1>1, <1>2, <1>4 DEF t

\* A row appended to a sound chain, linked to its tip and hashed, keeps it sound.
LEMMA AppendSound ==
  ASSUME NEW r \in RunId, NEW s \in Seq(Row), Sound(r, s), NEW e \in Row,
         e.prev = PrevHashForChainTip(r, ChainTip(s)), e.hash = EventHash(e, e.prev)
  PROVE  Sound(r, Append(s, e))
<1> DEFINE t == Append(s, e)
<1>1. /\ DOMAIN t = 1..(Len(s) + 1) /\ DOMAIN s = 1..Len(s) /\ t[Len(s) + 1] = e /\ Len(s) \in Nat
      /\ \A i \in 1..Len(s) : t[i] = s[i]
      /\ \A n \in 0..Len(s) : SubSeq(t, 1, n) = SubSeq(s, 1, n)
      /\ SubSeq(t, 1, Len(s)) = s
  BY Prefix
<1> HIDE DEF t
<1>2. ASSUME NEW i \in 1..Len(s) PROVE ~BreaksAt(r, t, i)
  <2>1. i - 1 \in 0..Len(s) /\ \A j \in 1..(i - 1) : j \in 1..Len(s)
    BY <1>1
  <2>2. /\ t[i] = s[i] /\ SubSeq(t, 1, i - 1) = SubSeq(s, 1, i - 1)
        /\ \A j \in 1..(i - 1) : t[j] = s[j]
    BY <1>1, <2>1
  <2>3. ~BreaksAt(r, s, i)
    BY <1>1 DEF Sound
  <2> QED
    BY <2>2, <2>3 DEF BreaksAt
<1>3. ~BreaksAt(r, t, Len(s) + 1)
  <2>1. ChainTip(s) \in Hash
    BY TipTyped
  <2>2. e.prev # None /\ e.hash # None
    <3>1. e.seq \in Nat /\ e.data \in Data /\ e.prev \in Hash
      BY DEF Row
    <3> QED
      BY <2>1, <3>1, Linked, Hashed
  <2>3. (Len(s) + 1) - 1 = Len(s)
    BY <1>1
  <2> QED
    BY <1>1, <2>2, <2>3 DEF BreaksAt, Unchained
<1>4. \A i \in 1..(Len(s) + 1) : i \in 1..Len(s) \/ i = Len(s) + 1
  BY <1>1
<1> QED
  BY <1>1, <1>2, <1>3, <1>4 DEF Sound, t

-----------------------------------------------------------------------------
(* Changes behind the program's back. *)

\* The rows of t are rows, with hashes of rows of s or none.
From(s, t) ==
  /\ t \in Seq(Row)
  /\ \A i \in DOMAIN t : t[i].hash = None \/ \E j \in DOMAIN s : t[i].hash = s[j].hash

\* The number of rows before a sequence number.
LEMMA BelowRange == ASSUME NEW s \in Seq(Row), NEW q PROVE Below(s, q) \in 0..Len(s)
<1> DEFINE I == {i \in DOMAIN s : s[i].seq < q}
<1>1. DOMAIN s = 1..Len(s) /\ Len(s) \in Nat /\ I \subseteq 1..Len(s)
  OBVIOUS
<1> HIDE DEF I
<1>2. IsFiniteSet(1..Len(s)) /\ Cardinality(1..Len(s)) = Len(s)
  <2>1. 1 \in Int /\ Len(s) \in Int
    BY <1>1
  <2>2. /\ IsFiniteSet(1..Len(s))
        /\ Cardinality(1..Len(s)) = IF 1 > Len(s) THEN 0 ELSE Len(s) - 1 + 1
    BY <2>1, FS_Interval
  <2> QED
    BY <1>1, <2>2
<1>3. IsFiniteSet(I) /\ Cardinality(I) <= Len(s)
  <2>1. I \in SUBSET (1..Len(s))
    BY <1>1
  <2>2. IsFiniteSet(I) /\ Cardinality(I) <= Cardinality(1..Len(s))
    BY <1>2, <2>1, FS_Subset
  <2> QED
    BY <1>2, <2>2
<1>4. Cardinality(I) \in Nat
  BY <1>3, FS_CardinalityType
<1> QED
  BY <1>1, <1>3, <1>4 DEF Below, I

\* Parts of s, and parts put together, hold what s holds.
LEMMA FromPart ==
  ASSUME NEW s \in Seq(Row), NEW m \in Nat \ {0}, NEW n \in Nat, n <= Len(s)
  PROVE  From(s, SubSeq(s, m, n))
<1> DEFINE t == SubSeq(s, m, n)
<1>1. Len(s) \in Nat /\ DOMAIN s = 1..Len(s) /\ m \in Int /\ n \in Int
  BY LenProperties
<1>2. \A i \in m..n : i \in DOMAIN s /\ s[i] \in Row
  BY <1>1
<1>3. /\ t \in Seq(Row) /\ Len(t) = IF m <= n THEN n - m + 1 ELSE 0
      /\ \A i \in 1..n - m + 1 : t[i] = s[m + i - 1]
  BY <1>1, <1>2, SubSeqProperties
<1> HIDE DEF t
<1>4. DOMAIN t = 1..Len(t)
  BY <1>3, LenProperties
<1>5. ASSUME NEW k \in DOMAIN t PROVE \E j \in DOMAIN s : t[k] = s[j]
  <2>1. m <= n /\ k \in 1..n - m + 1
    BY <1>1, <1>3, <1>4
  <2>2. m + k - 1 \in m..n
    BY <1>1, <2>1
  <2> QED
    BY <1>2, <1>3, <2>1, <2>2
<1>6. From(s, t)
  BY <1>3, <1>5 DEF From
<1> QED
  BY <1>6 DEF t

\* Rows that come from s, followed by others that do.
LEMMA FromJoin == ASSUME NEW s, NEW a, NEW b, From(s, a), From(s, b) PROVE From(s, a \o b)
<1> DEFINE t == a \o b
<1>1. a \in Seq(Row) /\ b \in Seq(Row)
  BY DEF From
<1>2. /\ t \in Seq(Row) /\ Len(t) = Len(a) + Len(b)
      /\ \A i \in 1..Len(a) + Len(b) : t[i] = IF i <= Len(a) THEN a[i] ELSE b[i - Len(a)]
  BY <1>1, ConcatProperties
<1> HIDE DEF t
<1>3. DOMAIN t = 1..Len(t) /\ DOMAIN a = 1..Len(a) /\ DOMAIN b = 1..Len(b) /\ Len(a) \in Nat /\ Len(b) \in Nat
  BY <1>1, <1>2, LenProperties
<1>4. ASSUME NEW k \in DOMAIN t PROVE (\E j \in DOMAIN a : t[k] = a[j]) \/ (\E j \in DOMAIN b : t[k] = b[j])
  <2>1. k \in 1..Len(a) + Len(b)
    BY <1>2, <1>3
  <2>2. CASE k <= Len(a)
    BY <1>2, <1>3, <2>1, <2>2
  <2>3. CASE ~(k <= Len(a))
    <3>1. k - Len(a) \in 1..Len(b)
      BY <1>3, <2>1, <2>3
    <3> QED
      BY <1>2, <1>3, <2>1, <2>3, <3>1
  <2> QED
    BY <2>2, <2>3
<1>5. From(s, t)
  BY <1>2, <1>4 DEF From
<1> QED
  BY <1>5 DEF t

\* What an edit leaves comes from the rows before it, or has no hash: a row with
\* other data, one removed, one without a hash added, two exchanged.
LEMMA Rewritten ==
  ASSUME NEW s \in Seq(Row), NEW i \in DOMAIN s, NEW d \in Data
  PROVE  From(s, [s EXCEPT ![i].data = d])
<1> DEFINE e == [s[i] EXCEPT !.data = d]
           t == [s EXCEPT ![i] = e]
<1>1. e \in Row /\ e.hash = s[i].hash
  <2>1. s[i] \in Row
    OBVIOUS
  <2> QED
    BY <2>1 DEF Row
<1> HIDE DEF e
<1>2. t \in Seq(Row) /\ DOMAIN t = DOMAIN s /\ t[i] = e /\ \A k \in DOMAIN s : k # i => t[k] = s[k]
  BY <1>1
<1>3. From(s, t)
  BY <1>1, <1>2 DEF From
<1> QED
  BY <1>3 DEF e

\* A row removed.
LEMMA Removed == ASSUME NEW s \in Seq(Row), NEW i \in DOMAIN s PROVE From(s, RemoveAt(s, i))
<1>1. /\ i - 1 \in Nat /\ i - 1 <= Len(s) /\ i + 1 \in Nat \ {0}
      /\ Len(s) \in Nat /\ Len(s) <= Len(s)
  OBVIOUS
<1>2. From(s, SubSeq(s, 1, i - 1))
  BY <1>1, FromPart
<1>3. From(s, SubSeq(s, i + 1, Len(s)))
  BY <1>1, FromPart, Zenon
<1> QED
  BY <1>2, <1>3, FromJoin, Zenon DEF RemoveAt

\* A row without a hash added.
LEMMA Inserted ==
  ASSUME NEW s \in Seq(Row), NEW n \in 0..Len(s), NEW e \in Row, e.hash = None
  PROVE  From(s, InsertAt(s, n + 1, e))
<1>1. /\ n + 1 \in Nat \ {0} /\ (n + 1) - 1 = n /\ n \in Nat /\ n <= Len(s)
      /\ Len(s) \in Nat /\ Len(s) <= Len(s)
  OBVIOUS
<1>2. From(s, SubSeq(s, 1, n))
  BY <1>1, FromPart
<1>3. From(s, SubSeq(s, n + 1, Len(s)))
  BY <1>1, FromPart, Zenon
<1>4. From(s, <<e>>)
  BY DEF From
<1>5. From(s, SubSeq(s, 1, n) \o <<e>> \o SubSeq(s, n + 1, Len(s)))
  BY <1>2, <1>3, <1>4, FromJoin, Zenon
<1> QED
  BY <1>1, <1>5, Zenon DEF InsertAt

\* Two rows exchanged.
LEMMA Swapped ==
  ASSUME NEW s \in Seq(Row), NEW i \in DOMAIN s, NEW j \in DOMAIN s
  PROVE  From(s, Trade(s, i, j))
<1> DEFINE x == [s[j] EXCEPT !.seq = s[i].seq]
           y == [s[i] EXCEPT !.seq = s[j].seq]
           t == [[s EXCEPT ![i] = x] EXCEPT ![j] = y]
<1>1. x \in Row /\ y \in Row /\ x.hash = s[j].hash /\ y.hash = s[i].hash
  <2>1. s[i] \in Row /\ s[j] \in Row
    OBVIOUS
  <2> QED
    BY <2>1 DEF Row
<1>2. Trade(s, i, j) = t
  BY DEF Trade
<1> HIDE DEF x, y
<1>3. /\ t \in Seq(Row) /\ DOMAIN t = DOMAIN s
      /\ \A k \in DOMAIN s : t[k] \in {s[k], x, y}
  BY <1>1
<1> HIDE DEF t
<1>4. From(s, t)
  BY <1>1, <1>3 DEF From
<1> QED
  BY <1>2, <1>4

\* No change makes a hash.
LEMMA EditedFrom == ASSUME NEW s \in Seq(Row), NEW t \in Edited(s) PROVE From(s, t)
<1>1. CASE t \in Altered(s)
  BY <1>1, Rewritten DEF Altered
<1>2. CASE t \in Dropped(s)
  BY <1>2, Removed DEF Dropped
<1>3. CASE t \in Added(s)
  <2>1. PICK q \in Absent(s) : \E d \in Data : t = InsertAt(s, Below(s, q) + 1, Bare(q, d))
    BY <1>3 DEF Added
  <2>2. PICK d \in Data : t = InsertAt(s, Below(s, q) + 1, Bare(q, d))
    BY <2>1
  <2>3. q \in Nat
    BY SeqTyped DEF Absent
  <2>4. Bare(q, d) \in Row /\ Bare(q, d).hash = None
    BY <2>3 DEF Bare, Row, None, Hash
  <2> QED
    BY <2>2, <2>4, BelowRange, Inserted
<1>4. CASE t \in Traded(s)
  BY <1>4, Swapped DEF Traded
<1> QED
  BY <1>1, <1>2, <1>3, <1>4 DEF Edited

-----------------------------------------------------------------------------
(* What a verified chain is. *)

\* The tip of a prefix whose rows with hashes end it.
LEMMA TipOf ==
  ASSUME NEW s \in Seq(Row), NEW n \in 0..Len(s)
  PROVE  /\ (\A i \in 1..n : s[i].hash = None) => ChainTip(SubSeq(s, 1, n)) = None
         /\ n >= 1 /\ s[n].hash # None => ChainTip(SubSeq(s, 1, n)) = s[n].hash
<1> DEFINE t == SubSeq(s, 1, n)
           I == {i \in DOMAIN t : t[i].hash # None}
<1>1. n \in Nat /\ t \in Seq(Row) /\ DOMAIN t = 1..n /\ \A i \in 1..n : t[i] = s[i]
  OBVIOUS
<1> HIDE DEF t
<1>2. ASSUME \A i \in 1..n : s[i].hash = None PROVE ChainTip(t) = None
  <2>1. I = {}
    BY <1>1, <1>2
  <2> QED
    BY <2>1 DEF ChainTip
<1>3. ASSUME n >= 1, s[n].hash # None PROVE ChainTip(t) = s[n].hash
  <2>1. n \in I /\ \A j \in I : j <= n /\ j \in Nat
    BY <1>1, <1>3
  <2>2. ChainTip(t) = t[CHOOSE i \in I : \A j \in I : j <= i].hash
    BY <2>1 DEF ChainTip
  <2> HIDE DEF I
  <2>3. (CHOOSE i \in I : \A j \in I : j <= i) = n
    <3> DEFINE c == CHOOSE i \in I : \A j \in I : j <= i
    <3>1. c \in I /\ \A j \in I : j <= c
      BY <2>1
    <3> HIDE DEF c
    <3>2. c <= n /\ n <= c /\ c \in Nat
      BY <2>1, <3>1
    <3>3. c = n
      BY <1>1, <3>2
    <3> QED
      BY <3>3 DEF c
  <2>4. t[n] = s[n]
    BY <1>1, <1>3
  <2> QED
    BY <2>2, <2>3, <2>4
<1> QED
  BY <1>2, <1>3 DEF t

\* One more event hashed into a chain of events.
LEMMA Extended ==
  ASSUME NEW x \in Item, NEW n \in Nat, NEW g \in [1..(n + 1) -> Item]
  PROVE  Append(<<x>> \o [j \in 1..n |-> g[j]], g[n + 1]) = <<x>> \o [j \in 1..(n + 1) |-> g[j]]
<1> DEFINE f == [j \in 1..n |-> g[j]]
           h == [j \in 1..(n + 1) |-> g[j]]
           a == <<x>> \o f
           b == <<x>> \o h
           c == Append(a, g[n + 1])
<1>1. f \in Seq(Item) /\ Len(f) = n /\ \A j \in 1..n : f[j] = g[j]
  OBVIOUS
<1>2. h \in Seq(Item) /\ Len(h) = n + 1 /\ \A j \in 1..(n + 1) : h[j] = g[j]
  OBVIOUS
<1>3. <<x>> \in Seq(Item) /\ Len(<<x>>) = 1 /\ <<x>>[1] = x
  OBVIOUS
<1> HIDE DEF f, h
<1>4. /\ a \in Seq(Item) /\ Len(a) = 1 + n
      /\ \A i \in 1..(1 + n) : a[i] = IF i <= 1 THEN <<x>>[i] ELSE f[i - 1]
  BY <1>1, <1>3, ConcatProperties
<1>5. /\ b \in Seq(Item) /\ Len(b) = 1 + (n + 1)
      /\ \A i \in 1..(1 + (n + 1)) : b[i] = IF i <= 1 THEN <<x>>[i] ELSE h[i - 1]
  BY <1>2, <1>3, ConcatProperties
<1> HIDE DEF a, b
<1>6. /\ c \in Seq(Item) /\ Len(c) = (1 + n) + 1 /\ c[(1 + n) + 1] = g[n + 1]
      /\ \A i \in 1..(1 + n) : c[i] = a[i]
  BY <1>4
<1> HIDE DEF c
<1>7. ASSUME NEW i \in 1..Len(c) PROVE c[i] = b[i]
  <2>1. i \in 1..(1 + (n + 1)) /\ i \in Nat
    BY <1>6
  <2>2. CASE i = 1
    BY <1>4, <1>5, <1>6, <2>1, <2>2
  <2>3. CASE i > 1 /\ i <= 1 + n
    <3>1. i - 1 \in 1..n /\ i - 1 \in 1..(n + 1) /\ i \in 1..(1 + n) /\ ~(i <= 1)
      BY <2>1, <2>3
    <3> QED
      BY <1>1, <1>2, <1>4, <1>5, <1>6, <2>1, <3>1
  <2>4. CASE i = (1 + n) + 1
    <3>1. i - 1 = n + 1 /\ i - 1 \in 1..(n + 1) /\ ~(i <= 1)
      BY <2>4
    <3> QED
      BY <1>2, <1>5, <1>6, <2>1, <2>4, <3>1
  <2> QED
    BY <2>1, <2>2, <2>3, <2>4
<1>8. Len(c) = Len(b)
  BY <1>5, <1>6
<1>9. c = b
  BY <1>5, <1>6, <1>7, <1>8, SeqEqual
<1> QED
  BY <1>9 DEF a, b, c, f, h

\* The hash of the n events after row k.
Built(r, s, k, n) == <<r>> \o [j \in 1..n |-> CanonicalEvent(s[k + j])]

\* One more event in the chain.
LEMMA Grown ==
  ASSUME NEW r \in RunId, NEW s \in Seq(Row), NEW k \in Nat, NEW n \in Nat, k + n + 1 <= Len(s)
  PROVE  /\ Built(r, s, k, 0) = <<r>>
         /\ Append(Built(r, s, k, n), CanonicalEvent(s[k + n + 1])) = Built(r, s, k, n + 1)
<1> DEFINE g == [j \in 1..(n + 1) |-> CanonicalEvent(s[k + j])]
<1>1. Built(r, s, k, 0) = <<r>>
  <2>1. [j \in 1..0 |-> CanonicalEvent(s[k + j])] = <<>>
    OBVIOUS
  <2>2. <<r>> \o <<>> = <<r>>
    OBVIOUS
  <2> QED
    BY <2>1, <2>2 DEF Built
<1>2. ASSUME NEW j \in 1..(n + 1) PROVE CanonicalEvent(s[k + j]) \in Item
  <2>1. k + j \in 1..Len(s)
    OBVIOUS
  <2>2. s[k + j] \in Row
    BY <2>1
  <2> QED
    BY <2>2 DEF Row, CanonicalEvent, Item
<1>3. g \in [1..(n + 1) -> Item]
  BY <1>2
<1>4. r \in Item
  BY DEF Item
<1>5. g[n + 1] = CanonicalEvent(s[k + n + 1]) /\ [j \in 1..(n + 1) |-> g[j]] = g
  <2>1. n + 1 \in 1..(n + 1) /\ k + (n + 1) = k + n + 1
    OBVIOUS
  <2> QED
    BY <2>1
<1>6. [j \in 1..n |-> g[j]] = [j \in 1..n |-> CanonicalEvent(s[k + j])]
  OBVIOUS
<1> HIDE DEF g
<1>7. Append(<<r>> \o [j \in 1..n |-> g[j]], g[n + 1]) = <<r>> \o [j \in 1..(n + 1) |-> g[j]]
  BY <1>3, <1>4, Extended
<1>8. Append(Built(r, s, k, n), CanonicalEvent(s[k + n + 1])) = <<r>> \o g
  BY <1>5, <1>6, <1>7 DEF Built
<1> QED
  BY <1>1, <1>8 DEF Built, g

\* A row with hashes of a sound chain is linked to its predecessor and hashed.
LEMMA LinkedRow ==
  ASSUME NEW r, NEW s \in Seq(Row), Sound(r, s), NEW i \in DOMAIN s, ~Unchained(s[i])
  PROVE  /\ s[i].hash # None
         /\ s[i].prev = PrevHashForChainTip(r, ChainTip(SubSeq(s, 1, i - 1)))
         /\ s[i].hash = EventHash(s[i], s[i].prev)
BY DEF Sound, BreaksAt

\* A sound chain: rows without hashes, then rows that hash to all before them.
LEMMA SoundIsChain ==
  ASSUME NEW r \in RunId, NEW s \in Seq(Row), Sound(r, s)
  PROVE  \E k \in 0..Len(s) :
           /\ \A i \in DOMAIN s : Unchained(s[i]) <=> i <= k
           /\ k < Len(s) => /\ s[Len(s)].hash # None
                            /\ s[Len(s)].hash = Built(r, s, k, Len(s) - k)
<1> DEFINE K == {i \in DOMAIN s : ~Unchained(s[i])}
<1>0. DOMAIN s = 1..Len(s) /\ Len(s) \in Nat
  OBVIOUS
<1>1. CASE K = {}
  <2>1. Len(s) \in 0..Len(s) /\ ~(Len(s) < Len(s))
    BY <1>0
  <2>2. \A i \in DOMAIN s : Unchained(s[i]) <=> i <= Len(s)
    BY <1>0, <1>1
  <2> QED
    BY <2>1, <2>2
<1>2. CASE K # {}
  <2>1. K \subseteq Nat
    BY <1>0
  <2>2. PICK f \in K : \A i \in K : f <= i
    BY <1>2, <2>1, Least
  <2>3. f \in 1..Len(s) /\ ~Unchained(s[f])
    BY <1>0, <2>2
  <2>4. PICK k \in Nat : k = f - 1 /\ f = k + 1 /\ k \in 0..Len(s) /\ k < Len(s)
    BY <1>0, <2>3
  <2>5. ASSUME NEW i \in DOMAIN s PROVE Unchained(s[i]) <=> i <= k
    <3>1. CASE i <= k
      <4>1. ~(f <= i)
        BY <1>0, <2>4, <3>1
      <4> QED
        BY <2>2, <3>1, <4>1
    <3>2. CASE i = f
      BY <1>0, <2>3, <2>4, <3>2
    <3>3. CASE i > f
      <4>1. f \in 1..(i - 1) /\ ~(i <= k)
        BY <1>0, <2>3, <2>4, <3>3
      <4>2. ~BreaksAt(r, s, i)
        BY DEF Sound
      <4>3. ~Unchained(s[i])
        BY <2>3, <4>1, <4>2 DEF BreaksAt
      <4> QED
        BY <4>1, <4>3
    <3> QED
      BY <1>0, <2>4, <3>1, <3>2, <3>3
  <2>6. PICK m \in Nat : m = Len(s) - k /\ m >= 1 /\ k + m = Len(s)
    BY <1>0, <2>4
  <2> HIDE DEF K
  <2> DEFINE T == {i \in 1..m : s[k + i].hash = Built(r, s, k, i)}
  <2>7. ASSUME NEW i \in 1..m PROVE k + i \in DOMAIN s /\ ~Unchained(s[k + i])
    <3>1. k + i \in DOMAIN s /\ ~(k + i <= k)
      BY <1>0, <2>4, <2>6
    <3> QED
      BY <2>5, <3>1
  <2>8. 1 \in T
    <3>1. 1 \in 1..m /\ k + 0 + 1 <= Len(s) /\ k + 1 \in DOMAIN s /\ (k + 1) - 1 = k /\ k + 0 + 1 = k + 1
          /\ 0 + 1 = 1 /\ 0 \in Nat
      BY <1>0, <2>4, <2>6
    <3>2. \A i \in 1..k : i \in DOMAIN s /\ i <= k
      BY <1>0, <2>4
    <3>3. ChainTip(SubSeq(s, 1, k)) = None
      <4>1. \A i \in 1..k : s[i].hash = None
        BY <2>5, <3>2 DEF Unchained
      <4> QED
        BY <2>4, <4>1, TipOf
    <3>4. s[k + 1].prev = <<r>> /\ s[k + 1].hash = EventHash(s[k + 1], s[k + 1].prev)
      BY <2>7, <3>1, <3>3, LinkedRow DEF PrevHashForChainTip, GenesisHash
    <3>5. Built(r, s, k, 0) = <<r>> /\ Append(Built(r, s, k, 0), CanonicalEvent(s[k + 0 + 1])) = Built(r, s, k, 0 + 1)
      BY <3>1, Grown
    <3> QED
      BY <3>1, <3>4, <3>5 DEF EventHash
  <2>9. ASSUME NEW i \in 1..m, i \in T, i + 1 <= m PROVE i + 1 \in T
    <3>1. /\ i + 1 \in 1..m /\ k + i + 1 <= Len(s) /\ k + i + 1 \in DOMAIN s /\ (k + i + 1) - 1 = k + i
          /\ k + (i + 1) = k + i + 1 /\ i \in Nat /\ k + i \in 0..Len(s) /\ k + i >= 1
      BY <1>0, <2>4, <2>6, <2>9
    <3>2. s[k + i].hash # None
      BY <2>7, LinkedRow
    <3>3. ChainTip(SubSeq(s, 1, k + i)) = s[k + i].hash
      BY <3>1, <3>2, TipOf
    <3>4. ~Unchained(s[k + i + 1])
      BY <2>7, <3>1
    <3>5. /\ s[k + i + 1].prev = PrevHashForChainTip(r, ChainTip(SubSeq(s, 1, (k + i + 1) - 1)))
          /\ s[k + i + 1].hash = EventHash(s[k + i + 1], s[k + i + 1].prev)
      BY <3>1, <3>4, LinkedRow
    <3>6. s[k + i + 1].prev = s[k + i].hash
      BY <3>1, <3>2, <3>3, <3>5 DEF PrevHashForChainTip
    <3>7. s[k + i].hash = Built(r, s, k, i)
      BY <2>9
    <3>8. Append(Built(r, s, k, i), CanonicalEvent(s[k + i + 1])) = Built(r, s, k, i + 1)
      BY <3>1, Grown
    <3> QED
      BY <3>1, <3>5, <3>6, <3>7, <3>8 DEF EventHash
  <2>10. 1..m \subseteq T
    BY <2>8, <2>9, UpTo
  <2>11. s[k + m].hash = Built(r, s, k, m)
    BY <2>6, <2>10
  <2>12. s[k + m].hash # None
    BY <2>6, <2>7, LinkedRow
  <2> QED
    BY <2>4, <2>5, <2>6, <2>11, <2>12
<1> QED
  BY <1>1, <1>2

-----------------------------------------------------------------------------
(* The invariant holds. *)

\* Rows from before chaining verify.
LEMMA ChainInitInv == ChainInit => ChainInv
<1> SUFFICES ASSUME ChainInit PROVE ChainInv
  OBVIOUS
<1> USE DEF ChainInit
<1>1. PICK d \in Data, n \in [RunId -> 0..MaxLegacy] : rows = [r \in RunId |-> Legacy(d, n[r])]
  OBVIOUS
<1>2. ASSUME NEW r \in RunId
      PROVE  /\ rows[r] \in Seq(Row) /\ DOMAIN rows[r] = 1..n[r] /\ n[r] \in Nat
             /\ \A i \in 1..n[r] : rows[r][i].hash = None /\ Unchained(rows[r][i]) /\ rows[r][i].seq = i
  <2>1. n[r] \in Nat
    BY <1>1, Bounds
  <2>2. \A i \in 1..n[r] : [seq |-> i, data |-> d, prev |-> None, hash |-> None] \in Row
    BY <1>1, <2>1 DEF Row, Hash, None
  <2>3. rows[r] = [i \in 1..n[r] |-> [seq |-> i, data |-> d, prev |-> None, hash |-> None]]
    BY <1>1 DEF Legacy
  <2> QED
    BY <2>1, <2>2, <2>3 DEF Unchained
<1>3. Typed
  BY <1>1, <1>2, Bounds DEF Typed, Tx, Legacy
<1>4. Stored
  BY <1>2 DEF Stored
<1>5. Reads
  BY DEF Reads
<1>6. Chain
  <2>1. ASSUME NEW r \in RunId PROVE Sound(r, rows[r])
    <3>1. ASSUME NEW i \in 1..n[r] PROVE ~BreaksAt(r, rows[r], i)
      <4>1. \A j \in 1..(i - 1) : j \in 1..n[r]
        BY <1>2
      <4> QED
        BY <1>2, <4>1 DEF BreaksAt
    <3> QED
      BY <1>2, <3>1 DEF Sound
  <2> QED
    BY <1>2, <2>1 DEF Chain
<1> QED
  BY <1>3, <1>4, <1>5, <1>6 DEF ChainInv

\* An append begins: what it reads is what the run holds.
LEMMA BeginStep ==
  ASSUME ChainInv, NEW p \in Process, NEW r \in RunId, NEW d \in Data, Begin(p, r, d)
  PROVE  ChainInv'
<1> USE DEF Begin
<1> DEFINE t == [at |-> version, run |-> r, data |-> d, seq |-> NextSeq(rows[r]), tip |-> ChainTip(rows[r])]
<1>1. Typed /\ Stored /\ Reads /\ Chain /\ rows[r] \in Seq(Row)
  BY DEF ChainInv, Typed
<1>2. t \in Tx
  BY <1>1, SeqTyped, TipTyped DEF Tx, Typed
<1>3. /\ t.at = version /\ t.run = r /\ t.seq = NextSeq(rows[r]) /\ t.tip = ChainTip(rows[r])
      /\ tx' = [tx EXCEPT ![p] = t]
  OBVIOUS
<1> HIDE DEF t, Begin
<1>4. rows' = rows /\ version' = version /\ edits' = edits /\ tips' = tips
  BY DEF Begin
<1>5. Typed'
  BY <1>1, <1>2, <1>3, <1>4 DEF Typed
<1>6. Stored'
  BY <1>1, <1>4 DEF Stored
<1>7. Reads'
  <2>1. version \in Nat
    BY <1>1 DEF Typed
  <2>2. ASSUME NEW q \in Process, tx'[q] # NoTx
        PROVE  /\ tx'[q].at <= version
               /\ tx'[q].at = version => /\ tx'[q].seq = NextSeq(rows[tx'[q].run])
                                         /\ tx'[q].tip = ChainTip(rows[tx'[q].run])
    <3>1. CASE q = p
      <4>1. tx'[q] = t
        BY <1>1, <1>3, <3>1 DEF Typed
      <4> QED
        BY <1>3, <2>1, <4>1
    <3>2. CASE q # p
      <4>1. tx'[q] = tx[q]
        BY <1>1, <1>3, <3>2 DEF Typed
      <4> QED
        BY <1>1, <2>2, <4>1 DEF Reads
    <3> QED
      BY <3>1, <3>2
  <2> QED
    BY <1>4, <2>2 DEF Reads
<1>8. Chain'
  BY <1>1, <1>4 DEF Chain
<1> QED
  BY <1>5, <1>6, <1>7, <1>8 DEF ChainInv

\* An append commits: it is the chain's next event if nothing was committed since.
LEMMA InsertStep == ASSUME ChainInv, NEW p \in Process, Insert(p) PROVE ChainInv'
<1>1. Typed /\ Stored /\ Reads /\ Chain
  BY DEF ChainInv
<1>2. /\ tx[p].run \in RunId /\ tx[p].data \in Data /\ tx[p].seq \in Nat /\ tx[p].tip \in Hash
      /\ tx[p].at = version /\ tx[p] # NoTx
  <2>1. tx[p] \in Tx /\ tx[p] # NoTx
    BY <1>1 DEF Insert, Typed
  <2> QED
    BY <2>1 DEF Tx, Insert, Current
<1>0. PICK r \in RunId : r = tx[p].run
  BY <1>2
<1>3. PICK prev, h, e :
        /\ r = tx[p].run /\ prev = PrevHashForChainTip(r, tx[p].tip)
        /\ h = EventHash([seq |-> tx[p].seq, data |-> tx[p].data], prev)
        /\ e = [seq |-> tx[p].seq, data |-> tx[p].data, prev |-> prev, hash |-> h]
        /\ rows' = [rows EXCEPT ![r] = Append(@, e)]
        /\ tips' = [tips EXCEPT ![r] = @ \cup {h}]
  BY <1>0 DEF Insert
<1>4. version' = version + 1 /\ tx' = [tx EXCEPT ![p] = NoTx] /\ edits' = edits
  BY DEF Insert
<1>5. prev \in Hash /\ prev # None
  BY <1>2, <1>3, Linked
<1>6. h \in Hash /\ h # None /\ h = EventHash(e, prev)
  <2>1. h = EventHash(e, prev)
    BY <1>3 DEF EventHash, CanonicalEvent
  <2>2. e.seq \in Nat /\ e.data \in Data
    BY <1>2, <1>3
  <2> QED
    BY <1>5, <2>1, <2>2, Hashed
<1>7. e \in Row /\ e.hash = h /\ e.prev = prev /\ e.seq = tx[p].seq
  BY <1>2, <1>3, <1>5, <1>6 DEF Row
<1>8. rows \in [RunId -> Seq(Row)] /\ rows[r] \in Seq(Row) /\ tips \in [RunId -> SUBSET Hash] /\ version \in Nat \ {0}
  BY <1>1 DEF Typed
<1> DEFINE s == rows[r]
<1>9. /\ rows'[r] = Append(s, e) /\ Append(s, e) \in Seq(Row)
      /\ DOMAIN Append(s, e) = 1..(Len(s) + 1) /\ DOMAIN s = 1..Len(s) /\ Len(s) \in Nat
      /\ Append(s, e)[Len(s) + 1] = e /\ \A i \in 1..Len(s) : Append(s, e)[i] = s[i]
  <2>1. rows'[r] = Append(s, e)
    BY <1>3, <1>8
  <2> QED
    BY <1>7, <1>8, <2>1, Prefix
<1>10. \A q \in RunId : q # r => rows'[q] = rows[q] /\ tips'[q] = tips[q]
  BY <1>3, <1>8
<1>11. tips'[r] = tips[r] \cup {h}
  BY <1>3, <1>8
<1>12. Typed'
  <2>1. rows' \in [RunId -> Seq(Row)]
    BY <1>3, <1>8, <1>9
  <2>2. tips' \in [RunId -> SUBSET Hash]
    BY <1>3, <1>6, <1>8
  <2>3. tx' \in [Process -> Tx]
    BY <1>1, <1>4 DEF Typed, Tx
  <2>4. version' \in Nat \ {0} /\ edits' \in 0..MaxEdits
    BY <1>1, <1>4 DEF Typed
  <2> QED
    BY <2>1, <2>2, <2>3, <2>4 DEF Typed
<1>13. Stored'
  <2>1. ASSUME NEW i \in DOMAIN rows'[r] PROVE rows'[r][i].hash \in tips'[r] \cup {None}
    <3>1. i \in 1..Len(s) \/ i = Len(s) + 1
      BY <1>9
    <3>2. CASE i \in 1..Len(s)
      <4>1. rows'[r][i] = s[i] /\ i \in DOMAIN s
        BY <1>9, <3>2
      <4>2. s[i].hash \in tips[r] \cup {None}
        BY <1>1, <4>1 DEF Stored
      <4> QED
        BY <1>11, <4>1, <4>2
    <3>3. CASE i = Len(s) + 1
      BY <1>7, <1>9, <1>11, <3>3
    <3> QED
      BY <3>1, <3>2, <3>3
  <2>2. ASSUME NEW q \in RunId, q # r, NEW i \in DOMAIN rows'[q] PROVE rows'[q][i].hash \in tips'[q] \cup {None}
    BY <1>1, <1>10, <2>2 DEF Stored
  <2> QED
    BY <2>1, <2>2 DEF Stored
<1>14. Reads'
  <2>1. ASSUME NEW q \in Process, tx'[q] # NoTx PROVE tx'[q].at <= version' /\ tx'[q].at # version'
    <3>1. q # p /\ tx'[q] = tx[q]
      BY <1>1, <1>4, <2>1 DEF Typed
    <3>2. tx[q] \in Tx /\ tx[q] # NoTx
      BY <1>1, <2>1, <3>1 DEF Typed
    <3>3. tx[q].at \in Nat
      BY <3>2 DEF Tx
    <3>4. tx[q].at <= version
      BY <1>1, <3>2 DEF Reads
    <3> QED
      BY <1>4, <1>8, <3>1, <3>3, <3>4
  <2> QED
    BY <2>1 DEF Reads
<1>15. Chain'
  <2> SUFFICES ASSUME edits' = 0
               PROVE  \A q \in RunId : Sound(q, rows'[q]) /\ \A i \in DOMAIN rows'[q] : rows'[q][i].seq = i
    BY DEF Chain
  <2>1. \A q \in RunId : Sound(q, rows[q]) /\ \A i \in DOMAIN rows[q] : rows[q][i].seq = i
    BY <1>1, <1>4 DEF Chain
  <2>2. tx[p].seq = NextSeq(s) /\ tx[p].tip = ChainTip(s)
    BY <1>1, <1>2, <1>3 DEF Reads
  <2>3. Sound(r, Append(s, e))
    BY <1>3, <1>6, <1>7, <1>8, <2>1, <2>2, AppendSound
  <2>4. e.seq = Len(s) + 1
    <3>1. CASE s = <<>>
      BY <1>7, <2>2, <3>1 DEF NextSeq
    <3>2. CASE s # <<>>
      <4>1. Len(s) \in DOMAIN s
        BY <1>8, <3>2
      <4> QED
        BY <1>7, <2>1, <2>2, <3>2, <4>1 DEF NextSeq
    <3> QED
      BY <3>1, <3>2
  <2>5. \A i \in DOMAIN rows'[r] : rows'[r][i].seq = i
    <3>1. \A i \in 1..(Len(s) + 1) : i \in 1..Len(s) \/ i = Len(s) + 1
      BY <1>9
    <3> QED
      BY <1>9, <2>1, <2>4, <3>1
  <2> QED
    BY <1>9, <1>10, <2>1, <2>3, <2>5
<1> QED
  BY <1>12, <1>13, <1>14, <1>15 DEF ChainInv

\* An append fails.
LEMMA RollbackStep == ASSUME ChainInv, NEW p \in Process, Rollback(p) PROVE ChainInv'
<1>1. Typed /\ Stored /\ Reads /\ Chain
  BY DEF ChainInv
<1>2. rows' = rows /\ version' = version /\ edits' = edits /\ tips' = tips /\ tx' = [tx EXCEPT ![p] = NoTx]
  BY DEF Rollback
<1>3. Typed' /\ Stored' /\ Chain'
  BY <1>1, <1>2 DEF Typed, Stored, Chain, Tx
<1>4. Reads'
  <2>1. \A q \in Process : tx'[q] # NoTx => tx'[q] = tx[q]
    BY <1>1, <1>2 DEF Typed
  <2> QED
    BY <1>1, <1>2, <2>1 DEF Reads
<1> QED
  BY <1>3, <1>4 DEF ChainInv

\* A change behind the program's back makes no hash, and whoever has read waits
\* in vain for a version that is gone.
LEMMA EditStep == ASSUME ChainInv, NEW r \in RunId, Edit(r) PROVE ChainInv'
<1>1. Typed /\ Stored /\ Reads /\ Chain
  BY DEF ChainInv
<1>2. PICK t \in Edited(rows[r]) : rows' = [rows EXCEPT ![r] = t]
  BY DEF Edit
<1>3. edits < MaxEdits /\ edits' = edits + 1 /\ version' = version + 1 /\ tx' = tx /\ tips' = tips
  BY DEF Edit
<1>4. /\ rows \in [RunId -> Seq(Row)] /\ rows[r] \in Seq(Row) /\ edits \in Nat /\ version \in Nat \ {0}
      /\ MaxEdits \in Nat
  BY <1>1, Bounds DEF Typed
<1>5. From(rows[r], t)
  BY <1>2, <1>4, EditedFrom
<1>6. rows'[r] = t /\ t \in Seq(Row) /\ \A q \in RunId : q # r => rows'[q] = rows[q]
  BY <1>2, <1>4, <1>5 DEF From
<1>7. Typed'
  <2>1. rows' \in [RunId -> Seq(Row)]
    BY <1>2, <1>4, <1>6
  <2>2. edits' \in 0..MaxEdits /\ version' \in Nat \ {0}
    BY <1>3, <1>4
  <2> QED
    BY <1>1, <1>3, <2>1, <2>2 DEF Typed
<1>8. Stored'
  <2>1. ASSUME NEW i \in DOMAIN t PROVE t[i].hash \in tips[r] \cup {None}
    BY <1>1, <1>5 DEF From, Stored
  <2>2. ASSUME NEW q \in RunId, q # r, NEW i \in DOMAIN rows'[q] PROVE rows'[q][i].hash \in tips'[q] \cup {None}
    BY <1>1, <1>3, <1>6, <2>2 DEF Stored
  <2> QED
    BY <1>3, <1>6, <2>1, <2>2 DEF Stored
<1>9. Reads'
  <2>1. ASSUME NEW q \in Process, tx[q] # NoTx PROVE tx[q].at <= version + 1 /\ tx[q].at # version + 1
    <3>1. tx[q] \in Tx
      BY <1>1 DEF Typed
    <3>2. tx[q].at \in Nat
      BY <2>1, <3>1 DEF Tx
    <3>3. tx[q].at <= version
      BY <1>1, <2>1 DEF Reads
    <3> QED
      BY <1>4, <3>2, <3>3
  <2> QED
    BY <1>3, <2>1 DEF Reads
<1>10. Chain'
  <2>1. edits' # 0
    BY <1>3, <1>4
  <2> QED
    BY <2>1 DEF Chain
<1> QED
  BY <1>7, <1>8, <1>9, <1>10 DEF ChainInv

\* Every step keeps the inductive invariant.
LEMMA ChainNextInv == ChainInv /\ [ChainNext]_chainVars => ChainInv'
<1> SUFFICES ASSUME ChainInv, [ChainNext]_chainVars PROVE ChainInv'
  OBVIOUS
<1>1. CASE \E p \in Process : (\E r \in RunId, d \in Data : Begin(p, r, d)) \/ Insert(p) \/ Rollback(p)
  BY <1>1, BeginStep, InsertStep, RollbackStep
<1>2. CASE \E r \in RunId : Edit(r)
  BY <1>2, EditStep
<1>3. CASE UNCHANGED chainVars
  BY <1>3 DEF chainVars, ChainInv, Typed, Stored, Reads, Chain
<1> QED
  BY <1>1, <1>2, <1>3 DEF ChainNext

\* The inductive invariant holds in every reachable state.
LEMMA ChainInvariance == ChainSpec => []ChainInv
BY ChainInitInv, ChainNextInv, PTL DEF ChainSpec

-----------------------------------------------------------------------------
(* The theorems. *)

\* AppendTraceEvent and VerifyRunChain agree: whatever processes append at the
\* same time, roll back or crash, and whatever rows a run had before chaining,
\* verification accepts what the program alone wrote, with consecutive seqs.
THEOREM WrittenIsVerified == ChainSpec => []WrittenVerifies
<1>1. ChainInv => WrittenVerifies
  <2> SUFFICES ASSUME ChainInv, edits = 0
               PROVE  \A r \in RunId : Ok(r) /\ \A i \in DOMAIN rows[r] : rows[r][i].seq = i
    BY DEF WrittenVerifies
  <2>1. ASSUME NEW r \in RunId PROVE Ok(r)
    <3>1. rows[r] \in Seq(Row) /\ Sound(r, rows[r])
      BY DEF ChainInv, Typed, Chain
    <3> QED
      BY <3>1, SoundIsOk DEF Ok
  <2> QED
    BY <2>1 DEF ChainInv, Chain
<1> QED
  BY <1>1, ChainInvariance, PTL

-----------------------------------------------------------------------------
(* The rows of a run stay in the order of their sequence numbers. *)

Ordered(s) == \A i, j \in DOMAIN s : i < j => s[i].seq < s[j].seq
InOrder == \A r \in RunId : Ordered(rows[r])

\* A sequence number of a row is a number.
LEMMA SeqNumber == ASSUME NEW s \in Seq(Row), NEW i \in DOMAIN s PROVE s[i].seq \in Nat
<1>1. s[i] \in Row
  OBVIOUS
<1> QED
  BY <1>1 DEF Row

\* In ordered rows those below q come first: the row with q belongs behind them.
LEMMA BelowSplits ==
  ASSUME NEW s \in Seq(Row), Ordered(s), NEW q \in Nat
  PROVE  \A i \in DOMAIN s : s[i].seq < q <=> i <= Below(s, q)
<1> DEFINE I == {i \in DOMAIN s : s[i].seq < q}
           T == {i \in DOMAIN s : ~(s[i].seq < q)}
<1>1. DOMAIN s = 1..Len(s) /\ Len(s) \in Nat
  OBVIOUS
<1>2. PICK n \in 0..Len(s) : \A i \in DOMAIN s : s[i].seq < q <=> i <= n
  <2>1. CASE T = {}
    <3>1. Len(s) \in 0..Len(s) /\ \A i \in DOMAIN s : s[i].seq < q <=> i <= Len(s)
      BY <1>1, <2>1
    <3> QED
      BY <3>1
  <2>2. CASE T # {}
    <3>1. T \subseteq Nat
      BY <1>1
    <3>2. PICK x \in T : \A y \in T : x <= y
      BY <2>2, <3>1, Least
    <3>3. x \in 1..Len(s) /\ x - 1 \in 0..Len(s)
      BY <1>1, <3>2
    <3>4. ASSUME NEW i \in DOMAIN s PROVE s[i].seq < q <=> i <= x - 1
      <4>1. s[i].seq \in Nat /\ s[x].seq \in Nat /\ i \in Nat /\ x \in Nat /\ ~(s[x].seq < q)
        BY <1>1, <3>2, <3>3, SeqNumber
      <4>2. CASE i < x
        <5>1. i \notin T
          BY <3>2, <4>1, <4>2
        <5> QED
          BY <4>1, <4>2, <5>1
      <4>3. CASE i = x
        BY <4>1, <4>3
      <4>4. CASE x < i
        <5>1. s[x].seq < s[i].seq
          BY <1>1, <3>3, <4>4 DEF Ordered
        <5> QED
          BY <4>1, <4>4, <5>1
      <4> QED
        BY <4>1, <4>2, <4>3, <4>4
    <3> QED
      BY <3>3, <3>4
  <2> QED
    BY <2>1, <2>2
<1>3. I = 1..n
  BY <1>1, <1>2
<1>4. Cardinality(1..n) = n
  <2>1. 1 \in Int /\ n \in Int /\ n \in Nat
    BY <1>1
  <2>2. Cardinality(1..n) = IF 1 > n THEN 0 ELSE n - 1 + 1
    BY <2>1, FS_Interval
  <2> QED
    BY <2>1, <2>2
<1>5. Below(s, q) = n
  BY <1>3, <1>4 DEF Below
<1> QED
  BY <1>2, <1>5

\* What a row is moved to keeps the order if it takes over the sequence number.
LEMMA SameSeqs ==
  ASSUME NEW s, NEW t, Ordered(s), DOMAIN t = DOMAIN s, \A i \in DOMAIN s : t[i].seq = s[i].seq
  PROVE  Ordered(t)
BY DEF Ordered

\* The next sequence number is beyond those of the rows.
LEMMA NextIsLast ==
  ASSUME NEW s \in Seq(Row), Ordered(s), NEW i \in DOMAIN s
  PROVE  s[i].seq < NextSeq(s)
<1>1. i \in 1..Len(s) /\ Len(s) \in DOMAIN s /\ Len(s) \in Nat /\ s # <<>>
  OBVIOUS
<1>2. s[i].seq \in Nat /\ s[Len(s)].seq \in Nat
  BY <1>1, SeqNumber
<1>3. CASE i = Len(s)
  BY <1>1, <1>2, <1>3 DEF NextSeq
<1>4. CASE i # Len(s)
  <2>1. i < Len(s)
    BY <1>1, <1>4
  <2>2. s[i].seq < s[Len(s)].seq
    BY <1>1, <2>1 DEF Ordered
  <2> QED
    BY <1>1, <1>2, <2>2 DEF NextSeq
<1> QED
  BY <1>3, <1>4

\* A row with the next sequence number is appended.
LEMMA AppendOrdered ==
  ASSUME NEW s \in Seq(Row), Ordered(s), NEW e \in Row, e.seq = NextSeq(s)
  PROVE  Ordered(Append(s, e))
<1> DEFINE t == Append(s, e)
<1>1. /\ DOMAIN t = 1..(Len(s) + 1) /\ DOMAIN s = 1..Len(s) /\ t[Len(s) + 1] = e /\ Len(s) \in Nat
      /\ \A i \in 1..Len(s) : t[i] = s[i]
  BY Prefix
<1> HIDE DEF t
<1>2. ASSUME NEW i \in DOMAIN t, NEW j \in DOMAIN t, i < j PROVE t[i].seq < t[j].seq
  <2>1. i \in 1..Len(s) /\ t[i] = s[i] /\ (j \in 1..Len(s) \/ j = Len(s) + 1)
    BY <1>1, <1>2
  <2>2. CASE j \in 1..Len(s)
    BY <1>1, <1>2, <2>1, <2>2 DEF Ordered
  <2>3. CASE j = Len(s) + 1
    BY <1>1, <2>1, <2>3, NextIsLast
  <2> QED
    BY <2>1, <2>2, <2>3
<1>3. Ordered(t)
  BY <1>2 DEF Ordered
<1> QED
  BY <1>3 DEF t

\* The rows m to n, and rows followed by others.
LEMMA PartRows ==
  ASSUME NEW s \in Seq(Row), NEW m \in Nat \ {0}, NEW n \in Nat, n <= Len(s), m <= n + 1
  PROVE  /\ SubSeq(s, m, n) \in Seq(Row) /\ Len(SubSeq(s, m, n)) = n + 1 - m
         /\ \A k \in 1..(n + 1 - m) : SubSeq(s, m, n)[k] = s[m + k - 1]
<1>1. Len(s) \in Nat /\ DOMAIN s = 1..Len(s) /\ m \in Int /\ n \in Int
  BY LenProperties
<1>2. \A i \in m..n : i \in DOMAIN s /\ s[i] \in Row
  BY <1>1
<1>3. /\ SubSeq(s, m, n) \in Seq(Row) /\ Len(SubSeq(s, m, n)) = IF m <= n THEN n - m + 1 ELSE 0
      /\ \A i \in 1..n - m + 1 : SubSeq(s, m, n)[i] = s[m + i - 1]
  BY <1>1, <1>2, SubSeqProperties
<1>4. n - m + 1 = n + 1 - m /\ (~(m <= n) => n + 1 - m = 0)
  BY <1>1
<1> QED
  BY <1>3, <1>4

LEMMA JoinRows ==
  ASSUME NEW a \in Seq(Row), NEW b \in Seq(Row)
  PROVE  /\ a \o b \in Seq(Row) /\ Len(a \o b) = Len(a) + Len(b) /\ DOMAIN (a \o b) = 1..(Len(a) + Len(b))
         /\ \A k \in 1..(Len(a) + Len(b)) : (a \o b)[k] = IF k <= Len(a) THEN a[k] ELSE b[k - Len(a)]
<1>1. /\ a \o b \in Seq(Row) /\ Len(a \o b) = Len(a) + Len(b)
      /\ \A i \in 1..Len(a) + Len(b) : (a \o b)[i] = IF i <= Len(a) THEN a[i] ELSE b[i - Len(a)]
  BY ConcatProperties
<1>2. DOMAIN (a \o b) = 1..Len(a \o b)
  BY <1>1, LenProperties
<1> QED
  BY <1>1, <1>2

\* A row is removed.
LEMMA RemoveOrdered ==
  ASSUME NEW s \in Seq(Row), Ordered(s), NEW i \in DOMAIN s
  PROVE  Ordered(RemoveAt(s, i))
<1>1. PICK t : t = RemoveAt(s, i)
  OBVIOUS
<1>2. /\ DOMAIN s = 1..Len(s) /\ Len(s) \in Nat /\ i \in 1..Len(s)
      /\ DOMAIN t = 1..(Len(s) - 1)
      /\ \A k \in 1..(Len(s) - 1) : t[k] = IF k < i THEN s[k] ELSE s[k + 1]
  <2>1. DOMAIN s = 1..Len(s) /\ Len(s) \in Nat /\ i \in 1..Len(s)
    OBVIOUS
  <2>2. i - 1 \in Nat /\ i + 1 \in Nat \ {0} /\ (Len(s) + 1) - (i + 1) = Len(s) - i /\ ((i - 1) + 1) - 1 = i - 1
    BY <2>1
  <2>3. PICK u : u = SubSeq(s, 1, i - 1)
    OBVIOUS
  <2>4. PICK v : v = SubSeq(s, i + 1, Len(s))
    OBVIOUS
  <2>5. u \in Seq(Row) /\ Len(u) = i - 1 /\ \A k \in 1..(i - 1) : u[k] = s[k]
    <3>1. /\ u \in Seq(Row) /\ Len(u) = (i - 1) + 1 - 1
          /\ \A k \in 1..((i - 1) + 1 - 1) : u[k] = s[1 + k - 1]
      <4>1. PICK m \in Nat : m = i - 1
        BY <2>2
      <4>2. 1 \in Nat \ {0} /\ m <= Len(s) /\ 1 <= m + 1
        BY <2>1, <4>1
      <4>3. u = SubSeq(s, 1, m)
        BY <2>3, <4>1
      <4>4. u \in Seq(Row) /\ Len(u) = m + 1 - 1 /\ \A k \in 1..(m + 1 - 1) : u[k] = s[1 + k - 1]
        BY <4>2, <4>3, PartRows
      <4> QED
        BY <4>1, <4>4
    <3> QED
      BY <2>1, <2>2, <3>1
  <2>6. v \in Seq(Row) /\ Len(v) = Len(s) - i /\ \A k \in 1..(Len(s) - i) : v[k] = s[i + k]
    <3>1. /\ v \in Seq(Row) /\ Len(v) = Len(s) + 1 - (i + 1)
          /\ \A k \in 1..(Len(s) + 1 - (i + 1)) : v[k] = s[(i + 1) + k - 1]
      <4>1. PICK m \in Nat \ {0} : m = i + 1
        BY <2>2
      <4>2. m <= Len(s) + 1 /\ Len(s) <= Len(s)
        BY <2>1, <4>1
      <4>3. v = SubSeq(s, m, Len(s))
        BY <2>4, <4>1
      <4>4. /\ v \in Seq(Row) /\ Len(v) = Len(s) + 1 - m
            /\ \A k \in 1..(Len(s) + 1 - m) : v[k] = s[m + k - 1]
        BY <2>1, <4>2, <4>3, PartRows
      <4> QED
        BY <4>1, <4>4
    <3>2. ASSUME NEW k \in 1..(Len(s) - i) PROVE v[k] = s[i + k]
      <4>1. (i + 1) + k - 1 = i + k /\ k \in 1..(Len(s) + 1 - (i + 1))
        BY <2>1, <2>2
      <4>2. v[k] = s[(i + 1) + k - 1]
        BY <3>1, <4>1
      <4> QED
        BY <4>1, <4>2
    <3> QED
      BY <2>2, <3>1, <3>2
  <2>7. t = u \o v
    BY <1>1, <2>3, <2>4 DEF RemoveAt
  <2>8. /\ DOMAIN t = 1..((i - 1) + (Len(s) - i))
        /\ \A k \in 1..((i - 1) + (Len(s) - i)) : t[k] = IF k <= i - 1 THEN u[k] ELSE v[k - (i - 1)]
    <3>1. /\ DOMAIN t = 1..(Len(u) + Len(v))
          /\ \A k \in 1..(Len(u) + Len(v)) : t[k] = IF k <= Len(u) THEN u[k] ELSE v[k - Len(u)]
      BY <2>5, <2>6, <2>7, JoinRows
    <3> QED
      BY <2>5, <2>6, <3>1
  <2>9. (i - 1) + (Len(s) - i) = Len(s) - 1
    BY <2>1
  <2>10. ASSUME NEW k \in 1..(Len(s) - 1) PROVE t[k] = IF k < i THEN s[k] ELSE s[k + 1]
    <3>1. t[k] = IF k <= i - 1 THEN u[k] ELSE v[k - (i - 1)]
      BY <2>8, <2>9
    <3>2. CASE k < i
      <4>1. k <= i - 1 /\ k \in 1..(i - 1)
        BY <2>1, <3>2
      <4> QED
        BY <2>5, <3>1, <3>2, <4>1
    <3>3. CASE ~(k < i)
      <4>1. ~(k <= i - 1) /\ k - (i - 1) \in 1..(Len(s) - i) /\ i + (k - (i - 1)) = k + 1
        BY <2>1, <3>3
      <4> QED
        BY <2>6, <3>1, <3>3, <4>1
    <3> QED
      BY <3>2, <3>3
  <2> QED
    BY <2>1, <2>8, <2>9, <2>10
<1>3. ASSUME NEW a \in DOMAIN t, NEW b \in DOMAIN t, a < b PROVE t[a].seq < t[b].seq
  <2>1. PICK x \in DOMAIN s : x = IF a < i THEN a ELSE a + 1
    BY <1>2
  <2>2. PICK y \in DOMAIN s : y = IF b < i THEN b ELSE b + 1
    BY <1>2
  <2>3. x < y /\ t[a] = s[x] /\ t[b] = s[y]
    BY <1>2, <1>3, <2>1, <2>2
  <2> QED
    BY <2>3 DEF Ordered
<1> QED
  BY <1>1, <1>3 DEF Ordered

\* A row is added where its sequence number, which no row has, belongs.
LEMMA InsertOrdered ==
  ASSUME NEW s \in Seq(Row), Ordered(s), NEW e \in Row, \A i \in DOMAIN s : s[i].seq # e.seq
  PROVE  Ordered(InsertAt(s, Below(s, e.seq) + 1, e))
<1>1. PICK n \in 0..Len(s) : n = Below(s, e.seq)
  BY BelowRange
<1>2. e.seq \in Nat
  BY DEF Row
<1>3. \A i \in DOMAIN s : s[i].seq < e.seq <=> i <= n
  BY <1>1, <1>2, BelowSplits
<1>4. PICK t : t = InsertAt(s, n + 1, e)
  OBVIOUS
<1>5. /\ DOMAIN s = 1..Len(s) /\ Len(s) \in Nat
      /\ DOMAIN t = 1..(Len(s) + 1) /\ t[n + 1] = e
      /\ \A k \in 1..n : t[k] = s[k]
      /\ \A k \in (n + 2)..(Len(s) + 1) : t[k] = s[k - 1]
  <2>1. DOMAIN s = 1..Len(s) /\ Len(s) \in Nat /\ (n + 1) - 1 = n
    OBVIOUS
  <2>2. n \in Nat /\ n + 1 - 1 = n /\ Len(s) + 1 - (n + 1) = Len(s) - n /\ n + 1 \in Nat \ {0} /\ n + 1 <= Len(s) + 1
    BY <1>1, <2>1
  <2>3. PICK u : u = SubSeq(s, 1, n)
    OBVIOUS
  <2>4. PICK v : v = SubSeq(s, n + 1, Len(s))
    OBVIOUS
  <2>5. u \in Seq(Row) /\ Len(u) = n /\ \A k \in 1..n : u[k] = s[k]
    <3>1. u \in Seq(Row) /\ Len(u) = n + 1 - 1 /\ \A k \in 1..(n + 1 - 1) : u[k] = s[1 + k - 1]
      <4>1. 1 \in Nat \ {0} /\ n <= Len(s) /\ 1 <= n + 1
        BY <2>1, <2>2
      <4> QED
        BY <2>2, <2>3, <4>1, PartRows
    <3> QED
      BY <2>2, <3>1
  <2>6. v \in Seq(Row) /\ Len(v) = Len(s) - n /\ \A k \in 1..(Len(s) - n) : v[k] = s[n + k]
    <3>1. /\ v \in Seq(Row) /\ Len(v) = Len(s) + 1 - (n + 1)
          /\ \A k \in 1..(Len(s) + 1 - (n + 1)) : v[k] = s[(n + 1) + k - 1]
      <4>1. PICK m \in Nat \ {0} : m = n + 1
        BY <2>2
      <4>2. m <= Len(s) + 1 /\ Len(s) <= Len(s)
        BY <2>1, <2>2, <4>1
      <4>3. v = SubSeq(s, m, Len(s))
        BY <2>4, <4>1
      <4>4. /\ v \in Seq(Row) /\ Len(v) = Len(s) + 1 - m
            /\ \A k \in 1..(Len(s) + 1 - m) : v[k] = s[m + k - 1]
        BY <2>1, <4>2, <4>3, PartRows
      <4> QED
        BY <4>1, <4>4
    <3>2. ASSUME NEW k \in 1..(Len(s) - n) PROVE v[k] = s[n + k]
      <4>1. (n + 1) + k - 1 = n + k
        BY <2>1, <2>2
      <4> QED
        BY <2>2, <3>1, <4>1
    <3> QED
      BY <2>2, <3>1, <3>2
  <2>7. PICK x : x = <<e>>
    OBVIOUS
  <2>8. x \in Seq(Row) /\ Len(x) = 1 /\ x[1] = e
    BY <2>7
  <2>9. PICK w : w = u \o x
    OBVIOUS
  <2>10. w \in Seq(Row) /\ Len(w) = n + 1 /\ w[n + 1] = e /\ \A k \in 1..n : w[k] = s[k]
    <3>1. /\ w \in Seq(Row) /\ Len(w) = n + 1
          /\ \A k \in 1..(n + 1) : w[k] = IF k <= n THEN u[k] ELSE x[k - n]
      <4>1. /\ w \in Seq(Row) /\ Len(w) = Len(u) + Len(x)
            /\ \A k \in 1..(Len(u) + Len(x)) : w[k] = IF k <= Len(u) THEN u[k] ELSE x[k - Len(u)]
        BY <2>5, <2>8, <2>9, JoinRows
      <4> QED
        BY <2>5, <2>8, <4>1
    <3>2. n + 1 \in 1..(n + 1) /\ ~(n + 1 <= n) /\ (n + 1) - n = 1 /\ \A k \in 1..n : k \in 1..(n + 1) /\ k <= n
      BY <2>2
    <3> QED
      BY <2>5, <2>8, <3>1, <3>2
  <2>11. t = w \o v
    BY <1>4, <2>1, <2>3, <2>4, <2>7, <2>9 DEF InsertAt
  <2>12. /\ DOMAIN t = 1..((n + 1) + (Len(s) - n))
         /\ \A k \in 1..((n + 1) + (Len(s) - n)) : t[k] = IF k <= n + 1 THEN w[k] ELSE v[k - (n + 1)]
    <3>1. /\ DOMAIN t = 1..(Len(w) + Len(v))
          /\ \A k \in 1..(Len(w) + Len(v)) : t[k] = IF k <= Len(w) THEN w[k] ELSE v[k - Len(w)]
      BY <2>6, <2>10, <2>11, JoinRows
    <3> QED
      BY <2>6, <2>10, <3>1
  <2>13. (n + 1) + (Len(s) - n) = Len(s) + 1
    BY <2>1, <2>2
  <2>14. t[n + 1] = e /\ \A k \in 1..n : t[k] = s[k]
    <3>1. n + 1 \in 1..(Len(s) + 1) /\ \A k \in 1..n : k \in 1..(Len(s) + 1) /\ k <= n + 1
      BY <2>1, <2>2
    <3> QED
      BY <2>10, <2>12, <2>13, <3>1
  <2>15. ASSUME NEW k \in (n + 2)..(Len(s) + 1) PROVE t[k] = s[k - 1]
    <3>1. /\ k \in 1..(Len(s) + 1) /\ ~(k <= n + 1) /\ k - (n + 1) \in 1..(Len(s) - n)
          /\ n + (k - (n + 1)) = k - 1
      BY <2>1, <2>2
    <3>2. t[k] = v[k - (n + 1)]
      BY <2>12, <2>13, <3>1
    <3> QED
      BY <2>6, <3>1, <3>2
  <2> QED
    BY <2>1, <2>12, <2>13, <2>14, <2>15
<1>6. ASSUME NEW a \in DOMAIN t, NEW b \in DOMAIN t, a < b PROVE t[a].seq < t[b].seq
  <2>1. a \in 1..(Len(s) + 1) /\ b \in 1..(Len(s) + 1) /\ n \in Nat
    BY <1>5
  <2>2. CASE b <= n
    <3>1. a \in 1..n /\ b \in 1..n /\ a \in DOMAIN s /\ b \in DOMAIN s
      BY <1>5, <1>6, <2>1, <2>2
    <3> QED
      BY <1>5, <1>6, <3>1 DEF Ordered
  <2>3. CASE b = n + 1
    <3>1. a \in 1..n /\ a \in DOMAIN s
      BY <1>5, <1>6, <2>1, <2>3
    <3>2. s[a].seq < e.seq
      BY <1>3, <3>1
    <3> QED
      BY <1>5, <2>3, <3>1, <3>2
  <2>4. CASE b > n + 1
    <3>1. b \in (n + 2)..(Len(s) + 1) /\ b - 1 \in DOMAIN s /\ b - 1 > n
      BY <1>5, <2>1, <2>4
    <3>2. t[b] = s[b - 1]
      BY <1>5, <3>1
    <3>3. s[b - 1].seq \in Nat /\ s[b - 1].seq > e.seq
      <4>1. s[b - 1].seq \in Nat
        BY <3>1, SeqNumber
      <4>2. ~(s[b - 1].seq < e.seq) /\ s[b - 1].seq # e.seq
        BY <1>3, <2>1, <3>1
      <4> QED
        BY <1>2, <4>1, <4>2
    <3>4. CASE a <= n
      <4>1. a \in 1..n /\ a \in DOMAIN s /\ a < b - 1
        BY <1>5, <2>1, <3>1, <3>4
      <4> QED
        BY <1>5, <3>1, <3>2, <4>1 DEF Ordered
    <3>5. CASE a = n + 1
      BY <1>2, <1>5, <3>2, <3>3, <3>5
    <3>6. CASE a > n + 1
      <4>1. a \in (n + 2)..(Len(s) + 1) /\ a - 1 \in DOMAIN s /\ a - 1 < b - 1
        BY <1>5, <1>6, <2>1, <3>6
      <4>2. t[a] = s[a - 1]
        BY <1>5, <4>1
      <4> QED
        BY <3>1, <3>2, <4>1, <4>2 DEF Ordered
    <3> QED
      BY <2>1, <3>4, <3>5, <3>6
  <2> QED
    BY <2>1, <2>2, <2>3, <2>4
<1>7. Ordered(t)
  BY <1>6 DEF Ordered
<1> QED
  BY <1>1, <1>4, <1>7

\* No change behind the program's back disturbs the order in which rows are read.
LEMMA EditedOrdered == ASSUME NEW s \in Seq(Row), Ordered(s), NEW t \in Edited(s) PROVE Ordered(t)
<1>1. CASE t \in Altered(s)
  <2>1. PICK i \in DOMAIN s : \E d \in Data : t = [s EXCEPT ![i].data = d]
    BY <1>1 DEF Altered
  <2>2. PICK d \in Data : t = [s EXCEPT ![i].data = d]
    BY <2>1
  <2>3. PICK e : e = [s[i] EXCEPT !.data = d]
    OBVIOUS
  <2>4. t = [s EXCEPT ![i] = e] /\ e.seq = s[i].seq
    <3>1. s[i] \in Row
      OBVIOUS
    <3> QED
      BY <2>2, <2>3, <3>1 DEF Row
  <2>5. DOMAIN t = DOMAIN s /\ \A k \in DOMAIN s : t[k].seq = s[k].seq
    BY <2>4
  <2> QED
    BY <2>5, SameSeqs
<1>2. CASE t \in Dropped(s)
  BY <1>2, RemoveOrdered DEF Dropped
<1>3. CASE t \in Added(s)
  <2>1. PICK q \in Absent(s) : \E d \in Data : t = InsertAt(s, Below(s, q) + 1, Bare(q, d))
    BY <1>3 DEF Added
  <2>2. PICK d \in Data : t = InsertAt(s, Below(s, q) + 1, Bare(q, d))
    BY <2>1
  <2>3. q \in Nat /\ \A i \in DOMAIN s : s[i].seq # q
    BY SeqTyped DEF Absent
  <2>4. Bare(q, d) \in Row /\ Bare(q, d).seq = q
    BY <2>3 DEF Bare, Row, None, Hash
  <2> QED
    BY <2>2, <2>3, <2>4, InsertOrdered
<1>4. CASE t \in Traded(s)
  <2>1. PICK i \in DOMAIN s : \E j \in DOMAIN s : t = Trade(s, i, j)
    BY <1>4 DEF Traded
  <2>2. PICK j \in DOMAIN s : t = Trade(s, i, j)
    BY <2>1
  <2>3. PICK x, y : x = [s[j] EXCEPT !.seq = s[i].seq] /\ y = [s[i] EXCEPT !.seq = s[j].seq]
    OBVIOUS
  <2>4. x.seq = s[i].seq /\ y.seq = s[j].seq
    <3>1. s[i] \in Row /\ s[j] \in Row
      OBVIOUS
    <3> QED
      BY <2>3, <3>1 DEF Row
  <2>5. t = [[s EXCEPT ![i] = x] EXCEPT ![j] = y]
    BY <2>2, <2>3 DEF Trade
  <2>6. DOMAIN t = DOMAIN s /\ \A k \in DOMAIN s : t[k].seq = s[k].seq
    BY <2>4, <2>5
  <2> QED
    BY <2>6, SameSeqs
<1> QED
  BY <1>1, <1>2, <1>3, <1>4 DEF Edited

\* Every step keeps the rows in order.
LEMMA OrderStep == ChainInv /\ InOrder /\ [ChainNext]_chainVars => InOrder'
<1> SUFFICES ASSUME ChainInv, InOrder, [ChainNext]_chainVars, NEW r \in RunId PROVE Ordered(rows'[r])
  BY DEF InOrder
<1>1. rows \in [RunId -> Seq(Row)] /\ rows[r] \in Seq(Row) /\ Ordered(rows[r])
  BY DEF ChainInv, Typed, InOrder
<1>2. CASE rows'[r] = rows[r]
  BY <1>1, <1>2
<1>3. ASSUME NEW p \in Process, Insert(p) PROVE Ordered(rows'[r])
  <2>1. tx[p] \in Tx /\ tx[p] # NoTx /\ tx[p].at = version
    BY <1>3 DEF ChainInv, Typed, Insert, Current
  <2>2. tx[p].run \in RunId /\ tx[p].data \in Data /\ tx[p].seq \in Nat /\ tx[p].tip \in Hash
    BY <2>1 DEF Tx
  <2>0. PICK q \in RunId : q = tx[p].run
    BY <2>2
  <2>3. PICK prev, h, e :
          /\ prev = PrevHashForChainTip(q, tx[p].tip)
          /\ h = EventHash([seq |-> tx[p].seq, data |-> tx[p].data], prev)
          /\ e = [seq |-> tx[p].seq, data |-> tx[p].data, prev |-> prev, hash |-> h]
          /\ rows' = [rows EXCEPT ![q] = Append(@, e)]
    BY <1>3, <2>0 DEF Insert
  <2>4. CASE q # r
    BY <1>1, <2>3, <2>4
  <2>5. CASE q = r
    <3>1. e \in Row
      <4>1. [seq |-> tx[p].seq, data |-> tx[p].data].seq \in Nat /\ [seq |-> tx[p].seq, data |-> tx[p].data].data \in Data
        BY <2>2
      <4>2. prev \in Hash /\ h \in Hash
        BY <2>0, <2>2, <2>3, <4>1, Linked, Hashed
      <4> QED
        BY <2>2, <2>3, <4>2 DEF Row
    <3>2. e.seq = NextSeq(rows[r])
      BY <2>0, <2>1, <2>3, <2>5 DEF ChainInv, Reads
    <3>3. rows'[r] = Append(rows[r], e)
      BY <1>1, <2>3, <2>5
    <3> QED
      BY <1>1, <3>1, <3>2, <3>3, AppendOrdered
  <2> QED
    BY <2>4, <2>5
<1>4. ASSUME NEW q \in RunId, Edit(q) PROVE Ordered(rows'[r])
  <2>1. PICK t \in Edited(rows[q]) : rows' = [rows EXCEPT ![q] = t]
    BY <1>4 DEF Edit
  <2>2. CASE q # r
    BY <1>1, <2>1, <2>2
  <2>3. CASE q = r
    <3>1. rows'[r] = t
      BY <1>1, <2>1, <2>3
    <3> QED
      BY <1>1, <2>1, <2>3, <3>1, EditedOrdered
  <2> QED
    BY <2>2, <2>3
<1> QED
  BY <1>2, <1>3, <1>4 DEF ChainNext, chainVars, Begin, Rollback

\* The rows of every run are in order in every reachable state.
LEMMA OrderInvariance == ChainSpec => []InOrder
<1>1. ChainInit => InOrder
  <2> SUFFICES ASSUME ChainInit, NEW r \in RunId PROVE Ordered(rows[r])
    BY DEF InOrder
  <2>1. rows[r] \in Seq(Row) /\ \A i \in DOMAIN rows[r] : rows[r][i].seq = i
    BY ChainInitInv DEF ChainInit, ChainInv, Chain, Typed
  <2> QED
    BY <2>1 DEF Ordered
<1> QED
  BY <1>1, OrderStep, ChainInvariance, PTL DEF ChainSpec

\* Every variable keeps its type, and a run's rows, which AppendTraceEvent numbers
\* from the last one on, are in the order of their numbers whatever is altered,
\* dropped, added or traded behind the program's back.
THEOREM ChainTyped == ChainSpec => []ChainTypeOK
<1>1. ChainInv /\ InOrder => ChainTypeOK
  <2> SUFFICES ASSUME ChainInv, InOrder PROVE ChainTypeOK
    OBVIOUS
  <2>1. Typed /\ Reads
    BY DEF ChainInv
  <2>2. ASSUME NEW r \in RunId, NEW i \in DOMAIN rows[r]
        PROVE  /\ rows[r][i].seq \in Nat /\ rows[r][i].data \in Data
               /\ i > 1 => rows[r][i].seq > rows[r][i - 1].seq
    <3>1. rows[r] \in Seq(Row)
      BY <2>1 DEF Typed
    <3>2. rows[r][i] \in Row
      BY <3>1
    <3>3. rows[r][i].seq \in Nat /\ rows[r][i].data \in Data
      BY <3>2 DEF Row
    <3>4. ASSUME i > 1 PROVE rows[r][i].seq > rows[r][i - 1].seq
      <4>1. i - 1 \in DOMAIN rows[r] /\ i - 1 < i
        BY <3>1, <3>4
      <4>2. rows[r][i - 1].seq \in Nat /\ rows[r][i - 1].seq < rows[r][i].seq
        BY <3>1, <4>1, SeqNumber DEF InOrder, Ordered
      <4> QED
        BY <3>3, <4>2
    <3> QED
      BY <3>3, <3>4
  <2>3. ASSUME NEW p \in Process PROVE tx[p].at \in 0..version
    <3>1. tx[p] \in Tx /\ version \in Nat
      BY <2>1 DEF Typed
    <3>2. CASE tx[p] = NoTx
      BY <3>1, <3>2 DEF NoTx
    <3>3. CASE tx[p] # NoTx
      <4>1. tx[p].at \in Nat
        BY <3>1, <3>3 DEF Tx
      <4>2. tx[p].at <= version
        BY <2>1, <3>3 DEF Reads
      <4> QED
        BY <3>1, <4>1, <4>2
    <3> QED
      BY <3>2, <3>3
  <2>4. edits \in 0..MaxEdits
    BY <2>1 DEF Typed
  <2> QED
    BY <2>2, <2>3, <2>4 DEF ChainTypeOK
<1> QED
  BY <1>1, OrderInvariance, ChainInvariance, PTL

\* Verification that succeeds found no break, if no chained row has number 0: a
\* row that breaks the chain has a hash or stands behind one that has, so its
\* number is not 0.
LEMMA OkIsSound ==
  ASSUME NEW r, NEW s \in Seq(Row), Ordered(s), ZeroIsBare(s), VerifyRunChain(r, s) = 0
  PROVE  Sound(r, s)
<1> DEFINE B == {i \in DOMAIN s : BreaksAt(r, s, i)}
<1>1. ASSUME B # {} PROVE FALSE
  <2>1. B \subseteq Nat
    OBVIOUS
  <2> DEFINE first == CHOOSE i \in B : \A j \in B : i <= j
  <2>2. \E i \in B : \A j \in B : i <= j
    BY <1>1, <2>1, Least
  <2>3. PICK f \in B : f = first
    BY <2>2
  <2>4. f \in DOMAIN s /\ BreaksAt(r, s, f) /\ s[f].seq = 0
    BY <1>1, <2>3 DEF VerifyRunChain
  <2>5. Unchained(s[f])
    BY <2>4 DEF ZeroIsBare
  <2>6. PICK j \in 1..(f - 1) : TRUE
    BY <2>4, <2>5 DEF BreaksAt
  <2>7. f \in Nat /\ j \in DOMAIN s /\ j < f
    BY <2>4, <2>6
  <2>8. s[j].seq \in Nat /\ s[j].seq < s[f].seq
    BY <2>4, <2>7, SeqNumber DEF Ordered
  <2> QED
    BY <2>4, <2>8
<1> QED
  BY <1>1 DEF Sound

\* VerifyRunChain's promise, after any changes behind the program's back: what it
\* accepts is a block without hashes, then exactly a chain that was written,
\* unless a row with a hash was given the number 0.
THEOREM VerifiedWasWritten == ChainSpec => []VerifiedIsWritten
<1>1. ChainInv /\ InOrder => VerifiedIsWritten
  <2> SUFFICES ASSUME ChainInv, InOrder, NEW r \in RunId, ZeroIsBare(rows[r]), Ok(r)
               PROVE  \E k \in 0..Len(rows[r]) :
                        /\ \A i \in DOMAIN rows[r] : Unchained(rows[r][i]) <=> i <= k
                        /\ k < Len(rows[r]) => \E t \in tips[r] : t = Built(r, rows[r], k, Len(rows[r]) - k)
    BY DEF VerifiedIsWritten, Built
  <2> DEFINE s == rows[r]
  <2>1. s \in Seq(Row) /\ \A i \in DOMAIN s : s[i].hash \in tips[r] \cup {None}
    BY DEF ChainInv, Typed, Stored
  <2>2. Sound(r, s)
    BY <2>1, OkIsSound DEF Ok, InOrder
  <2> HIDE DEF s
  <2>3. PICK k \in 0..Len(s) :
          /\ \A i \in DOMAIN s : Unchained(s[i]) <=> i <= k
          /\ k < Len(s) => /\ s[Len(s)].hash # None
                           /\ s[Len(s)].hash = Built(r, s, k, Len(s) - k)
    BY <2>1, <2>2, SoundIsChain
  <2>4. k < Len(s) => \E t \in tips[r] : t = Built(r, s, k, Len(s) - k)
    <3> HAVE k < Len(s)
    <3>1. Len(s) \in DOMAIN s
      BY <2>1
    <3> QED
      BY <2>1, <2>3, <3>1
  <2> QED
    BY <2>3, <2>4 DEF s
<1> QED
  BY <1>1, ChainInvariance, OrderInvariance, PTL
=============================================================================
