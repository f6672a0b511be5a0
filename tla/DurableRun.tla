------------------------------ MODULE DurableRun ------------------------------
(***************************************************************************)
(* What a durable run promises, with no interpreter, memo, goroutine,       *)
(* checkpoint format or process in it: a run makes each of its calls at     *)
(* most once and in order, a gated call only under a decision on the gate   *)
(* that was asked about, and it may pause at a gate and go on any number of *)
(* times.  ExecGraph and ExecFork implement it.  This is the reading of S7  *)
(* of docs/SOUNDNESS.md as a state machine, stated for the calls of         *)
(* internal/execir.Invoker, the interface the interpreter drives.           *)
(***************************************************************************)
EXTENDS Naturals

CONSTANTS
  Calls,      \* the calls of the program
  Gate,       \* those that need a decision
  Before      \* Before[c]: the calls that must have been made before c

VARIABLES
  state,      \* "running", "interrupted", "succeeded", "failed"
  made,       \* made[c]: how often c was made
  asked,      \* the gate the latest pause asked about
  auto        \* whether this attempt admits every gate

vars == <<state, made, asked, auto>>

Init ==
  /\ state = "running"
  /\ made = [c \in Calls |-> 0]
  /\ asked \notin Gate
  /\ auto \in BOOLEAN

Make(c) ==
  /\ state = "running"
  /\ made[c] = 0
  /\ \A d \in Before[c] : made[d] = 1
  /\ c \in Gate => auto \/ asked = c
  /\ made' = [made EXCEPT ![c] = 1]
  /\ UNCHANGED <<state, asked, auto>>

Pause ==
  /\ state = "running"
  /\ state' = "interrupted"
  /\ asked' \in {c \in Gate : made[c] = 0}
  /\ UNCHANGED <<made, auto>>

Continue ==
  /\ state = "interrupted"
  /\ state' = "running"
  /\ auto' \in BOOLEAN
  /\ UNCHANGED <<made, asked>>

Succeed ==
  /\ state = "running"
  /\ \A c \in Calls : made[c] = 1
  /\ state' = "succeeded"
  /\ UNCHANGED <<made, asked, auto>>

Abort ==
  /\ state = "running"
  /\ state' = "failed"
  /\ UNCHANGED <<made, asked, auto>>

Next == (\E c \in Calls : Make(c)) \/ Pause \/ Continue \/ Succeed \/ Abort

Spec == Init /\ [][Next]_vars
=============================================================================
