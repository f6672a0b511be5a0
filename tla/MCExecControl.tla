---------------------------- MODULE MCExecControl ----------------------------
(* All nine nestings of the three loop kinds.                               *)
EXTENDS ExecControl
AllKinds == {"loop", "while", "retry"} \X {"loop", "while", "retry"}
Limits == <<2, 3>>
=============================================================================
