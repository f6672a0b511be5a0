--------------------------- MODULE MCPolicySnapshot ---------------------------
(* Two configurations: "wide" permits more than "narrow" at the root, and   *)
(* has no policy for the called workflow.                                   *)
EXTENDS PolicySnapshot

MCConfig == {"narrow", "wide"}
MCGrants ==
  [c \in MCConfig |->
     IF c = "narrow" THEN [n \in {"main", "sub"} |-> {"read"}]
                     ELSE [n \in {"main"} |-> {"read", "write"}]]
=============================================================================
