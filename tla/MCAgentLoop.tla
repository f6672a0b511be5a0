----------------------------- MODULE MCAgentLoop -----------------------------
EXTENDS AgentLoop

\* An agent with tools beside one without and a tool step.
ThreeSteps == [s \in {"a", "p", "t"} |->
                 CASE s = "a" -> "loop" [] s = "p" -> "plain" [] s = "t" -> "tool"]
=============================================================================
