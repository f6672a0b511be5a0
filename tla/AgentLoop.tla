------------------------------ MODULE AgentLoop ------------------------------
(***************************************************************************)
(* The leaves of a run: tool steps, single-completion agents and agents     *)
(* with a tool loop, admitted and committed by engineInvoker.run against    *)
(* one shared cost (liveCost) and one wall clock (internal/engine:          *)
(* execir_invoker.go, steps.go, cost.go, retries.go, timeout.go,            *)
(* agent_tools.go; internal/policy: budget.go).                             *)
(*                                                                          *)
(* The steps run concurrently.  A step captures the run's cost when it is   *)
(* admitted, adds its own turns and calls to that, and commits what it      *)
(* spent when it returns.  The model and the tools are external: they       *)
(* answer with anything, fail, or never answer.                             *)
(***************************************************************************)
EXTENDS Naturals, Sequences, FiniteSets, FiniteSetsExt

CONSTANTS
  Steps,       \* the concurrent leaf steps
  Kind,        \* Kind[s]: "loop" (agent with tools), "plain" (agent) or "tool"
  MaxIter,     \* agentMaxIterations
  Budget,      \* execution.maxTotalCostUsd; 0: none
  Deadline,    \* execution.maxWallClockSeconds; 0: none
  Prices,      \* what one model turn or one tool call may cost
  MaxCalls     \* bound: tool calls in one completion

ASSUME LoopAssumption ==
  /\ Kind \in [Steps -> {"loop", "plain", "tool"}]
  /\ MaxIter \in Nat \ {0} /\ Budget \in Nat /\ Deadline \in Nat
  /\ Prices \subseteq Nat /\ \E dearest \in Prices : \A p \in Prices : dearest >= p
  /\ MaxCalls \in Nat \ {0}

VARIABLES
  pc,      \* pc[s]: where step s is
  turn,    \* turn[s]: the loop's turn i
  base,    \* base[s]: AccumulatedCostUSD when s was admitted
  acc,     \* acc[s]: what s has spent (acc.CostUSD, stepCost)
  calls,   \* calls[s]: the calls of the last completion not yet made
  retried, \* retried[s]: the turn's one retry is used
  total,   \* liveCost.total
  clock,   \* elapsed since StartedAt
  log,     \* ghost: log[s], the tool calls dispatched: [turn, call, outcome]
  asked    \* ghost: asked[s], the completions requested, retries aside

vars == <<pc, turn, base, acc, calls, retried, total, clock, log, asked>>

\* A call a model asks for, by how it fares before it is dispatched: barred when
\* its name is not advertised, its arguments are no object or the policy denies
\* it.
Call == {"barred", "allowed"}

\* What a dispatched tool call comes to: an output, an error its adapter
\* marked recoverable, or any other error.
Outcome == {"output", "miss", "error"}

InFlight == {"model", "final", "tool"}
Ended == {"succeeded", "failed"}

-----------------------------------------------------------------------------
(* Budgets. *)

\* CheckRun passes: checkExecutionBudgets on a cost and the elapsed time.
CheckRun(cost) ==
  /\ Deadline > 0 => clock <= Deadline
  /\ Budget > 0 => cost <= Budget

\* checkAgentLoopRun passes with spent on top of the admitted cost.
CheckAgentLoopRun(s, spent) == CheckRun(base[s] + spent)

-----------------------------------------------------------------------------
(* Helpers. *)

\* The step returns an error: failStepRow; what it spent is not committed.
Fail(s) ==
  /\ pc' = [pc EXCEPT ![s] = "failed"]
  /\ UNCHANGED <<turn, base, calls, retried, total, clock, asked>>

Goto(s, where) == pc' = [pc EXCEPT ![s] = where]

\* A completion is requested (generateAgentTurn).
Ask(s) ==
  /\ retried' = [retried EXCEPT ![s] = FALSE]
  /\ asked' = [asked EXCEPT ![s] = @ + 1]

\* The last log entry of s gets its outcome.
Record(s, outcome) == log' = [log EXCEPT ![s][Len(log[s])].outcome = outcome]

-----------------------------------------------------------------------------

Init ==
  /\ pc = [s \in Steps |-> "idle"]
  /\ turn = [s \in Steps |-> 0]
  /\ base = [s \in Steps |-> 0]
  /\ acc = [s \in Steps |-> 0]
  /\ calls = [s \in Steps |-> <<>>]
  /\ retried = [s \in Steps |-> FALSE]
  /\ total = 0
  /\ clock = 0
  /\ log = [s \in Steps |-> <<>>]
  /\ asked = [s \in Steps |-> 0]

\* run: the step is admitted against the cost committed so far, and its row
\* is written as running, or cannot be.  The call of a tool step is the author's:
\* it has a name and arguments, and the policy may deny it.
Admit(s) ==
  /\ pc[s] = "idle"
  /\ \/ /\ CheckRun(total)
        /\ base' = [base EXCEPT ![s] = total]
        /\ turn' = [turn EXCEPT ![s] = 1]
        /\ IF Kind[s] = "tool"
             THEN /\ \E c \in Call : calls' = [calls EXCEPT ![s] = <<c>>]
                  /\ Goto(s, "call")
             ELSE UNCHANGED calls /\ Goto(s, "turn")
        /\ UNCHANGED <<acc, retried, total, clock, log, asked>>
     \/ Fail(s) /\ UNCHANGED <<acc, log>>

\* The head of the loop: the budget is checked before the next completion.
\* An agent without tools makes its one completion unchecked (finishAgentTurn).
StartTurn(s) ==
  /\ pc[s] = "turn"
  /\ IF Kind[s] = "plain" \/ CheckAgentLoopRun(s, acc[s])
       THEN /\ Goto(s, "model")
            /\ Ask(s)
            /\ UNCHANGED <<turn, base, acc, calls, total, clock, log>>
       ELSE Fail(s) /\ UNCHANGED <<acc, log>>

\* The iteration budget is spent: the calls asked for are not made.
AtCap(s) == turn[s] = MaxIter

\* The budget re-check on what a turn or a call has just cost.
Affordable(s, spent) == CheckAgentLoopRun(s, spent)

\* completeAgentOutput: the content holds one object of the output schema, or not.
Complete(s, good) == Goto(s, IF good THEN "commit" ELSE "failed")

\* A completion arrives: its cost is added and re-checked, then its stop
\* reason decides.  end_turn completes the step, tool_use goes on to the calls,
\* at the cap to one last completion without tools; max_tokens, an unknown
\* reason and tool_use without calls fail.
Answer(s, price) ==
  /\ pc[s] = "model"
  /\ acc' = [acc EXCEPT ![s] = @ + price]
  /\ UNCHANGED <<turn, base, total, clock, log>>
  /\ \/ /\ Affordable(s, acc[s] + price)
        /\ \E good \in BOOLEAN : Complete(s, good)
        /\ UNCHANGED <<calls, retried, asked>>
     \/ /\ Affordable(s, acc[s] + price)
        /\ Kind[s] = "loop"
        /\ \E n \in 1..MaxCalls : \E cs \in [1..n -> Call] :
             IF AtCap(s)
               THEN /\ Goto(s, "final") /\ Ask(s)
                    /\ UNCHANGED calls
               ELSE /\ Goto(s, "call")
                    /\ calls' = [calls EXCEPT ![s] = cs]
                    /\ UNCHANGED <<retried, asked>>
     \/ /\ Goto(s, "failed")
        /\ UNCHANGED <<calls, retried, asked>>

\* finalizeAgentAtCap: the last completion is all that can complete the step.
AnswerFinal(s, price) ==
  /\ pc[s] = "final"
  /\ acc' = [acc EXCEPT ![s] = @ + price]
  /\ UNCHANGED <<turn, base, calls, retried, total, clock, log, asked>>
  /\ \/ /\ Affordable(s, acc[s] + price)
        /\ \E good \in BOOLEAN : Complete(s, good)
     \/ Goto(s, "failed")

\* withAgentRetry: a transient failure is retried once, any other is final.
ModelFails(s) ==
  /\ pc[s] \in {"model", "final"}
  /\ UNCHANGED <<acc, log>>
  /\ \/ /\ ~retried[s]
        /\ retried' = [retried EXCEPT ![s] = TRUE]
        /\ UNCHANGED <<pc, turn, base, calls, total, clock, asked>>
     \/ Fail(s)

\* What stands before a dispatch: resolveAgentToolCall, parseToolCallArgs and
\* the budget for a loop's call, enforceToolInput and CheckToolCall for any.
MayCall(s, c) ==
  /\ c = "allowed"
  /\ Kind[s] = "loop" => CheckAgentLoopRun(s, acc[s])

\* runAgentToolCall, runToolStep up to the dispatch.
CallTool(s) ==
  /\ pc[s] = "call"
  /\ LET c == Head(calls[s]) IN
       IF MayCall(s, c)
         THEN /\ Goto(s, "tool")
              /\ log' = [log EXCEPT ![s] = Append(@, [turn |-> turn[s], call |-> c, outcome |-> "none"])]
              /\ UNCHANGED <<turn, base, acc, calls, retried, total, clock, asked>>
         ELSE Fail(s) /\ UNCHANGED <<acc, log>>

\* Mutant: every error becomes an observation.
LenientRecoverable(outcome) == outcome # "output"

\* toolErrorIsRecoverable: only an error its adapter marked.
Recoverable(outcome) == outcome = "miss"

\* The rest of runToolStep and of runAgentToolCall, and the loop after it: a
\* recoverable error is an observation for the model, any other ends the step;
\* the cost is added and re-checked, and after the last call the next turn
\* begins.  A tool step returns what its one call came to.
ToolReturns(s, price, outcome) ==
  /\ pc[s] = "tool"
  /\ Record(s, outcome)
  /\ IF Kind[s] = "loop"
       THEN IF outcome = "output" \/ Recoverable(outcome)
              THEN /\ acc' = [acc EXCEPT ![s] = @ + price]
                   /\ UNCHANGED <<base, retried, total, clock, asked>>
                   /\ IF ~Affordable(s, acc[s] + price)
                        THEN Goto(s, "failed") /\ UNCHANGED <<turn, calls>>
                        ELSE /\ calls' = [calls EXCEPT ![s] = Tail(@)]
                             /\ IF Len(calls[s]) = 1
                                  THEN Goto(s, "turn") /\ turn' = [turn EXCEPT ![s] = @ + 1]
                                  ELSE Goto(s, "call") /\ UNCHANGED turn
              ELSE Fail(s) /\ UNCHANGED acc
       ELSE IF outcome = "output"
              THEN /\ Goto(s, "commit")
                   /\ acc' = [acc EXCEPT ![s] = @ + price]
                   /\ UNCHANGED <<turn, base, calls, retried, total, clock, asked>>
              ELSE Fail(s) /\ UNCHANGED acc

\* run: an output with no canonical JSON form fails the step, uncommitted.
Unencodable(s) ==
  /\ pc[s] = "commit"
  /\ Fail(s) /\ UNCHANGED <<acc, log>>

\* Mutant: the step is charged, and not checked again.
UncheckedCommit(cost) == TRUE

\* The check after the step's cost is in the shared total.
CommitAllowed(cost) == CheckRun(cost)

\* run after the dispatch: the cost is added to the shared total in one step,
\* which the budget must still allow, and the row is written as succeeded, or
\* cannot be.
Commit(s) ==
  /\ pc[s] = "commit"
  /\ total' = total + acc[s]
  /\ UNCHANGED <<turn, base, acc, calls, retried, clock, log, asked>>
  /\ \/ CommitAllowed(total') /\ Goto(s, "succeeded")
     \/ Goto(s, "failed")

\* Mutant: only a model call is bounded.
ModelOnlyExpire(s) ==
  /\ pc[s] \in {"model", "final"}
  /\ Deadline > 0 /\ clock >= Deadline
  /\ Fail(s) /\ UNCHANGED <<acc, log>>

\* wallClockDeadline: the remaining budget bounds a call in flight, which then
\* returns DeadlineExceeded.
Expire(s) ==
  /\ pc[s] \in InFlight
  /\ Deadline > 0 /\ clock >= Deadline
  /\ Fail(s) /\ UNCHANGED <<acc, log>>

\* A sibling failed: the graph cancels the context of the calls in flight.
Cancel(s) ==
  /\ pc[s] \in InFlight
  /\ \E u \in Steps : pc[u] = "failed"
  /\ Fail(s) /\ UNCHANGED <<acc, log>>

\* Time passes, up to one unit past the limit.
Tick ==
  /\ clock <= Deadline
  /\ clock' = clock + 1
  /\ UNCHANGED <<pc, turn, base, acc, calls, retried, total, log, asked>>

\* What a step does by itself, and what the outside world answers.
Moves(s) == Admit(s) \/ StartTurn(s) \/ CallTool(s) \/ Commit(s) \/ Unencodable(s)
Answers(s) ==
  \/ \E p \in Prices : Answer(s, p) \/ AnswerFinal(s, p)
  \/ \E p \in Prices, o \in Outcome : ToolReturns(s, p, o)
  \/ ModelFails(s)

\* Every step has ended.
Done == (\A s \in Steps : pc[s] \in Ended) /\ UNCHANGED vars

Next ==
  \/ \E s \in Steps : Moves(s) \/ Answers(s) \/ Expire(s) \/ Cancel(s)
  \/ Tick
  \/ Done

Spec == Init /\ [][Next]_vars

\* The steps run, time passes and the deadlines fire; nothing makes a model or
\* a tool answer.
FairSpec ==
  /\ Spec
  /\ WF_vars(Tick)
  /\ \A s \in Steps : WF_vars(Moves(s)) /\ WF_vars(Expire(s))

-----------------------------------------------------------------------------
(* Properties. *)

\* Every variable has its type.
TypeOK ==
  /\ pc \in [Steps -> {"idle", "turn", "call", "commit"} \cup InFlight \cup Ended]
  /\ turn \in [Steps -> 0..MaxIter]
  /\ \A s \in Steps : base[s] \in Nat /\ acc[s] \in Nat /\ calls[s] \in Seq(Call)
  /\ retried \in [Steps -> BOOLEAN]
  /\ total \in Nat /\ clock \in 0..(Deadline + 1)
  /\ \A s \in Steps : \A i \in DOMAIN log[s] :
       log[s][i].turn \in 1..MaxIter /\ log[s][i].outcome \in Outcome \cup {"none"}

\* Steps admitted side by side against the same total cannot together take a
\* run past maxTotalCostUsd and have it succeed: once the committed cost is over
\* the budget, some step has failed (run's re-check after cost.add).  And a step
\* goes over the budget it sees by one completion or call at most: whatever it
\* spent before that was within the budget (checkAgentLoopRun).
BudgetHolds ==
  Budget > 0 =>
    /\ total > Budget => \E s \in Steps : pc[s] = "failed"
    /\ \A s \in Steps :
         /\ base[s] + acc[s] <= Budget + Max(Prices)
         /\ pc[s] \in InFlight \ {"final"} /\ Kind[s] = "loop" => base[s] + acc[s] <= Budget

\* A tool runs only when it was advertised, well formed and allowed, never in an
\* agent's last turn, and after an error that no adapter marked as recoverable
\* the step makes no further call and does not succeed.
FailsClosed ==
  \A s \in Steps : \A i \in DOMAIN log[s] :
    /\ log[s][i].call = "allowed"
    /\ Kind[s] = "loop" => log[s][i].turn < MaxIter
    /\ log[s][i].outcome = "error" => i = Len(log[s]) /\ pc[s] = "failed"

\* With a wall-clock budget every step ends, though models and tools may never
\* answer (wallClockDeadline reaches the call in flight).
StepsEnd == \A s \in Steps : <>(pc[s] \in Ended)

=============================================================================
