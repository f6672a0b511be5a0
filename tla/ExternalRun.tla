------------------------------ MODULE ExternalRun ------------------------------
(***************************************************************************)
(* A workflow whose one agent is an external CLI (runtime/agentcli with the *)
(* claudecode and gemini drivers).  The run opens a loopback MCP server     *)
(* that serves the agent's grants (runtime/mcpserver), starts the agent,    *)
(* lets it post calls while it lives, and settles the session: turns traced,*)
(* cost folded in and checked, the server shut down, the run row finished.  *)
(*                                                                          *)
(* The agent is external: it posts any call at any time, several at once,   *)
(* and it ends whenever it likes, or the deadline of the run kills it.      *)
(***************************************************************************)
EXTENDS ToolClient

CONSTANTS Cost, Budget   \* what a session may cost; execution.maxTotalCostUsd

ASSUME BudgetAssumption == Cost \subseteq Nat /\ 0 \in Cost /\ Budget \in Nat

VARIABLES
  driver,    \* "claude" or "gemini": the runtime the run selects
  row,       \* the run's row: "none", "running", "succeeded" or "failed"
  phase,     \* where Invoke is
  agent,     \* the CLI's process: "none", "live" or "gone"
  door,      \* the MCP server's listener is open
  session,   \* what the driver parsed
  runErr,    \* RunExternalAgent's error is not nil
  charged,   \* RunContext.AccumulatedCostUSD
  graceOver, \* the two seconds of the shutdown have passed
  stage,     \* stage[c]: the handler of call c
  ask,       \* ask[c]: the call and its arguments, as the limit left them
  events,    \* events[c]: the call's events in the run's trace
  lost       \* lost[c]: an append failed, which the dispatcher ignores

run == <<driver, row, phase, agent, door, session, runErr, charged, graceOver>>
handlers == <<stage, ask, events, lost>>
vars == <<run, handlers, client>>

\* A tools/call: whether its name is granted, whether the arguments it came with
\* are over maxToolInputBytes, whether they have been cut down to it, and what
\* schema and policy find in them as they are.  "denied" has passed the schema.
Finding == {"fine", "invalid", "denied"}
Ask == [granted : BOOLEAN, over : BOOLEAN, cut : BOOLEAN, finding : Finding]
NoAsk == [granted |-> FALSE, over |-> FALSE, cut |-> FALSE, finding |-> "fine"]

EventKind == {"limit_hit", "selection", "execution", "system_error"}
Stage == {"none", "posted", "limited", "valid", "selected", "calling", "executed", "replied"}

\* What the driver made of a session.  "none": nothing it could parse.  exit: the
\* process ended well, where that matters.
Session == [result : {"success", "maxturns", "error", "none"}, exit : BOOLEAN, cost : Cost]
NoSession == [result |-> "none", exit |-> FALSE, cost |-> 0]

InFlight == {c \in Call : stage[c] \notin {"none", "replied"}}

TypeOK ==
  /\ ClientType
  /\ driver \in {"claude", "gemini"}
  /\ row \in {"none", "running", "succeeded", "failed"}
  /\ phase \in {"new", "begun", "session", "settle", "stop", "drain", "finish", "returned"}
  /\ agent \in {"none", "live", "gone"}
  /\ door \in BOOLEAN /\ runErr \in BOOLEAN /\ graceOver \in BOOLEAN
  /\ session \in Session
  /\ charged \in Cost
  /\ stage \in [Call -> Stage]
  /\ ask \in [Call -> Ask]
  /\ events \in [Call -> SUBSET EventKind]
  /\ lost \in [Call -> BOOLEAN]

Init ==
  /\ ClientInit
  /\ driver \in {"claude", "gemini"}
  /\ row = "none" /\ phase = "new" /\ agent = "none"
  /\ door = FALSE /\ runErr = FALSE /\ graceOver = FALSE
  /\ session = NoSession /\ charged = 0
  /\ stage = [c \in Call |-> "none"]
  /\ ask = [c \in Call |-> NoAsk]
  /\ events = [c \in Call |-> {}]
  /\ lost = [c \in Call |-> FALSE]

-----------------------------------------------------------------------------
(* Invoke, up to the session. *)

\* The top-level nodes a workflow's program may have.
Program == SeqOf({"agent", "let", "return", "other"}, 3)

\* resolveDrivenAgent: one unconditional agent invocation and nothing to
\* orchestrate around it.
Driven(program) ==
  /\ Range(program) \subseteq {"agent", "let", "return"}
  /\ Cardinality({i \in DOMAIN program : program[i] = "agent"}) = 1

\* Invoke up to the row: the input, the agent and the policy resolve, or not.
StartRun ==
  /\ phase = "new"
  /\ \/ phase' = "returned" /\ UNCHANGED row
     \/ /\ \E program \in Program : Driven(program)
        /\ phase' = "begun" /\ row' = "running"
  /\ UNCHANGED <<driver, agent, door, session, runErr, charged, graceOver, handlers, client>>

\* The run_started event or the temporary directory fails: Invoke returns and
\* the row stays as it is.
Abandon ==
  /\ phase = "begun"
  /\ phase' = "returned"
  /\ UNCHANGED <<driver, row, agent, door, session, runErr, charged, graceOver, handlers, client>>

\* A grant by its tool, its operation and whether a closed manifest of the tool
\* has the operation (an open one allows any).  AgentToolName maps the dot of
\* tool.operation, and all that is no letter, digit, "_" or "-", to "_".
Grant == [tool : {"a", "a_b"}, op : {"c", "b_c"}, allowed : BOOLEAN]
MCPName(g) ==
  CASE g.tool = "a" /\ g.op = "c" -> "a_c"
    [] g.tool = "a_b" /\ g.op = "b_c" -> "a_b_b_c"
    [] OTHER -> "a_b_c"

\* mcpserver.Compile: every grant is in its manifest and no two share a name.
Compiles(grants) ==
  /\ \A g \in grants : g.allowed
  /\ \A g, h \in grants : MCPName(g) = MCPName(h) => g = h

\* What caller-supplied arguments may carry besides harmless flags.
ExtraArg == {"builtin", "bypass", "server", "scope"}

\* checkNoBuiltinToolExposure and checkExtraArgsNoAuthoritySurface; gemini's
\* built-in tools and servers are settled by the settings file of its workspace.
FencedClaude(args) == args \cap ExtraArg = {}
FencedGemini(args) == args \cap ExtraArg = {}
Fenced(args) == IF driver = "claude" THEN FencedClaude(args) ELSE FencedGemini(args)

\* RunExternalAgent: grants compiled to a closed set, listener bound, MCP config
\* written, agent spawned.  Every error is the run's; an error of the driver's
\* own checks leaves an empty session to settle.
OpenSession ==
  /\ phase = "begun"
  /\ \E grants \in SUBSET Grant, args \in SUBSET ExtraArg :
       \/ phase' = "finish" /\ runErr' = TRUE /\ UNCHANGED <<agent, door>>
       \/ /\ Compiles(grants)
          /\ phase' = "stop" /\ runErr' = TRUE /\ door' = TRUE /\ UNCHANGED agent
       \/ /\ Compiles(grants)
          /\ phase' = "settle" /\ door' = TRUE /\ UNCHANGED <<runErr, agent>>
       \/ /\ Compiles(grants) /\ Fenced(args)
          /\ phase' = "session" /\ agent' = "live" /\ door' = TRUE /\ UNCHANGED runErr
  /\ UNCHANGED <<driver, row, session, charged, graceOver, handlers, client>>

-----------------------------------------------------------------------------
(* The per-run MCP server: one handler per tools/call. *)

\* The agent posts, with the run's bearer token.
Post(c) ==
  /\ agent = "live" /\ door
  /\ stage[c] = "none"
  /\ \E k \in Ask : ~k.cut /\ ask' = [ask EXCEPT ![c] = k]
  /\ stage' = [stage EXCEPT ![c] = "posted"]
  /\ UNCHANGED <<run, events, lost, client>>

\* rec.Append, whose error is dropped; under a context that is done it fails.
Trace(c, e) ==
  \/ ~expired[c] /\ events' = [events EXCEPT ![c] = @ \cup {e}] /\ UNCHANGED lost
  \/ lost' = [lost EXCEPT ![c] = TRUE] /\ UNCHANGED events

Untraced == UNCHANGED <<events, lost>>

Goto(c, s) == stage' = [stage EXCEPT ![c] = s]

\* callTool's closed set, then enforceBytes on the input: a name that is not
\* granted is refused; arguments over the limit are an event and are refused or
\* truncated, as the tool's exceed policy says.
LimitInput(c) ==
  /\ stage[c] = "posted"
  /\ \/ ~ask[c].granted /\ Goto(c, "replied") /\ Untraced /\ UNCHANGED ask
     \/ ask[c].granted /\ ~ask[c].over /\ Goto(c, "limited") /\ Untraced /\ UNCHANGED ask
     \/ /\ ask[c].granted /\ ask[c].over
        /\ Trace(c, "limit_hit")
        /\ \/ Goto(c, "replied") /\ UNCHANGED ask
           \/ /\ Goto(c, "limited")
              /\ \E f \in Finding : ask' = [ask EXCEPT ![c].cut = TRUE, ![c].finding = f]
  /\ UNCHANGED <<run, client>>

\* Mutant: the schema was checked before the arguments were cut.
EarlyValid(c) == ask[c].cut \/ ask[c].finding # "invalid"

\* ValidateInputSchema on the arguments that will be dispatched.
Valid(c) == ask[c].finding # "invalid"

\* An error of the schema is no denial: traceDenied drops it.
CheckSchema(c) ==
  /\ stage[c] = "limited"
  /\ Goto(c, IF Valid(c) THEN "valid" ELSE "replied")
  /\ Untraced
  /\ UNCHANGED <<run, ask, client>>

\* CheckToolCall on args (With), then the event.
CheckPolicy(c) ==
  /\ stage[c] = "valid"
  /\ \/ ask[c].finding # "denied" /\ Goto(c, "selected") /\ Trace(c, "selection")
     \/ ask[c].finding = "denied" /\ Goto(c, "replied") /\ Trace(c, "system_error")
  /\ UNCHANGED <<run, ask, client>>

\* d.exec.Call.
CallExec(c) ==
  /\ stage[c] = "selected"
  /\ Dispatch(c)
  /\ Goto(c, "calling")
  /\ UNCHANGED <<run, ask, events, lost>>

\* It returned.
Executed(c) ==
  /\ stage[c] = "calling" /\ at[c] \in Over
  /\ Goto(c, "executed")
  /\ Trace(c, "execution")
  /\ UNCHANGED <<run, ask, client>>

\* enforceBytes on an output, and the reply, to an agent that may no longer be
\* there.
LimitOutput(c) ==
  /\ stage[c] = "executed"
  /\ Goto(c, "replied")
  /\ Untraced \/ (at[c] = "ok" /\ Trace(c, "limit_hit"))
  /\ UNCHANGED <<run, ask, client>>

\* A step of the registry's clients below a handler.
Below(c) ==
  /\ stage[c] = "calling"
  /\ ClientStep(c) \/ ServerStep(c)
  /\ UNCHANGED <<run, handlers>>

\* The request's context: a live agent may hang up; net/http cancels it once the
\* agent's connection is gone.
Disconnect(c) ==
  /\ stage[c] = "calling"
  /\ Expire(c)
  /\ UNCHANGED <<run, handlers>>

-----------------------------------------------------------------------------
(* The end of the session. *)

\* A line of claude's stream: a turn or stray output, or a result event.
Event == {[type |-> "other", subtype |-> "none", isError |-> FALSE, cost |-> 0]}
           \cup [type : {"result"}, subtype : {"success", "error_max_turns", "odd"},
                 isError : BOOLEAN, cost : Cost]

NormalizeStop(e) ==
  IF e.subtype = "success" THEN (IF e.isError THEN "error" ELSE "success")
  ELSE IF e.subtype = "error_max_turns" THEN "maxturns"
  ELSE "error"

\* parseStreamJSON: the last result event is the session; without one there is
\* none, whatever was spent.  The exit status is kept beside it and decides nothing.
ParseStream(out) ==
  LET results == {i \in DOMAIN out : out[i].type = "result"}
      final == out[Max(results)] IN
  IF results = {} THEN NoSession
  ELSE [result |-> NormalizeStop(final), exit |-> TRUE, cost |-> final.cost]

\* parseGeminiJSON: empty output is no session, text and an object without an
\* error are a success.  It knows no cost.
ParseGemini(out, exit) ==
  IF out = "empty" THEN NoSession
  ELSE [result |-> IF out = "error" THEN "error" ELSE "success", exit |-> exit, cost |-> 0]

\* The process ends, by itself or killed at the deadline, having written some
\* output.
AgentEnds ==
  /\ phase = "session"
  /\ agent' = "gone"
  /\ phase' = "settle"
  /\ \/ driver = "claude" /\ session' \in {ParseStream(out) : out \in SeqOf(Event, 2)}
     \/ driver = "gemini" /\ session' \in {ParseGemini(out, exit) :
                                out \in {"empty", "text", "object", "error"}, exit \in BOOLEAN}
  /\ UNCHANGED <<driver, row, door, runErr, charged, graceOver, handlers, client>>

\* Mutant: max-turns is no error, and a missing result neither.
ClaudeLenient(s) == s.result = "error"

\* RunSession's outcome.  Claude's result event is authoritative, whatever the
\* exit status; for Gemini it is the exit status, whatever the output says.
ClaudeErr(s) == s.result # "success"
GeminiErr(s) == s.result = "none" \/ ~s.exit
RunSessionErr(s) == IF driver = "claude" THEN ClaudeErr(s) ELSE GeminiErr(s)

\* EnforceBudget's first half.
Charge(s) == charged + s.cost

\* EmitSessionTurns, EnforceBudget and, on a breach, EmitLimitHit.  CheckRun's
\* wall-clock limit cannot fire: nothing sets RunContext.Elapsed here.
Settle ==
  /\ phase = "settle"
  /\ charged' = Charge(session)
  /\ runErr' = (RunSessionErr(session) \/ (Budget > 0 /\ Charge(session) > Budget))
  /\ phase' = "stop"
  /\ UNCHANGED <<driver, row, agent, door, session, graceOver, handlers, client>>

\* The deferred stop: http.Server.Shutdown closes the listener.
Shutdown ==
  /\ phase = "stop"
  /\ door' = FALSE
  /\ phase' = "drain"
  /\ UNCHANGED <<driver, row, agent, session, runErr, charged, graceOver, handlers, client>>

\* context.WithTimeout: at any moment, however far the handlers are.
GraceEnds ==
  /\ phase = "drain" /\ ~graceOver
  /\ graceOver' = TRUE
  /\ UNCHANGED <<driver, row, phase, agent, door, session, runErr, charged, handlers, client>>

\* Mutant: http.Server.Close, which waits for nobody.
CloseNow == TRUE

\* Shutdown returns when no connection is active, or with its context.
Drained == InFlight = {} \/ graceOver

Drain ==
  /\ phase = "drain" /\ Drained
  /\ phase' = "finish"
  /\ UNCHANGED <<driver, row, agent, door, session, runErr, charged, graceOver, handlers, client>>

\* Invoke's end.  The failure path ignores its errors; the success path returns
\* on them.  Either way the row is then left running.
Finish ==
  /\ phase = "finish"
  /\ phase' = "returned"
  /\ \/ row' = IF runErr THEN "failed" ELSE "succeeded"
     \/ UNCHANGED row
  /\ UNCHANGED <<driver, agent, door, session, runErr, charged, graceOver, handlers, client>>

Returned == phase = "returned" /\ InFlight = {} /\ UNCHANGED vars

\* Steps of Invoke, of a handler by itself, and all of a handler.
Ending == Settle \/ Shutdown \/ GraceEnds \/ Drain \/ Finish
InvokeStep == StartRun \/ Abandon \/ OpenSession \/ AgentEnds \/ Ending
HandlerStep(c) ==
  \/ LimitInput(c) \/ CheckSchema(c) \/ CheckPolicy(c) \/ CallExec(c) \/ Executed(c) \/ LimitOutput(c)
Handler(c) == Post(c) \/ HandlerStep(c) \/ Below(c) \/ Disconnect(c)

Next == InvokeStep \/ (\E c \in Call : Handler(c)) \/ Returned

\* The process keeps running Invoke and the handlers.  Nothing is assumed of the
\* servers or of how long the agent lives; a handler's context is cancelled once
\* the agent that posted the call is gone.
Fairness ==
  /\ WF_vars(StartRun \/ Abandon \/ OpenSession \/ Ending)
  /\ \A c \in Call :
       /\ WF_vars(HandlerStep(c))
       /\ WF_vars(stage[c] = "calling" /\ ClientStep(c) /\ UNCHANGED <<run, handlers>>)
       /\ WF_vars(agent = "gone" /\ Disconnect(c))

Spec == Init /\ [][Next]_vars /\ Fairness

-----------------------------------------------------------------------------
(* Properties *)

\* What a tool receives is what was checked: the granted call's arguments as the
\* limit left them, which the schema and the policy accept, never the ones they
\* replace (#390).  Unless an append failed, the call's selection, its end and an
\* input over the limit are in the trace.  A call the trace reports as denied was
\* denied, and neither ran nor was selected.
Audited ==
  \A c \in Call :
    /\ sent[c] # {} =>
         /\ ask[c].granted /\ ask[c].finding = "fine"
         /\ ask[c].over => ask[c].cut
         /\ lost[c] \/ ("selection" \in events[c] /\ (ask[c].over => "limit_hit" \in events[c]))
         /\ stage[c] = "replied" => lost[c] \/ "execution" \in events[c]
    /\ "execution" \in events[c] => at[c] \in Over
    /\ "system_error" \in events[c] =>
         sent[c] = {} /\ ask[c].finding = "denied" /\ events[c] \subseteq {"limit_hit", "system_error"}

\* Once the row says the run is over the agent is gone and the listener closed,
\* and unless the shutdown's two seconds passed nothing that an agent asked for
\* is under way: no handler, no server of a tool.
FinishedQuiet ==
  row \in {"succeeded", "failed"} =>
    /\ ~door /\ agent # "live"
    /\ graceOver \/ (InFlight = {} /\ \A c \in Call : server[c] # "up")

\* A finished row carries what its session cost, failed sessions included
\* (#400); and no run succeeds that went past its budget, that had no output or,
\* with claude, whose session did not end in success.
OutcomeHonest ==
  /\ row \in {"succeeded", "failed"} => charged = session.cost
  /\ row = "succeeded" =>
       /\ Budget > 0 => session.cost <= Budget
       /\ session.result # "none"
       /\ driver = "claude" => session.result = "success"

\* "an error: a spawn/stream failure, a session that ended in error or
\* max-turns, or a budget breach" (external_run.go), for every driver.
ErrorSessionFails == row = "succeeded" => session.result = "success"

\* When the agent is gone, so are in the end its calls, however silent the
\* servers are.
CallsEnd == agent = "gone" ~> InFlight = {}

=============================================================================
