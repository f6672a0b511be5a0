------------------------------ MODULE ToolClient ------------------------------
(***************************************************************************)
(* A tool call on its way out of the process: tools/registry.go dispatches  *)
(* it by the tool's type to a native handler, to an MCP server over stdio   *)
(* or HTTP (tools/mcp) or to an HTTP endpoint (tools/http), each with its   *)
(* retry loop.                                                              *)
(*                                                                          *)
(* Every attempt has a server of its own: a child process for stdio, read   *)
(* line by line, or the exchange of one POST for HTTP, whose response is    *)
(* read whole before anything is made of it.  The server is external.  It   *)
(* writes any lines in any order, among them requests of its own whose ids  *)
(* collide with the client's, answers a POST with any status and body, and  *)
(* may go silent or away at any point.                                      *)
(***************************************************************************)
EXTENDS Naturals, FiniteSets, SequencesExt

CONSTANTS
  Call,         \* concurrent tool calls
  Transport,    \* the kinds of tool the project declares
  MaxAttempts,  \* spec.retry.maxAttempts
  MaxLines,     \* bound: lines one stdio server writes
  MaxUnread,    \* bound: of them, not yet read
  MaxBody       \* bound: messages in the body of an HTTP response

ASSUME ClientAssumption ==
  /\ Transport \subseteq {"native", "stdio", "mcphttp", "http"}
  /\ MaxAttempts \in Nat \ {0} /\ MaxLines \in Nat /\ MaxUnread \in Nat \ {0} /\ MaxBody \in Nat

VARIABLES
  at,        \* at[c]: where the call is
  via,       \* via[c]: the kind of tool it calls, or "none"
  attempt,   \* attempt[c]: the retry loop's attempt, from 1
  server,    \* server[c]: "none", "up" or "gone", of the current attempt
  wire,      \* wire[c]: the lines a child has written and the client has not read
  written,   \* written[c]: how many it has written
  expired,   \* expired[c]: ctx is done
  last,      \* last[c]: the line that ended the attempt's last wait, or Nothing
  sent,      \* ghost: sent[c], the attempts whose request reached the server
  settled    \* ghost: settled[c], the attempts the server answered for good

client == <<at, via, attempt, server, wire, written, expired, last, sent, settled>>

\* JSON-RPC ids of an attempt: nextID starts at 0 and counts up.
InitId == 1
CallId == 2

\* A line by its id and what it carries.  "odd": a result that is no tool-call
\* envelope, which parseCallToolResult cannot decode.  "error": an error, or a
\* result with isError.  "empty": neither result nor error.  "request": a method,
\* whatever else it has.  "junk": no JSON.
Reply == [id : {InitId, CallId}, kind : {"result", "odd", "error", "empty", "request", "junk"}]

\* The messages in the body of a response: the events of a stream, or the one
\* JSON document.  The statuses are one of each class that is told apart.
Body == SeqOf(Reply, MaxBody)
Status == {200, 202, 400, 500}
Nothing == [id |-> 0, kind |-> "nothing"]

Over == {"ok", "failed"}
Awaiting == {"handshake", "reply"}

ClientType ==
  /\ at \in [Call -> {"idle", "attempt", "initialize", "call", "backoff", "native"} \cup Awaiting \cup Over]
  /\ via \in [Call -> Transport \cup {"none"}]
  /\ attempt \in [Call -> 0..MaxAttempts]
  /\ server \in [Call -> {"none", "up", "gone"}]
  /\ wire \in [Call -> Seq(Reply)]
  /\ written \in [Call -> 0..MaxLines]
  /\ expired \in [Call -> BOOLEAN]
  /\ last \in [Call -> Reply \cup {Nothing}]
  /\ sent \in [Call -> SUBSET (1..MaxAttempts)]
  /\ settled \in [Call -> SUBSET (1..MaxAttempts)]

ClientInit ==
  /\ at = [c \in Call |-> "idle"]
  /\ via = [c \in Call |-> "none"]
  /\ attempt = [c \in Call |-> 0]
  /\ server = [c \in Call |-> "none"]
  /\ wire = [c \in Call |-> <<>>]
  /\ written = [c \in Call |-> 0]
  /\ expired = [c \in Call |-> FALSE]
  /\ last = [c \in Call |-> Nothing]
  /\ sent = [c \in Call |-> {}]
  /\ settled = [c \in Call |-> {}]

-----------------------------------------------------------------------------
(* What a line means to the request that waits for it. *)

\* Mutant: a server's request with our id is taken for the answer.
AnyWithId(l, want) == l.kind # "junk" /\ l.id = want

\* jsonRPCResultFromMap: is l a response, and to this request?
Matches(l, want) == l.kind \notin {"request", "junk"} /\ l.id = want

\* What the client makes of a line: skip it, the result, an answer that no retry
\* may follow, or an error that one may.
VerdictMCP(l, want) ==
  IF ~Matches(l, want) THEN "skip"
  ELSE IF l.kind = "result" THEN "ok"
  ELSE IF l.kind = "odd" THEN (IF want = CallId THEN "transport" ELSE "ok")
  ELSE "refused"

\* parseJSONRPCFromSSE: the first message that is a response to this request.
FirstMatch(body, want) ==
  LET I == {i \in DOMAIN body : Matches(body[i], want)}
  IN IF I = {} THEN Nothing ELSE body[CHOOSE i \in I : \A j \in I : i <= j]

\* HTTPTransport.RoundTrip: under a status other than 200 the body is not looked
\* at, and a body without a response to this request is an error; both are
\* errors that may be retried.
VerdictPost(status, l, want) ==
  IF status # 200 \/ l = Nothing THEN "transport" ELSE VerdictMCP(l, want)

\* doRequest: by the status.
VerdictHTTP(status) ==
  IF status >= 500 THEN "transport" ELSE IF status >= 400 THEN "refused" ELSE "ok"

-----------------------------------------------------------------------------
(* The retry loop. *)

\* defer tr.Close(): stdin closed, the child killed and reaped, what it wrote lost.
Close(c) ==
  /\ server' = [server EXCEPT ![c] = IF @ = "up" THEN "gone" ELSE @]
  /\ wire' = [wire EXCEPT ![c] = <<>>]
  /\ written' = [written EXCEPT ![c] = 0]

\* Mutant: an answer with an error is tried again.
RetryAny(err) == err # "ctx"

\* retryableTransportErr, retryableHTTP: neither a dead context nor an answer.
Retryable(err) == err = "transport"

\* The loop goes on.
Retry(c, err) == Retryable(err) /\ attempt[c] < MaxAttempts

\* The attempt returns an error of class err.
AttemptFails(c, err) ==
  /\ Close(c)
  /\ at' = [at EXCEPT ![c] = IF Retry(c, err) THEN "backoff" ELSE "failed"]

\* Registry.Call by type; no configuration, no call.
Dispatch(c) ==
  /\ at[c] = "idle"
  /\ \/ \E t \in Transport :
          /\ via' = [via EXCEPT ![c] = t]
          /\ at' = [at EXCEPT ![c] = IF t = "native" THEN "native" ELSE "attempt"]
          /\ attempt' = [attempt EXCEPT ![c] = 1]
     \/ at' = [at EXCEPT ![c] = "failed"] /\ UNCHANGED <<via, attempt>>
  /\ UNCHANGED <<server, wire, written, expired, last, sent, settled>>

\* A native handler runs in the process and returns; it may ignore ctx.
Native(c) ==
  /\ at[c] = "native"
  /\ sent' = [sent EXCEPT ![c] = @ \cup {1}]
  /\ \E o \in Over : at' = [at EXCEPT ![c] = o]
  /\ UNCHANGED <<via, attempt, server, wire, written, expired, last, settled>>

\* sleepBackoff is over, or cut short by ctx.
Backoff(c) ==
  /\ at[c] = "backoff"
  /\ at' = [at EXCEPT ![c] = "attempt"]
  /\ attempt' = [attempt EXCEPT ![c] = @ + 1]
  /\ server' = [server EXCEPT ![c] = "none"]
  /\ last' = [last EXCEPT ![c] = Nothing]
  /\ UNCHANGED <<via, wire, written, expired, sent, settled>>

\* StdioTransport.Start, or NewHTTPTransport: a command that does not start is
\* retried; a context that is done stops the loop.
StartAttempt(c) ==
  /\ at[c] = "attempt"
  /\ \/ AttemptFails(c, IF expired[c] THEN "ctx" ELSE "transport")
     \/ /\ ~expired[c]
        /\ at' = [at EXCEPT ![c] = IF via[c] = "http" THEN "call" ELSE "initialize"]
        /\ server' = [server EXCEPT ![c] = IF via[c] = "stdio" THEN "up" ELSE @]
        /\ UNCHANGED <<wire, written>>
  /\ UNCHANGED <<via, attempt, expired, last, sent, settled>>

\* A request leaves: a line to a child that is there, or a POST that opens an
\* exchange.  It, or the notification that follows the handshake, may also not
\* get through.
Send(c, from, to) ==
  /\ at[c] = from
  /\ \/ /\ AttemptFails(c, IF expired[c] /\ via[c] # "stdio" THEN "ctx" ELSE "transport")
        /\ UNCHANGED sent
     \/ /\ via[c] = "stdio" => server[c] = "up"
        /\ via[c] # "stdio" => ~expired[c]
        /\ server' = [server EXCEPT ![c] = "up"]
        /\ sent' = IF to = "reply" THEN [sent EXCEPT ![c] = @ \cup {attempt[c]}] ELSE sent
        /\ at' = [at EXCEPT ![c] = to]
        /\ UNCHANGED <<wire, written>>
  /\ UNCHANGED <<via, attempt, expired, last, settled>>

\* Initialize, CallTool and doRequest: the RoundTrip's sending half.
Initialize(c) == Send(c, "initialize", "handshake")
CallTool(c) == Send(c, "call", "reply")

Want(c) == IF at[c] = "reply" THEN CallId ELSE InitId

\* A line that leaves nothing open: the server's result for the call, its error,
\* or an answer that carries neither.
Answers(l) == l.id = CallId /\ l.kind \in {"result", "error", "empty"}

Settled(c, answered) ==
  settled' = IF at[c] = "reply" /\ answered THEN [settled EXCEPT ![c] = @ \cup {attempt[c]}] ELSE settled

\* The wait ends with verdict v on line l.  After the handshake a child stays; a
\* POST is over.
Conclude(c, v, l) ==
  /\ last' = [last EXCEPT ![c] = l]
  /\ \/ /\ v = "ok"
        /\ at' = [at EXCEPT ![c] = IF @ = "reply" THEN "ok" ELSE "call"]
        /\ IF at[c] = "reply" \/ via[c] # "stdio" THEN Close(c)
           ELSE wire' = [wire EXCEPT ![c] = Tail(@)] /\ UNCHANGED <<server, written>>
     \/ /\ v \in {"refused", "transport"}
        /\ AttemptFails(c, v)

\* The exchange or the child ended before the answer.
Exhausted(c) == wire[c] = <<>> /\ server[c] = "gone"

\* StdioTransport.RoundTrip reads a line, or its end, a transport error; so does
\* a POST whose connection is lost before the response is whole.
ReadLine(c) ==
  LET l == Head(wire[c])
      v == VerdictMCP(l, Want(c)) IN
  /\ at[c] \in Awaiting
  /\ \/ /\ wire[c] # <<>>
        /\ \/ /\ v = "skip"
              /\ wire' = [wire EXCEPT ![c] = Tail(@)]
              /\ UNCHANGED <<at, server, written, last>>
           \/ Conclude(c, v, l)
        /\ Settled(c, Answers(l))
     \/ /\ Exhausted(c)
        /\ AttemptFails(c, "transport")
        /\ UNCHANGED <<last, settled>>
  /\ UNCHANGED <<via, attempt, expired, sent>>

\* The response to a POST is there, status and body (io.ReadAll), and the client
\* makes of it what it makes of it.
Response(c) ==
  /\ at[c] \in Awaiting /\ via[c] \in {"mcphttp", "http"} /\ server[c] = "up"
  /\ \E status \in Status :
       \/ /\ via[c] = "http"
          /\ Conclude(c, VerdictHTTP(status), Nothing)
          /\ Settled(c, status < 500)
       \/ /\ via[c] = "mcphttp"
          /\ \E l \in {IF status = 200 THEN FirstMatch(body, Want(c)) ELSE Nothing : body \in Body} :
               /\ Conclude(c, VerdictPost(status, l, Want(c)), l)
               /\ Settled(c, Answers(l))
  /\ UNCHANGED <<via, attempt, expired, sent>>

\* Mutant: the read is not interrupted.
DeafRead(c) == FALSE /\ UNCHANGED client

\* readLineCtx, or the HTTP client: ctx is done while the call waits.
GiveUp(c) ==
  /\ at[c] \in Awaiting
  /\ expired[c]
  /\ AttemptFails(c, "ctx")
  /\ UNCHANGED <<via, attempt, expired, last, sent, settled>>

\* A deadline or a cancel of ctx; exec.CommandContext then kills the child.
Expire(c) ==
  /\ at[c] \notin Over \cup {"idle"}
  /\ ~expired[c]
  /\ expired' = [expired EXCEPT ![c] = TRUE]
  /\ UNCHANGED <<via, at, attempt, server, wire, written, last, sent, settled>>

\* A child writes; a child or a connection goes away.
ServerWrites(c) ==
  /\ server[c] = "up" /\ via[c] = "stdio"
  /\ at[c] \in Awaiting
  /\ written[c] < MaxLines /\ Len(wire[c]) < MaxUnread
  /\ \E l \in Reply : wire' = [wire EXCEPT ![c] = Append(@, l)]
  /\ written' = [written EXCEPT ![c] = @ + 1]
  /\ UNCHANGED <<via, at, attempt, server, expired, last, sent, settled>>

ServerExits(c) ==
  /\ server[c] = "up"
  /\ server' = [server EXCEPT ![c] = "gone"]
  /\ UNCHANGED <<via, at, attempt, wire, written, expired, last, sent, settled>>

\* The client's own steps, those that take a server, and all of a call under way.
ClientStep(c) ==
  \/ Native(c) \/ Backoff(c) \/ StartAttempt(c) \/ Initialize(c) \/ CallTool(c)
  \/ ReadLine(c) \/ GiveUp(c)

ServerStep(c) == Response(c) \/ ServerWrites(c) \/ ServerExits(c)

CallStep(c) == ClientStep(c) \/ Expire(c) \/ ServerStep(c)

-----------------------------------------------------------------------------
(* Properties *)

\* A call ends by an answer of its own: success by the result of its request in
\* its last attempt, never by a line meant for another request or a request of
\* the server's (#397), and a line that ended it was an answer to the request
\* then outstanding.
OwnAnswer ==
  \A c \in Call : via[c] \in {"stdio", "mcphttp"} =>
    /\ at[c] = "ok" => last[c].kind = "result" /\ last[c].id = CallId
    /\ last[c] # Nothing => last[c].kind \in {"result", "odd", "error", "empty"}

\* A request the server answered, be it with an error, is not made again by the
\* retry loop.  An answer is a response line of a child, or in the body of a 200;
\* for an HTTP tool, any status below 500.  (Delivered again are the calls whose
\* result cannot be decoded, whose connection is lost or whose status is 500 or
\* more, and those of MCP over HTTP whose status is not 200, even when the body
\* is the server's JSON-RPC error: transport_http.go:173.)
AnsweredNotRepeated ==
  \A c \in Call : \A a \in settled[c] : \A b \in sent[c] : b <= a

=============================================================================
