--------------------------- MODULE ExternalRunProofs ---------------------------
(***************************************************************************)
(* For any number of concurrent calls, transports, attempts, lines and      *)
(* costs: a call ends by its own answer and is not repeated once answered,  *)
(* every tool that ran got the arguments that were checked, and a finished  *)
(* row is honest about the session and its shutdown.                        *)
(***************************************************************************)
EXTENDS ExternalRun, TLAPS, WellFoundedInduction

Where == {"idle", "attempt", "initialize", "call", "backoff", "native"} \cup Awaiting \cup Over

\* The attempts of a call: requests left in attempts up to the present one only,
\* and an answer that settles the call ends it.
Attempts(c) ==
  /\ sent[c] \subseteq 1..attempt[c]
  /\ settled[c] \subseteq {attempt[c]}
  /\ settled[c] # {} => at[c] \in Over
  /\ at[c] \notin {"idle"} \cup Over => attempt[c] >= 1
  /\ at[c] = "native" => attempt[c] = 1
  /\ at[c] = "backoff" => attempt[c] < MaxAttempts

\* Before a call is dispatched nothing has happened; a native call has no wire;
\* between attempts and after the call no server of it runs.
Resting(c) ==
  /\ at[c] = "idle" => via[c] = "none" /\ sent[c] = {} /\ last[c] = Nothing
  /\ at[c] = "native" => via[c] = "native"
  /\ at[c] \in {"idle", "native", "attempt", "backoff"} \cup Over => server[c] # "up"

\* OwnAnswer of one call.
Own(c) ==
  via[c] \in {"stdio", "mcphttp"} =>
    /\ at[c] = "ok" => last[c].kind = "result" /\ last[c].id = CallId
    /\ last[c] # Nothing => last[c].kind \in {"result", "odd", "error", "empty"}

CallInv(c) == Attempts(c) /\ Resting(c) /\ Own(c)

ClientInv == ClientType /\ \A c \in Call : CallInv(c)

\* The client's constants.
LEMMA AttemptsNat ==
  MaxAttempts \in Nat /\ MaxAttempts >= 1 /\ 1 \in 1..MaxAttempts /\ MaxLines \in Nat
BY ClientAssumption

\* A line that ends a wait was an answer to the request that waited, and only a
\* result ends the call well.
LEMMA VerdictOwn ==
  ASSUME NEW l \in Reply, NEW want \in {InitId, CallId}
  PROVE  LET v == VerdictMCP(l, want) IN
         /\ v \in {"skip", "ok", "refused", "transport"}
         /\ v # "skip" => l.kind \in {"result", "odd", "error", "empty"} /\ l.id = want
         /\ v = "ok" /\ want = CallId => l.kind = "result"
BY DEF VerdictMCP, Matches, Reply, InitId, CallId

\* A nonempty set of naturals has a least element.
LEMMA Least ==
  ASSUME NEW T, T \subseteq Nat, T # {}
  PROVE  \E x \in T : \A y \in T : x <= y
<1>1. \E x \in T : \A y \in T : ~(<<y, x>> \in OpToRel(<, Nat))
  BY WFMin, NatLessThanWellFounded
<1>2. PICK x \in T : \A y \in T : ~(<<y, x>> \in OpToRel(<, Nat))
  BY <1>1
<1>3. ASSUME NEW y \in T PROVE x <= y
  <2>1. x \in Nat /\ y \in Nat
    OBVIOUS
  <2>2. ~(y < x)
    BY <1>2, <2>1 DEF OpToRel
  <2> QED
    BY <2>1, <2>2
<1> QED
  BY <1>3

\* The first response in a body is one, or there is none.
LEMMA FirstIsMatch ==
  ASSUME NEW body \in Body, NEW want
  PROVE  LET l == FirstMatch(body, want) IN l = Nothing \/ (l \in Reply /\ Matches(l, want))
<1> DEFINE I == {i \in DOMAIN body : Matches(body[i], want)}
<1>1. PICK m \in 0..MaxBody : body \in [1..m -> Reply]
  BY DEF Body, SeqOf
<1>2. CASE I = {}
  BY <1>2 DEF FirstMatch
<1>3. CASE I # {}
  <2>1. \E i \in I : \A j \in I : i <= j
    <3>1. I \subseteq Nat
      BY <1>1
    <3> QED
      BY <1>3, <3>1, Least
  <2>2. PICK i \in I : i = (CHOOSE k \in I : \A j \in I : k <= j)
    BY <2>1
  <2>3. FirstMatch(body, want) = body[i]
    BY <1>3, <2>2 DEF FirstMatch
  <2>4. body[i] \in Reply /\ Matches(body[i], want)
    BY <1>1, <2>2
  <2> QED
    BY <2>3, <2>4
<1> QED
  BY <1>2, <1>3

\* A closed connection is typed.
LEMMA CloseTyped ==
  ASSUME ClientType, NEW c \in Call, Close(c)
  PROVE  /\ wire' \in [Call -> Seq(Reply)] /\ written' \in [Call -> 0..MaxLines]
         /\ server' \in [Call -> {"none", "up", "gone"}] /\ server'[c] # "up"
BY AttemptsNat DEF Close, ClientType

\* An attempt that fails goes to the backoff, below the limit and only after a
\* transport error, or ends the call; its server is gone.
LEMMA FailsCases ==
  ASSUME ClientType, NEW c \in Call, NEW err, AttemptFails(c, err)
  PROVE  /\ at' \in [Call -> Where] /\ server' \in [Call -> {"none", "up", "gone"}]
         /\ wire' \in [Call -> Seq(Reply)] /\ written' \in [Call -> 0..MaxLines]
         /\ server'[c] # "up"
         /\ \/ at'[c] = "failed"
            \/ at'[c] = "backoff" /\ err = "transport" /\ attempt[c] < MaxAttempts
<1>1. wire' \in [Call -> Seq(Reply)] /\ written' \in [Call -> 0..MaxLines]
  BY CloseTyped DEF AttemptFails
<1>2. /\ at' \in [Call -> Where] /\ server' \in [Call -> {"none", "up", "gone"}]
      /\ server'[c] # "up"
      /\ \/ at'[c] = "failed"
         \/ at'[c] = "backoff" /\ err = "transport" /\ attempt[c] < MaxAttempts
  BY DEF AttemptFails, Close, Retry, Retryable, ClientType, Where, Over, Awaiting
<1> QED
  BY <1>1, <1>2

\* The initial states of the client.
LEMMA ClientInitInv == ClientInit => ClientInv
<1> SUFFICES ASSUME ClientInit PROVE ClientInv
  OBVIOUS
<1>1. ClientType
  BY AttemptsNat DEF ClientInit, ClientType, Over, Awaiting
<1>2. ASSUME NEW c \in Call PROVE CallInv(c)
  BY <1>2, AttemptsNat DEF ClientInit, CallInv, Attempts, Resting, Own, Over, Nothing
<1> QED
  BY <1>1, <1>2 DEF ClientInv

\* A call under way is in an attempt and not settled.
LEMMA Trying ==
  ASSUME ClientInv, NEW c \in Call, at[c] \notin {"idle"} \cup Over
  PROVE  attempt[c] \in 1..MaxAttempts /\ attempt[c] \in Nat /\ settled[c] = {}
<1>1. attempt[c] \in 0..MaxAttempts /\ attempt[c] >= 1
  BY DEF ClientInv, ClientType, CallInv, Attempts
<1>2. settled[c] = {}
  BY DEF ClientInv, CallInv, Attempts
<1> QED
  BY <1>1, <1>2, AttemptsNat

\* A step of one call leaves the others alone.
LEMMA OtherCalls ==
  ASSUME ClientInv, NEW c \in Call, NEW d \in Call, d # c, CallStep(c) \/ Dispatch(c)
  PROVE  CallInv(d)'
<1> DEFINE Same == /\ at'[d] = at[d] /\ via'[d] = via[d] /\ attempt'[d] = attempt[d]
                   /\ server'[d] = server[d] /\ last'[d] = last[d]
                   /\ sent'[d] = sent[d] /\ settled'[d] = settled[d]
<1> USE DEF ClientInv, ClientType, AttemptFails, Close
<1>1. CASE Dispatch(c)
  <2>1. Same
    BY <1>1 DEF Dispatch
  <2> QED
    BY <2>1 DEF CallInv, Attempts, Resting, Own
<1>2. CASE Native(c) \/ Backoff(c) \/ StartAttempt(c) \/ GiveUp(c)
  <2>1. Same
    BY <1>2 DEF Native, Backoff, StartAttempt, GiveUp
  <2> QED
    BY <2>1 DEF CallInv, Attempts, Resting, Own
<1>3. CASE Initialize(c) \/ CallTool(c)
  <2>1. Same
    BY <1>3 DEF Initialize, CallTool, Send
  <2> QED
    BY <2>1 DEF CallInv, Attempts, Resting, Own
<1>4. CASE ReadLine(c)
  <2>1. Same
    BY <1>4 DEF ReadLine, Conclude, Settled
  <2> QED
    BY <2>1 DEF CallInv, Attempts, Resting, Own
<1>6. CASE Response(c)
  <2>1. PICK v, l, answered :
          Conclude(c, v, l) /\ Settled(c, answered) /\ UNCHANGED <<via, attempt, sent>>
    BY <1>6 DEF Response
  <2>2. Same
    BY <2>1 DEF Conclude, Settled
  <2> QED
    BY <2>2 DEF CallInv, Attempts, Resting, Own
<1>5. CASE Expire(c) \/ ServerWrites(c) \/ ServerExits(c)
  <2>1. Same
    BY <1>5 DEF Expire, ServerWrites, ServerExits
  <2> QED
    BY <2>1 DEF CallInv, Attempts, Resting, Own
<1> QED
  BY <1>1, <1>2, <1>3, <1>4, <1>5, <1>6 DEF CallStep, ClientStep, ServerStep

\* Registry.Call: the first attempt, or none.
LEMMA DispatchStep ==
  ASSUME ClientInv, NEW c \in Call, Dispatch(c) PROVE ClientType' /\ CallInv(c)'
<1> USE AttemptsNat
<1>1. ClientType'
  <2>1. /\ at' \in [Call -> Where] /\ via' \in [Call -> Transport \cup {"none"}]
        /\ attempt' \in [Call -> 0..MaxAttempts]
    <3>1. CASE at' = [at EXCEPT ![c] = "failed"] /\ UNCHANGED <<via, attempt>>
      BY <3>1 DEF ClientInv, ClientType, Where, Over
    <3>2. ASSUME NEW t \in Transport,
                 via' = [via EXCEPT ![c] = t],
                 at' = [at EXCEPT ![c] = IF t = "native" THEN "native" ELSE "attempt"],
                 attempt' = [attempt EXCEPT ![c] = 1]
          PROVE  <2>1
      BY <3>2 DEF ClientInv, ClientType, Where
    <3> QED
      BY <3>1, <3>2 DEF Dispatch
  <2> QED
    BY <2>1 DEF Dispatch, ClientInv, ClientType, Where
<1>2. CallInv(c)'
  BY ClientAssumption
  DEF Dispatch, ClientInv, ClientType, CallInv, Attempts, Resting, Own, Over, Awaiting, Nothing
<1> QED
  BY <1>1, <1>2

\* A native handler, a backoff, the start of an attempt and a dead context.
LEMMA SimpleStep ==
  ASSUME ClientInv, NEW c \in Call, Native(c) \/ Backoff(c) \/ StartAttempt(c) \/ GiveUp(c)
  PROVE  ClientType' /\ CallInv(c)'
<1> USE AttemptsNat DEF ClientInv
<1>1. CASE Native(c)
  <2>1. ClientType'
    BY <1>1 DEF Native, ClientType, Over, Awaiting
  <2>2. CallInv(c)'
    BY <1>1 DEF Native, ClientType, CallInv, Attempts, Resting, Own, Over
  <2> QED
    BY <2>1, <2>2
<1>2. CASE Backoff(c)
  <2>1. ClientType'
    BY <1>2 DEF Backoff, ClientType, CallInv, Attempts, Over, Awaiting
  <2>2. CallInv(c)'
    <3>1. /\ at'[c] = "attempt" /\ attempt'[c] = attempt[c] + 1 /\ server'[c] = "none"
          /\ last'[c] = Nothing /\ UNCHANGED <<via, sent, settled>>
      BY <1>2 DEF Backoff, ClientType
    <3>2. settled[c] = {}
      BY <1>2 DEF Backoff, CallInv, Attempts, Over
    <3>3. attempt[c] \in Nat
      BY DEF ClientType
    <3>4. Attempts(c)'
      BY <3>1, <3>2, <3>3 DEF CallInv, Attempts, Over
    <3> QED
      BY <3>1, <3>4 DEF CallInv, Resting, Own, Over
  <2> QED
    BY <2>1, <2>2
<1>3. CASE StartAttempt(c)
  <2>1. /\ UNCHANGED <<via, attempt, expired, last, sent, settled>>
        /\ at[c] = "attempt"
        /\ wire' \in [Call -> Seq(Reply)] /\ written' \in [Call -> 0..MaxLines]
        /\ at' \in [Call -> Where] /\ server' \in [Call -> {"none", "up", "gone"}]
        /\ \/ at'[c] = "failed" /\ server'[c] # "up"
           \/ at'[c] = "backoff" /\ server'[c] # "up" /\ attempt[c] < MaxAttempts
           \/ at'[c] \in {"call", "initialize"}
    <3>1. CASE \E err : AttemptFails(c, err)
      BY <1>3, <3>1, FailsCases DEF StartAttempt
    <3>2. CASE /\ at' = [at EXCEPT ![c] = IF via[c] = "http" THEN "call" ELSE "initialize"]
               /\ server' = [server EXCEPT ![c] = IF via[c] = "stdio" THEN "up" ELSE @]
               /\ UNCHANGED <<wire, written>>
      BY <1>3, <3>2 DEF StartAttempt, ClientType, Where
    <3> QED
      BY <1>3, <3>1, <3>2 DEF StartAttempt
  <2>2. ClientType'
    BY <2>1 DEF ClientType, Where
  <2>3. CallInv(c)'
    BY <2>1 DEF ClientType, CallInv, Attempts, Resting, Own, Over
  <2> QED
    BY <2>2, <2>3
<1>4. CASE GiveUp(c)
  <2>1. /\ UNCHANGED <<via, attempt, expired, last, sent, settled>>
        /\ at[c] \in Awaiting
        /\ wire' \in [Call -> Seq(Reply)] /\ written' \in [Call -> 0..MaxLines]
        /\ at' \in [Call -> Where] /\ server' \in [Call -> {"none", "up", "gone"}]
        /\ at'[c] = "failed" /\ server'[c] # "up"
    BY <1>4, FailsCases DEF GiveUp
  <2>2. ClientType'
    BY <2>1 DEF ClientType, Where
  <2>3. CallInv(c)'
    BY <2>1 DEF ClientType, CallInv, Attempts, Resting, Own, Over, Awaiting
  <2> QED
    BY <2>2, <2>3
<1> QED
  BY <1>1, <1>2, <1>3, <1>4

\* A request is sent, in the present attempt, or the attempt fails.
LEMMA SendStep ==
  ASSUME ClientInv, NEW c \in Call, Initialize(c) \/ CallTool(c)
  PROVE  ClientType' /\ CallInv(c)'
<1> USE AttemptsNat DEF ClientInv
<1>1. PICK from \in {"initialize", "call"}, to \in Awaiting : Send(c, from, to)
  BY DEF Initialize, CallTool, Awaiting
<1>2. attempt[c] \in 1..MaxAttempts /\ attempt[c] \in Nat
  <2>1. at[c] \notin {"idle"} \cup Over
    BY <1>1 DEF Send, Over
  <2> QED
    BY <2>1, Trying
<1>3. /\ UNCHANGED <<via, attempt, expired, last, settled>>
      /\ at[c] \in {"initialize", "call"}
      /\ at' \in [Call -> Where] /\ server' \in [Call -> {"none", "up", "gone"}]
      /\ sent' = sent \/ sent' = [sent EXCEPT ![c] = @ \cup {attempt[c]}]
      /\ \/ at'[c] = "failed" /\ server'[c] # "up"
         \/ at'[c] = "backoff" /\ server'[c] # "up" /\ attempt[c] < MaxAttempts
         \/ at'[c] \in Awaiting
      /\ wire' \in [Call -> Seq(Reply)] /\ written' \in [Call -> 0..MaxLines]
  <2>1. CASE (\E err : AttemptFails(c, err)) /\ UNCHANGED sent
    BY <1>1, <2>1, FailsCases DEF Send
  <2>2. CASE /\ server' = [server EXCEPT ![c] = "up"]
             /\ at' = [at EXCEPT ![c] = to]
             /\ UNCHANGED <<wire, written>>
             /\ sent' = IF to = "reply" THEN [sent EXCEPT ![c] = @ \cup {attempt[c]}] ELSE sent
    BY <1>1, <2>2 DEF Send, ClientType, Where
  <2> QED
    BY <1>1, <2>1, <2>2 DEF Send
<1>4. ClientType'
  <2>1. sent' \in [Call -> SUBSET (1..MaxAttempts)]
    <3>1. CASE sent' = sent
      BY <3>1 DEF ClientType
    <3>2. CASE sent' = [sent EXCEPT ![c] = @ \cup {attempt[c]}]
      BY <1>2, <3>2 DEF ClientType
    <3> QED
      BY <1>3, <3>1, <3>2
  <2> QED
    BY <1>3, <2>1 DEF ClientType, Where
<1>5. Attempts(c)'
  <2>1. sent'[c] \subseteq 1..attempt[c]
    BY <1>2, <1>3 DEF ClientType, CallInv, Attempts
  <2>2. settled[c] = {}
    BY <1>3 DEF CallInv, Attempts, Over
  <2> QED
    BY <1>2, <1>3, <2>1, <2>2 DEF CallInv, Attempts, Over, Awaiting
<1>6. Resting(c)' /\ Own(c)'
  BY <1>3 DEF CallInv, Resting, Own, Over, Awaiting
<1> QED
  BY <1>4, <1>5, <1>6 DEF CallInv

\* A wait ends, by an answer or by what the client cannot use.
LEMMA ConcludeStep ==
  ASSUME ClientInv, NEW c \in Call, at[c] \in Awaiting,
         NEW v \in {"ok", "refused", "transport"}, NEW l \in Reply \cup {Nothing},
         NEW answered \in BOOLEAN,
         Conclude(c, v, l), Settled(c, answered), UNCHANGED <<via, attempt, expired, sent>>,
         answered /\ at[c] = "reply" => v \in {"ok", "refused"},
         via[c] \in {"stdio", "mcphttp"} =>
           /\ l # Nothing => l.kind \in {"result", "odd", "error", "empty"}
           /\ v = "ok" /\ at[c] = "reply" => l.kind = "result" /\ l.id = CallId,
         at[c] # "reply" /\ via[c] = "stdio" /\ v = "ok" => wire[c] # <<>>
  PROVE  ClientType' /\ CallInv(c)'
<1> USE AttemptsNat DEF ClientInv
<1>1. attempt[c] \in 1..MaxAttempts /\ attempt[c] \in Nat /\ settled[c] = {}
  <2>1. at[c] \notin {"idle"} \cup Over
    BY DEF Awaiting, Over
  <2> QED
    BY <2>1, Trying
<1>2. last' = [last EXCEPT ![c] = l] /\ last' \in [Call -> Reply \cup {Nothing}] /\ last'[c] = l
  BY DEF Conclude, ClientType
<1>3. /\ settled' \in [Call -> SUBSET (1..MaxAttempts)]
      /\ settled'[c] \subseteq {attempt[c]}
      /\ settled'[c] # {} => answered /\ at[c] = "reply"
  BY <1>1 DEF Settled, ClientType
<1>4. CASE v = "ok"
  <2>1. /\ at' = [at EXCEPT ![c] = IF @ = "reply" THEN "ok" ELSE "call"]
        /\ IF at[c] = "reply" \/ via[c] # "stdio" THEN Close(c)
           ELSE wire' = [wire EXCEPT ![c] = Tail(@)] /\ UNCHANGED <<server, written>>
    BY <1>4 DEF Conclude
  <2>2. at' \in [Call -> Where] /\ at'[c] = IF at[c] = "reply" THEN "ok" ELSE "call"
    BY <2>1 DEF ClientType, Where, Over
  <2>3. /\ wire' \in [Call -> Seq(Reply)] /\ written' \in [Call -> 0..MaxLines]
        /\ server' \in [Call -> {"none", "up", "gone"}]
        /\ at[c] = "reply" => server'[c] # "up"
    <3>1. CASE at[c] = "reply" \/ via[c] # "stdio"
      BY <2>1, <3>1, CloseTyped
    <3>2. CASE ~(at[c] = "reply" \/ via[c] # "stdio")
      <4>1. wire[c] \in Seq(Reply) /\ wire[c] # <<>>
        BY <1>4, <3>2 DEF ClientType
      <4>2. Tail(wire[c]) \in Seq(Reply)
        BY <4>1
      <4> QED
        BY <2>1, <3>2, <4>2 DEF ClientType
    <3> QED
      BY <3>1, <3>2
  <2>4. ClientType'
    BY <1>2, <1>3, <2>2, <2>3 DEF ClientType, Where
  <2>5. Attempts(c)'
    BY <1>1, <1>3, <2>2 DEF CallInv, Attempts, Over, Awaiting
  <2>6. Resting(c)' /\ Own(c)'
    BY <1>2, <1>4, <2>2, <2>3 DEF CallInv, Resting, Own, Over, Awaiting
  <2> QED
    BY <2>4, <2>5, <2>6 DEF CallInv
<1>5. CASE v \in {"refused", "transport"}
  <2>1. AttemptFails(c, v)
    BY <1>5 DEF Conclude
  <2>2. /\ at' \in [Call -> Where] /\ server' \in [Call -> {"none", "up", "gone"}]
        /\ wire' \in [Call -> Seq(Reply)] /\ written' \in [Call -> 0..MaxLines]
        /\ server'[c] # "up"
        /\ \/ at'[c] = "failed"
           \/ at'[c] = "backoff" /\ v = "transport" /\ attempt[c] < MaxAttempts
    BY <2>1, FailsCases
  <2>3. ClientType'
    BY <1>2, <1>3, <2>2 DEF ClientType, Where
  <2>4. Attempts(c)'
    BY <1>1, <1>3, <2>2 DEF CallInv, Attempts, Over, Awaiting
  <2>5. Resting(c)' /\ Own(c)'
    BY <1>2, <2>2 DEF CallInv, Resting, Own, Over, Awaiting
  <2> QED
    BY <2>3, <2>4, <2>5 DEF CallInv
<1> QED
  BY <1>4, <1>5

\* RoundTrip reads: a line of another request is skipped; the answer ends the
\* call, or what the client cannot use and may retry ends the attempt.
LEMMA ReadStep ==
  ASSUME ClientInv, NEW c \in Call, ReadLine(c)
  PROVE  ClientType' /\ CallInv(c)'
<1> USE AttemptsNat DEF ClientInv
<1>1. /\ UNCHANGED <<via, attempt, expired, sent>> /\ at[c] \in Awaiting
      /\ attempt[c] \in 1..MaxAttempts /\ settled[c] = {}
  <2>1. UNCHANGED <<via, attempt, expired, sent>> /\ at[c] \in Awaiting
    BY DEF ReadLine
  <2>2. at[c] \notin {"idle"} \cup Over
    BY <2>1 DEF Awaiting, Over
  <2> QED
    BY <2>1, <2>2, Trying
<1>2. CASE AttemptFails(c, "transport") /\ UNCHANGED <<last, settled>>
  <2>1. /\ at' \in [Call -> Where] /\ server' \in [Call -> {"none", "up", "gone"}]
        /\ wire' \in [Call -> Seq(Reply)] /\ written' \in [Call -> 0..MaxLines]
        /\ server'[c] # "up"
        /\ at'[c] = "failed" \/ (at'[c] = "backoff" /\ attempt[c] < MaxAttempts)
    BY <1>2, FailsCases
  <2>2. ClientType'
    BY <1>1, <1>2, <2>1 DEF ClientType, Where
  <2>3. CallInv(c)'
    BY <1>1, <1>2, <2>1 DEF ClientType, CallInv, Attempts, Resting, Own, Over, Awaiting
  <2> QED
    BY <2>2, <2>3
<1>3. ASSUME wire[c] # <<>>,
             NEW l, l = Head(wire[c]), NEW v, v = VerdictMCP(l, Want(c)),
             \/ /\ v = "skip"
                /\ wire' = [wire EXCEPT ![c] = Tail(@)]
                /\ UNCHANGED <<at, server, written, last>>
             \/ Conclude(c, v, l),
             Settled(c, Answers(l))
      PROVE  ClientType' /\ CallInv(c)'
  <2>1. l \in Reply /\ Tail(wire[c]) \in Seq(Reply)
    BY <1>3 DEF ClientType
  <2>2. PICK want \in {InitId, CallId} : want = Want(c) /\ (at[c] = "reply" => want = CallId)
    BY DEF Want
  <2>3. /\ v \in {"skip", "ok", "refused", "transport"}
        /\ v # "skip" => l.kind \in {"result", "odd", "error", "empty"} /\ l.id = want
        /\ v = "ok" /\ want = CallId => l.kind = "result"
    BY <1>3, <2>1, <2>2, VerdictOwn
  <2>4. Answers(l) \in BOOLEAN /\ (Answers(l) /\ at[c] = "reply" => v \in {"ok", "refused"})
    BY <1>3, <2>2 DEF Answers, VerdictMCP, Matches
  <2>5. CASE v = "skip"
    <3>1. UNCHANGED <<at, server, written, last>> /\ wire' = [wire EXCEPT ![c] = Tail(@)]
      BY <1>3, <2>5 DEF Conclude
    <3>2. settled' = settled
      BY <1>3, <2>4, <2>5 DEF Settled
    <3>3. wire' \in [Call -> Seq(Reply)]
      BY <2>1, <3>1 DEF ClientType
    <3> QED
      BY <1>1, <3>1, <3>2, <3>3 DEF ClientType, CallInv, Attempts, Resting, Own
  <2>6. CASE v # "skip"
    <3>1. Conclude(c, v, l) /\ v \in {"ok", "refused", "transport"}
      BY <1>3, <2>3, <2>6
    <3>2. PICK answered \in BOOLEAN : answered = Answers(l)
      BY <2>4
    <3>3. Settled(c, answered)
      BY <1>3, <3>2
    <3> QED
      BY <1>1, <1>3, <2>1, <2>2, <2>3, <2>4, <2>6, <3>1, <3>2, <3>3, ConcludeStep
  <2> QED
    BY <2>5, <2>6
<1> QED
  BY <1>2, <1>3 DEF ReadLine

\* The response to a POST.
LEMMA ResponseStep ==
  ASSUME ClientInv, NEW c \in Call, Response(c)
  PROVE  ClientType' /\ CallInv(c)'
<1>1. /\ at[c] \in Awaiting /\ via[c] \in {"mcphttp", "http"}
      /\ UNCHANGED <<via, attempt, expired, sent>>
  BY DEF Response
<1>2. PICK status \in Status :
        \/ /\ via[c] = "http"
           /\ Conclude(c, VerdictHTTP(status), Nothing)
           /\ Settled(c, status < 500)
        \/ /\ via[c] = "mcphttp"
           /\ \E l \in {IF status = 200 THEN FirstMatch(body, Want(c)) ELSE Nothing : body \in Body} :
                /\ Conclude(c, VerdictPost(status, l, Want(c)), l)
                /\ Settled(c, Answers(l))
  BY DEF Response
<1>3. CASE via[c] = "http"
  <2>1. PICK v \in {"ok", "refused", "transport"} : v = VerdictHTTP(status)
    BY DEF VerdictHTTP
  <2>0. PICK l \in Reply \cup {Nothing} : l = Nothing
    OBVIOUS
  <2>2. Conclude(c, v, l) /\ Settled(c, status < 500)
    BY <1>2, <1>3, <2>0, <2>1
  <2>3. status \in {200, 202, 400, 500}
    BY <1>2 DEF Status
  <2>4. CASE status < 500
    <3>0. PICK answered \in BOOLEAN : answered
      OBVIOUS
    <3>1. Settled(c, answered)
      BY <2>2, <2>4, <3>0 DEF Settled
    <3>2. v \in {"ok", "refused"}
      <4>1. ~(status >= 500)
        BY <2>3, <2>4
      <4> QED
        BY <2>1, <4>1 DEF VerdictHTTP
    <3> QED
      BY <1>1, <1>3, <2>0, <2>1, <2>2, <3>0, <3>1, <3>2, ConcludeStep
  <2>5. CASE ~(status < 500)
    <3>0. PICK answered \in BOOLEAN : ~answered
      OBVIOUS
    <3>1. Settled(c, answered)
      BY <2>2, <2>5, <3>0 DEF Settled
    <3> QED
      BY <1>1, <1>3, <2>0, <2>1, <2>2, <3>0, <3>1, ConcludeStep
  <2> QED
    BY <2>4, <2>5
<1>4. CASE via[c] = "mcphttp"
  <2>1. PICK body \in Body :
          LET l == IF status = 200 THEN FirstMatch(body, Want(c)) ELSE Nothing IN
          /\ Conclude(c, VerdictPost(status, l, Want(c)), l)
          /\ Settled(c, Answers(l))
    BY <1>2, <1>4
  <2>2. PICK want \in {InitId, CallId} : want = Want(c) /\ (at[c] = "reply" => want = CallId)
    BY DEF Want
  <2>3. PICK l : l = IF status = 200 THEN FirstMatch(body, want) ELSE Nothing
    OBVIOUS
  <2>4. l = Nothing \/ (l \in Reply /\ Matches(l, want) /\ l # Nothing /\ status = 200)
    <3>1. \A k \in Reply : k # Nothing
      BY DEF Reply, Nothing, InitId, CallId
    <3> QED
      BY <2>1, <2>3, <3>1, FirstIsMatch
  <2>5. PICK v : v = VerdictPost(status, l, want)
    OBVIOUS
  <2>6. PICK answered \in BOOLEAN : answered = Answers(l)
    BY DEF Answers
  <2>7. Conclude(c, v, l) /\ Settled(c, answered)
    BY <2>1, <2>2, <2>3, <2>5, <2>6
  <2>8. CASE l = Nothing
    <3>1. v = "transport"
      BY <2>5, <2>8 DEF VerdictPost
    <3>2. ~answered
      BY <2>6, <2>8 DEF Answers, Nothing, CallId
    <3> QED
      BY <1>1, <1>4, <2>6, <2>7, <2>8, <3>1, <3>2, ConcludeStep
  <2>9. CASE l # Nothing
    <3>1. l \in Reply /\ Matches(l, want) /\ v = VerdictMCP(l, want)
      BY <2>4, <2>5, <2>9 DEF VerdictPost
    <3>2. v \in {"ok", "refused", "transport"}
      BY <3>1 DEF VerdictMCP
    <3>3. /\ l.kind \in {"result", "odd", "error", "empty"} /\ l.id = want
          /\ v = "ok" /\ want = CallId => l.kind = "result"
      BY <3>1, <3>2, VerdictOwn
    <3>4. answered /\ at[c] = "reply" => v \in {"ok", "refused"}
      BY <2>2, <2>6, <3>1 DEF Answers, VerdictMCP
    <3> QED
      BY <1>1, <1>4, <2>2, <2>6, <2>7, <3>1, <3>2, <3>3, <3>4, ConcludeStep
  <2> QED
    BY <2>8, <2>9
<1> QED
  BY <1>1, <1>3, <1>4

\* The servers and the deadline.
LEMMA WireStep ==
  ASSUME ClientInv, NEW c \in Call, Expire(c) \/ ServerWrites(c) \/ ServerExits(c)
  PROVE  ClientType' /\ CallInv(c)'
<1> USE AttemptsNat DEF ClientInv
<1>1. CASE Expire(c)
  BY <1>1 DEF Expire, ClientType, CallInv, Attempts, Resting, Own
<1>2. CASE ServerWrites(c)
  <2>1. /\ UNCHANGED <<via, at, attempt, server, expired, last, sent, settled>>
        /\ written' \in [Call -> 0..MaxLines]
    BY <1>2 DEF ServerWrites, ClientType
  <2>2. wire' \in [Call -> Seq(Reply)]
    <3>2. PICK l \in Reply : wire' = [wire EXCEPT ![c] = Append(@, l)]
      BY <1>2 DEF ServerWrites
    <3>3. Append(wire[c], l) \in Seq(Reply)
      BY DEF ClientType
    <3> QED
      BY <3>2, <3>3 DEF ClientType
  <2> QED
    BY <2>1, <2>2 DEF ClientType, CallInv, Attempts, Resting, Own
<1>3. CASE ServerExits(c)
  BY <1>3 DEF ServerExits, ClientType, CallInv, Attempts, Resting, Own
<1> QED
  BY <1>1, <1>2, <1>3

\* Every step of a call keeps the client's invariant.
LEMMA ClientStepInv ==
  ASSUME ClientInv, NEW c \in Call, CallStep(c) \/ Dispatch(c)
  PROVE  ClientInv'
<1>1. ClientType' /\ CallInv(c)'
  BY DispatchStep, SimpleStep, SendStep, ReadStep, ResponseStep, WireStep
  DEF CallStep, ClientStep, ServerStep
<1>2. \A d \in Call : d # c => CallInv(d)'
  BY OtherCalls
<1> QED
  BY <1>1, <1>2 DEF ClientInv

-----------------------------------------------------------------------------
\* The limit was applied to a granted call.
Limited(c) ==
  /\ ask[c].granted
  /\ ask[c].over => ask[c].cut
  /\ ask[c].over => lost[c] \/ "limit_hit" \in events[c]

\* It passed the checks too, and its selection was traced.
Selected(c) ==
  /\ Limited(c)
  /\ ask[c].finding = "fine"
  /\ lost[c] \/ "selection" \in events[c]
  /\ "system_error" \notin events[c]

\* The call was made, and its end traced.
Done(c) == at[c] \in Over /\ Selected(c) /\ (lost[c] \/ "execution" \in events[c])

\* It was refused before it was made.
Refused(c) ==
  /\ at[c] = "idle"
  /\ events[c] \subseteq {"limit_hit", "system_error"}
  /\ "system_error" \in events[c] => ask[c].finding = "denied"

\* A handler's call is limited, checked, selected, made and traced in this
\* order, and a refused one makes no call.
HandlerInv(c) ==
  /\ stage[c] \in {"none", "posted"} => at[c] = "idle" /\ events[c] = {}
  /\ stage[c] \in {"limited", "valid"} =>
       at[c] = "idle" /\ events[c] \subseteq {"limit_hit"} /\ Limited(c)
  /\ stage[c] = "valid" => ask[c].finding # "invalid"
  /\ stage[c] = "selected" => at[c] = "idle"
  /\ stage[c] \in {"selected", "calling"} => Selected(c) /\ "execution" \notin events[c]
  /\ stage[c] = "executed" => Done(c)
  /\ stage[c] = "replied" => Refused(c) \/ Done(c)

\* The agent, the listener and the handlers by the phase of Invoke: none before
\* the session, and after the shutdown only handlers that its grace left behind.
DoorInv ==
  /\ phase \in {"new", "begun"} => ~runErr /\ ~door /\ \A c \in Call : stage[c] = "none"
  /\ phase # "session" => agent # "live"
  /\ phase \in {"drain", "finish", "returned"} => ~door
  /\ phase \in {"finish", "returned"} => graceOver \/ InFlight = {}

\* A session that succeeded within the budget.
Good == ~RunSessionErr(session) /\ (Budget > 0 => session.cost <= Budget)

\* The cost and the outcome by the phase of Invoke.
LedgerInv ==
  /\ phase \in {"new", "begun", "session"} => session = NoSession
  /\ phase \in {"new", "begun", "session", "settle"} => charged = 0
  /\ phase \in {"stop", "drain", "finish", "returned"} => charged = session.cost
  /\ phase \in {"stop", "drain", "finish"} /\ ~runErr => Good
  /\ row \in {"succeeded", "failed"} => phase = "returned"
  /\ row = "succeeded" => Good

\* The inductive invariant.
IndInv == TypeOK /\ ClientInv /\ (\A c \in Call : HandlerInv(c)) /\ DoorInv /\ LedgerInv

\* A session has one of the results and one of the costs, whatever the output.
LEMMA NoSessionTyped == NoSession \in Session /\ NoSession.cost = 0
BY BudgetAssumption DEF NoSession, Session

\* Claude's stream.
LEMMA ClaudeTyped ==
  ASSUME NEW out \in SeqOf(Event, 2) PROVE ParseStream(out) \in Session
<1> DEFINE results == {i \in DOMAIN out : out[i].type = "result"}
<1>1. PICK m \in 0..2 : out \in [1..m -> Event]
  BY DEF SeqOf
<1>2. CASE results = {}
  BY <1>2, NoSessionTyped DEF ParseStream
<1>3. CASE results # {}
  <2>1. results \subseteq 1..2
    BY <1>1
  <2>2. \E x \in results : \A y \in results : x >= y
    <3>1. CASE 2 \in results
      BY <2>1, <3>1
    <3>2. CASE 2 \notin results
      BY <1>3, <2>1, <3>2
    <3> QED
      BY <3>1, <3>2
  <2>3. Max(results) \in results
    BY <2>2 DEF Max
  <2>4. out[Max(results)] \in Event /\ out[Max(results)].type = "result"
    BY <1>1, <2>3
  <2> DEFINE e == out[Max(results)]
  <2>5. e.cost \in Cost
    <3>1. CASE e = [type |-> "other", subtype |-> "none", isError |-> FALSE, cost |-> 0]
      <4>1. e.cost = 0
        BY <3>1
      <4> QED
        BY <4>1, BudgetAssumption
    <3>2. CASE e \in [type : {"result"}, subtype : {"success", "error_max_turns", "odd"},
                      isError : BOOLEAN, cost : Cost]
      BY <3>2
    <3> QED
      BY <2>4, <3>1, <3>2 DEF Event
  <2>6. NormalizeStop(e) \in {"success", "maxturns", "error"}
    BY DEF NormalizeStop
  <2>7. ParseStream(out) = [result |-> NormalizeStop(e), exit |-> TRUE, cost |-> e.cost]
    BY <1>3 DEF ParseStream
  <2> HIDE DEF e
  <2> QED
    BY <2>5, <2>6, <2>7 DEF Session
<1> QED
  BY <1>2, <1>3

\* Gemini's single document.
LEMMA GeminiTyped ==
  ASSUME NEW out, NEW exit \in BOOLEAN PROVE ParseGemini(out, exit) \in Session
BY NoSessionTyped, BudgetAssumption DEF ParseGemini, Session

\* The initial states.
LEMMA InitInv == Init => IndInv
<1> SUFFICES ASSUME Init PROVE IndInv
  OBVIOUS
<1>1. ClientInv
  BY ClientInitInv DEF Init
<1>2. TypeOK
  BY <1>1, NoSessionTyped, BudgetAssumption DEF Init, TypeOK, ClientInv, Stage, Ask, NoAsk, Finding
<1>3. \A c \in Call : HandlerInv(c)
  BY DEF Init, ClientInit, HandlerInv
<1>4. DoorInv
  BY DEF Init, DoorInv
<1>5. LedgerInv
  BY NoSessionTyped DEF Init, LedgerInv
<1> QED
  BY <1>1, <1>2, <1>3, <1>4, <1>5 DEF IndInv

\* The client's and the handlers' state stays while Invoke steps.
LEMMA HandlersKept ==
  ASSUME IndInv, UNCHANGED <<handlers, client>>
  PROVE  ClientInv' /\ \A c \in Call : HandlerInv(c)'
<1>1. ClientInv'
  BY DEF IndInv, client, ClientInv, ClientType, CallInv, Attempts, Resting, Own
<1>2. ASSUME NEW c \in Call PROVE HandlerInv(c)'
  <2>1. HandlerInv(c)
    BY DEF IndInv
  <2> QED
    BY <2>1 DEF handlers, client, HandlerInv, Limited, Selected, Done, Refused
<1> QED
  BY <1>1, <1>2

\* Invoke's own steps.
LEMMA InvokeStepInv == ASSUME IndInv, InvokeStep PROVE IndInv'
<1>0. TypeOK /\ UNCHANGED <<handlers, client>>
  BY DEF IndInv, InvokeStep, StartRun, Abandon, OpenSession, AgentEnds, Ending, Settle, Shutdown,
     GraceEnds, Drain, Finish
<1>00. ClientInv' /\ \A c \in Call : HandlerInv(c)'
  BY <1>0, HandlersKept
<1>000. UNCHANGED InFlight /\ UNCHANGED <<stage, ask, events, lost>>
  BY <1>0 DEF handlers, InFlight
<1> USE <1>0, <1>00, <1>000, NoSessionTyped DEF IndInv
<1>1. CASE StartRun
  <2>1. TypeOK'
    BY <1>1 DEF StartRun, TypeOK, ClientInv
  <2>2. DoorInv' 
    BY <1>1 DEF StartRun, DoorInv, InFlight
  <2>3. LedgerInv'
    BY <1>1 DEF StartRun, LedgerInv, Good, RunSessionErr
  <2> QED
    BY <2>1, <2>2, <2>3
<1>2. CASE Abandon
  <2>1. TypeOK'
    BY <1>2 DEF Abandon, TypeOK, ClientInv
  <2>2. DoorInv'
    BY <1>2 DEF Abandon, DoorInv, InFlight
  <2>3. LedgerInv'
    BY <1>2 DEF Abandon, LedgerInv, Good, RunSessionErr
  <2> QED
    BY <2>1, <2>2, <2>3
<1>3. CASE OpenSession
  <2>1. /\ phase = "begun"
        /\ UNCHANGED <<driver, row, session, charged, graceOver>>
        /\ agent' \in {"live", agent} /\ (phase' # "session" => agent' = agent)
        /\ \/ phase' = "finish" /\ runErr' = TRUE /\ door' = door
           \/ phase' = "stop" /\ runErr' = TRUE /\ door' = TRUE
           \/ phase' \in {"settle", "session"} /\ door' = TRUE /\ runErr' = runErr
    BY <1>3 DEF OpenSession
  <2>2. TypeOK'
    BY <2>1 DEF TypeOK, ClientInv
  <2>3. DoorInv'
    BY <2>1 DEF DoorInv, InFlight
  <2>4. LedgerInv'
    BY <2>1 DEF LedgerInv, Good, RunSessionErr
  <2> QED
    BY <2>2, <2>3, <2>4
<1>4. CASE AgentEnds
  <2>1. /\ phase = "session" /\ phase' = "settle" /\ agent' = "gone"
        /\ UNCHANGED <<driver, row, door, runErr, charged, graceOver>>
        /\ session' \in Session
    BY <1>4, ClaudeTyped, GeminiTyped DEF AgentEnds
  <2>2. TypeOK'
    BY <2>1 DEF TypeOK, ClientInv
  <2>3. DoorInv'
    BY <2>1 DEF DoorInv
  <2>4. LedgerInv'
    BY <2>1 DEF LedgerInv
  <2> QED
    BY <2>2, <2>3, <2>4
<1>5. CASE Settle
  <2>1. session.cost \in Cost /\ session.cost \in Nat
    BY BudgetAssumption DEF TypeOK, Session
  <2>2. Charge(session) = session.cost
    BY <1>5, <2>1 DEF Settle, Charge, LedgerInv
  <2>3. /\ phase = "settle" /\ phase' = "stop" /\ charged' = session.cost
        /\ runErr' = (RunSessionErr(session) \/ (Budget > 0 /\ session.cost > Budget))
        /\ UNCHANGED <<driver, row, agent, door, session, graceOver>>
    BY <1>5, <2>2 DEF Settle
  <2>4. RunSessionErr(session) \in BOOLEAN
    BY DEF RunSessionErr, ClaudeErr, GeminiErr
  <2>5. TypeOK'
    BY <2>1, <2>3 DEF TypeOK, ClientInv
  <2>6. DoorInv'
    BY <2>3 DEF DoorInv
  <2>7. ~runErr' => Good'
    <3>1. RunSessionErr(session)' = RunSessionErr(session)
      BY <2>3 DEF RunSessionErr, ClaudeErr, GeminiErr
    <3>2. ~runErr' => ~RunSessionErr(session) /\ ~(Budget > 0 /\ session.cost > Budget)
      BY <2>3, <2>4
    <3>3. ~(Budget > 0 /\ session.cost > Budget) => (Budget > 0 => session.cost <= Budget)
      BY <2>1, BudgetAssumption
    <3>4. session' = session
      BY <2>3
    <3> QED
      BY <3>1, <3>2, <3>3, <3>4 DEF Good
  <2>8. LedgerInv'
    BY <2>3, <2>7 DEF LedgerInv
  <2> QED
    BY <2>5, <2>6, <2>8
<1>6. CASE Shutdown
  <2>1. /\ phase = "stop" /\ phase' = "drain" /\ door' = FALSE
        /\ UNCHANGED <<driver, row, agent, session, runErr, charged, graceOver>>
    BY <1>6 DEF Shutdown
  <2>2. TypeOK'
    BY <2>1 DEF TypeOK, ClientInv
  <2>3. DoorInv'
    BY <2>1 DEF DoorInv
  <2>4. LedgerInv'
    BY <2>1 DEF LedgerInv, Good, RunSessionErr
  <2> QED
    BY <2>2, <2>3, <2>4
<1>8. CASE GraceEnds
  <2>1. /\ phase = "drain" /\ graceOver' = TRUE
        /\ UNCHANGED <<driver, row, phase, agent, door, session, runErr, charged>>
    BY <1>8 DEF GraceEnds
  <2>2. TypeOK'
    BY <2>1 DEF TypeOK, ClientInv
  <2>3. DoorInv'
    BY <2>1 DEF DoorInv
  <2>4. LedgerInv'
    BY <2>1 DEF LedgerInv, Good, RunSessionErr
  <2> QED
    BY <2>2, <2>3, <2>4
<1>9. CASE Drain
  <2>1. /\ phase = "drain" /\ phase' = "finish" /\ (InFlight = {} \/ graceOver)
        /\ UNCHANGED <<driver, row, agent, door, session, runErr, charged, graceOver>>
    BY <1>9 DEF Drain, Drained
  <2>2. TypeOK'
    BY <2>1 DEF TypeOK, ClientInv
  <2>3. DoorInv'
    BY <2>1 DEF DoorInv
  <2>4. LedgerInv'
    BY <2>1 DEF LedgerInv, Good, RunSessionErr
  <2> QED
    BY <2>2, <2>3, <2>4
<1>7. CASE Finish
  <2>1. /\ phase = "finish" /\ phase' = "returned"
        /\ row' \in {row, IF runErr THEN "failed" ELSE "succeeded"}
        /\ UNCHANGED <<driver, agent, door, session, runErr, charged, graceOver>>
    BY <1>7 DEF Finish
  <2>2. TypeOK'
    BY <2>1 DEF TypeOK, ClientInv
  <2>3. DoorInv'
    BY <2>1 DEF DoorInv
  <2>4. Good' = Good
    BY <2>1 DEF Good, RunSessionErr
  <2>5. LedgerInv'
    BY <2>1, <2>4 DEF LedgerInv
  <2> QED
    BY <2>2, <2>3, <2>5
<1> QED
  BY <1>1, <1>2, <1>3, <1>4, <1>5, <1>6, <1>7, <1>8, <1>9 DEF InvokeStep, Ending

\* The handlers' steps leave Invoke's state alone and end in its invariants when
\* no handler is under way after the shutdown.
LEMMA RunKept ==
  ASSUME IndInv, UNCHANGED run, ClientType',
         stage' \in [Call -> Stage], ask' \in [Call -> Ask],
         events' \in [Call -> SUBSET EventKind], lost' \in [Call -> BOOLEAN],
         phase \in {"new", "begun"} => stage' = stage,
         phase \in {"finish", "returned"} /\ InFlight = {} => stage' = stage
  PROVE  TypeOK' /\ DoorInv' /\ LedgerInv'
<1>0. TypeOK /\ DoorInv /\ LedgerInv
  BY DEF IndInv
<1>1. UNCHANGED <<driver, row, phase, agent, door, session, runErr, charged, graceOver>>
  BY DEF run
<1>2. TypeOK'
  BY <1>0, <1>1 DEF TypeOK
<1>3. DoorInv'
  BY <1>0, <1>1 DEF DoorInv, InFlight
<1>4. LedgerInv'
  BY <1>0, <1>1 DEF LedgerInv, Good, RunSessionErr
<1> QED
  BY <1>2, <1>3, <1>4

\* An event is appended or lost.
LEMMA TraceCases ==
  ASSUME TypeOK, NEW c \in Call, NEW e \in EventKind, Trace(c, e)
  PROVE  /\ events' \in [Call -> SUBSET EventKind] /\ lost' \in [Call -> BOOLEAN]
         /\ \A d \in Call : d # c => events'[d] = events[d] /\ lost'[d] = lost[d]
         /\ events[c] \subseteq events'[c] /\ events'[c] \subseteq events[c] \cup {e}
         /\ lost[c] => lost'[c]
         /\ lost'[c] \/ e \in events'[c]
BY DEF Trace, TypeOK

\* A handler's own step before and after the call: it moves the stage on.
LEMMA StageStep ==
  ASSUME IndInv, NEW c \in Call,
         \/ LimitInput(c) \/ CheckSchema(c) \/ CheckPolicy(c) \/ Executed(c) \/ LimitOutput(c)
  PROVE  /\ UNCHANGED <<run, client>> /\ stage[c] \notin {"none", "replied"}
         /\ stage' \in [Call -> Stage] /\ ask' \in [Call -> Ask]
         /\ events' \in [Call -> SUBSET EventKind] /\ lost' \in [Call -> BOOLEAN]
         /\ \A d \in Call : d # c => /\ stage'[d] = stage[d] /\ ask'[d] = ask[d]
                                     /\ events'[d] = events[d] /\ lost'[d] = lost[d]
         /\ HandlerInv(c)'
<1> DEFINE Others == \A d \in Call : d # c => events'[d] = events[d] /\ lost'[d] = lost[d]
           Typed == events' \in [Call -> SUBSET EventKind] /\ lost' \in [Call -> BOOLEAN]
<1>0. /\ TypeOK /\ HandlerInv(c)
      /\ stage \in [Call -> Stage] /\ ask \in [Call -> Ask]
      /\ events \in [Call -> SUBSET EventKind] /\ lost \in [Call -> BOOLEAN]
  BY DEF IndInv, TypeOK
<1>1. CASE LimitInput(c)
  <2>0. at' = at /\ UNCHANGED <<run, client>> /\ stage[c] = "posted" /\ at[c] = "idle" /\ events[c] = {}
    BY <1>0, <1>1 DEF LimitInput, client, HandlerInv
  <2>1. CASE ~ask[c].granted /\ Goto(c, "replied") /\ Untraced /\ UNCHANGED ask
    BY <1>0, <2>0, <2>1 DEF Goto, Untraced, HandlerInv, Refused, Stage
  <2>2. CASE ask[c].granted /\ ~ask[c].over /\ Goto(c, "limited") /\ Untraced /\ UNCHANGED ask
    BY <1>0, <2>0, <2>2 DEF Goto, Untraced, HandlerInv, Limited, Stage
  <2>3. CASE /\ ask[c].granted /\ ask[c].over /\ Trace(c, "limit_hit")
             /\ Goto(c, "replied") /\ UNCHANGED ask
    <3>1. /\ Typed /\ Others /\ events'[c] \subseteq {"limit_hit"}
      BY <1>0, <2>0, <2>3, TraceCases DEF EventKind
    <3> QED
      BY <1>0, <2>0, <2>3, <3>1 DEF Goto, HandlerInv, Refused, Stage
  <2>4. CASE /\ ask[c].granted /\ ask[c].over /\ Trace(c, "limit_hit")
             /\ Goto(c, "limited")
             /\ \E f \in Finding : ask' = [ask EXCEPT ![c].cut = TRUE, ![c].finding = f]
    <3>1. /\ Typed /\ Others /\ events'[c] \subseteq {"limit_hit"}
          /\ lost'[c] \/ "limit_hit" \in events'[c]
      BY <1>0, <2>0, <2>4, TraceCases DEF EventKind
    <3>2. PICK f \in Finding : ask' = [ask EXCEPT ![c].cut = TRUE, ![c].finding = f]
      BY <2>4
    <3>3. /\ ask' \in [Call -> Ask] /\ \A d \in Call : d # c => ask'[d] = ask[d]
          /\ ask'[c].granted /\ ask'[c].cut
      BY <1>0, <2>4, <3>2 DEF Ask
    <3>4. stage' \in [Call -> Stage] /\ stage'[c] = "limited" /\ \A d \in Call : d # c => stage'[d] = stage[d]
      BY <1>0, <2>4 DEF Goto, Stage
    <3> QED
      BY <2>0, <3>1, <3>3, <3>4 DEF HandlerInv, Limited
  <2> QED
    BY <1>1, <2>1, <2>2, <2>3, <2>4 DEF LimitInput
<1>2. CASE CheckSchema(c)
  <2>1. /\ at' = at /\ UNCHANGED <<run, client, ask, events, lost>> /\ stage[c] = "limited"
        /\ stage' = [stage EXCEPT ![c] = IF Valid(c) THEN "valid" ELSE "replied"]
        /\ at[c] = "idle" /\ events[c] \subseteq {"limit_hit"} /\ Limited(c)
    BY <1>0, <1>2 DEF CheckSchema, Goto, Untraced, client, HandlerInv
  <2>2. CASE Valid(c)
    <3>1. Limited(c)'
      BY <2>1 DEF Limited
    <3> QED
      BY <1>0, <2>1, <2>2, <3>1 DEF Valid, HandlerInv, Stage
  <2>3. CASE ~Valid(c)
    BY <1>0, <2>1, <2>3 DEF HandlerInv, Refused, Stage
  <2> QED
    BY <2>2, <2>3
<1>3. CASE CheckPolicy(c)
  <2>1. /\ at' = at /\ UNCHANGED <<run, client, ask>> /\ stage[c] = "valid"
        /\ at[c] = "idle" /\ events[c] \subseteq {"limit_hit"} /\ Limited(c)
        /\ ask[c].finding \in {"fine", "denied"}
    BY <1>0, <1>3 DEF CheckPolicy, client, HandlerInv, Ask, Finding
  <2>2. CASE ask[c].finding # "denied" /\ Goto(c, "selected") /\ Trace(c, "selection")
    <3>1. /\ Typed /\ Others /\ events[c] \subseteq events'[c]
          /\ events'[c] \subseteq events[c] \cup {"selection"}
          /\ lost[c] => lost'[c]
          /\ lost'[c] \/ "selection" \in events'[c]
      BY <1>0, <2>2, TraceCases DEF EventKind
    <3>2. Selected(c)' /\ "execution" \notin events'[c]
      BY <2>1, <2>2, <3>1 DEF Selected, Limited
    <3>3. stage' \in [Call -> Stage] /\ stage'[c] = "selected" /\ \A d \in Call : d # c => stage'[d] = stage[d]
      BY <1>0, <2>2 DEF Goto, Stage
    <3> QED
      BY <1>0, <2>1, <3>1, <3>2, <3>3 DEF HandlerInv
  <2>3. CASE ask[c].finding = "denied" /\ Goto(c, "replied") /\ Trace(c, "system_error")
    <3>1. /\ Typed /\ Others /\ events'[c] \subseteq events[c] \cup {"system_error"}
      BY <1>0, <2>3, TraceCases DEF EventKind
    <3>2. stage' \in [Call -> Stage] /\ stage'[c] = "replied" /\ \A d \in Call : d # c => stage'[d] = stage[d]
      BY <1>0, <2>3 DEF Goto, Stage
    <3>3. Refused(c)'
      BY <2>1, <2>3, <3>1 DEF Refused
    <3> QED
      BY <1>0, <2>1, <3>1, <3>2, <3>3 DEF HandlerInv
  <2> QED
    BY <1>3, <2>2, <2>3 DEF CheckPolicy
<1>4. CASE Executed(c)
  <2>1. /\ at' = at /\ UNCHANGED <<run, client, ask>> /\ stage[c] = "calling" /\ at[c] \in Over
        /\ Selected(c) /\ Trace(c, "execution") /\ Goto(c, "executed")
    BY <1>0, <1>4 DEF Executed, client, HandlerInv
  <2>2. /\ Typed /\ Others /\ events[c] \subseteq events'[c]
        /\ events'[c] \subseteq events[c] \cup {"execution"}
        /\ lost[c] => lost'[c]
        /\ lost'[c] \/ "execution" \in events'[c]
    BY <1>0, <2>1, TraceCases DEF EventKind
  <2>3. Done(c)'
    BY <2>1, <2>2 DEF Done, Selected, Limited, Over
  <2>4. stage' \in [Call -> Stage] /\ stage'[c] = "executed" /\ \A d \in Call : d # c => stage'[d] = stage[d]
    BY <1>0, <2>1 DEF Goto, Stage
  <2> QED
    BY <1>0, <2>1, <2>2, <2>3, <2>4 DEF HandlerInv
<1>5. CASE LimitOutput(c)
  <2>1. /\ at' = at /\ UNCHANGED <<run, client, ask>> /\ stage[c] = "executed"
        /\ Done(c) /\ (Untraced \/ Trace(c, "limit_hit")) /\ Goto(c, "replied")
    BY <1>0, <1>5 DEF LimitOutput, client, HandlerInv
  <2>2. /\ Typed /\ Others /\ events[c] \subseteq events'[c]
        /\ events'[c] \subseteq events[c] \cup {"limit_hit"}
        /\ lost[c] => lost'[c]
    <3>1. CASE Untraced
      BY <1>0, <3>1 DEF Untraced
    <3>2. CASE Trace(c, "limit_hit")
      BY <1>0, <3>2, TraceCases DEF EventKind
    <3> QED
      BY <2>1, <3>1, <3>2
  <2>3. Done(c)'
    BY <2>1, <2>2 DEF Done, Selected, Limited, Over
  <2>4. stage' \in [Call -> Stage] /\ stage'[c] = "replied" /\ \A d \in Call : d # c => stage'[d] = stage[d]
    BY <1>0, <2>1 DEF Goto, Stage
  <2> QED
    BY <1>0, <2>1, <2>2, <2>3, <2>4 DEF HandlerInv
<1> QED
  BY <1>1, <1>2, <1>3, <1>4, <1>5

\* A step of one call leaves the others where they are.
LEMMA AtOthers ==
  ASSUME ClientInv, NEW c \in Call, CallStep(c) \/ Dispatch(c)
  PROVE  \A d \in Call : d # c => at'[d] = at[d]
<1> USE DEF ClientInv, ClientType
<1>1. CASE Dispatch(c)
  BY <1>1 DEF Dispatch
<1>2. CASE Native(c) \/ Backoff(c) \/ StartAttempt(c) \/ GiveUp(c)
  BY <1>2 DEF Native, Backoff, StartAttempt, GiveUp, AttemptFails
<1>3. CASE Initialize(c) \/ CallTool(c)
  BY <1>3 DEF Initialize, CallTool, Send, AttemptFails
<1>4. CASE ReadLine(c)
  BY <1>4 DEF ReadLine, Conclude, AttemptFails
<1>5. CASE Response(c)
  <2>1. PICK v, l : Conclude(c, v, l)
    BY <1>5 DEF Response
  <2> QED
    BY <2>1 DEF Conclude, AttemptFails
<1>6. CASE Expire(c) \/ ServerWrites(c) \/ ServerExits(c)
  BY <1>6 DEF Expire, ServerWrites, ServerExits
<1> QED
  BY <1>1, <1>2, <1>3, <1>4, <1>5, <1>6 DEF CallStep, ClientStep, ServerStep

\* A handler's step is a step of a call under way, or a post at an open door.
LEMMA HandlerStepInv == ASSUME IndInv, NEW c \in Call, Handler(c) PROVE IndInv'
<1>0. /\ TypeOK /\ ClientInv /\ DoorInv /\ \A d \in Call : HandlerInv(d)
      /\ stage \in [Call -> Stage] /\ ask \in [Call -> Ask]
      /\ events \in [Call -> SUBSET EventKind] /\ lost \in [Call -> BOOLEAN]
  BY DEF IndInv, TypeOK
<1> DEFINE Alone == \A d \in Call : d # c => /\ stage'[d] = stage[d] /\ ask'[d] = ask[d]
                                             /\ events'[d] = events[d] /\ lost'[d] = lost[d]
                                             /\ at'[d] = at[d]
           Typed == /\ stage' \in [Call -> Stage] /\ ask' \in [Call -> Ask]
                    /\ events' \in [Call -> SUBSET EventKind] /\ lost' \in [Call -> BOOLEAN]
<1>1. /\ UNCHANGED run /\ ClientInv' /\ Alone /\ Typed /\ HandlerInv(c)'
      /\ phase \notin {"new", "begun"}
      /\ phase \in {"finish", "returned"} => InFlight # {}
  <2>1. CASE Post(c)
    <3>1. /\ agent = "live" /\ stage[c] = "none" /\ UNCHANGED <<run, events, lost, client>>
          /\ stage' = [stage EXCEPT ![c] = "posted"]
      BY <2>1 DEF Post
    <3>2. PICK k \in Ask : ask' = [ask EXCEPT ![c] = k]
      BY <2>1 DEF Post
    <3>3. ClientInv' /\ at' = at
      BY <1>0, <3>1 DEF client, ClientInv, ClientType, CallInv, Attempts, Resting, Own
    <3>4. Alone /\ Typed /\ stage'[c] = "posted"
      BY <1>0, <3>1, <3>2, <3>3 DEF Stage
    <3>5. HandlerInv(c)'
      BY <1>0, <3>1, <3>3, <3>4 DEF HandlerInv
    <3>6. phase = "session"
      BY <1>0, <3>1 DEF DoorInv
    <3> QED
      BY <3>1, <3>3, <3>4, <3>5, <3>6
  <2>2. CASE LimitInput(c) \/ CheckSchema(c) \/ CheckPolicy(c) \/ Executed(c) \/ LimitOutput(c)
    <3>1. /\ UNCHANGED <<run, client>> /\ stage[c] \notin {"none", "replied"} /\ Typed
          /\ \A d \in Call : d # c => /\ stage'[d] = stage[d] /\ ask'[d] = ask[d]
                                      /\ events'[d] = events[d] /\ lost'[d] = lost[d]
          /\ HandlerInv(c)'
      BY <2>2, StageStep
    <3>2. ClientInv' /\ at' = at
      BY <1>0, <3>1 DEF client, ClientInv, ClientType, CallInv, Attempts, Resting, Own
    <3>3. InFlight # {} /\ phase \notin {"new", "begun"}
      BY <1>0, <3>1 DEF InFlight, DoorInv
    <3> QED
      BY <3>1, <3>2, <3>3
  <2>3. CASE CallExec(c) \/ Below(c) \/ Disconnect(c)
    <3>1. /\ UNCHANGED <<run, ask, events, lost>> /\ (CallStep(c) \/ Dispatch(c))
          /\ stage[c] \in {"selected", "calling"} /\ stage' = [stage EXCEPT ![c] = "calling"]
      <4>1. CASE CallExec(c)
        BY <4>1 DEF CallExec, Goto
      <4>2. CASE Below(c) \/ Disconnect(c)
        <5>1. /\ UNCHANGED <<run, stage, ask, events, lost>> /\ CallStep(c) /\ stage[c] = "calling"
          BY <4>2 DEF Below, Disconnect, CallStep, handlers
        <5> QED
          BY <1>0, <5>1
      <4> QED
        BY <2>3, <4>1, <4>2
    <3>2. ClientInv' /\ \A d \in Call : d # c => at'[d] = at[d]
      BY <1>0, <3>1, ClientStepInv, AtOthers
    <3>3. Alone /\ Typed /\ stage'[c] = "calling"
      BY <1>0, <3>1, <3>2 DEF Stage
    <3>4. HandlerInv(c)'
      <4>1. Selected(c) /\ "execution" \notin events[c]
        BY <1>0, <3>1 DEF HandlerInv
      <4>2. Selected(c)'
        BY <3>1, <4>1 DEF Selected, Limited
      <4> QED
        BY <3>1, <3>3, <4>1, <4>2 DEF HandlerInv
    <3>5. InFlight # {} /\ phase \notin {"new", "begun"}
      BY <1>0, <3>1 DEF InFlight, DoorInv
    <3> QED
      BY <3>1, <3>2, <3>3, <3>4, <3>5
  <2> QED
    BY <2>1, <2>2, <2>3 DEF Handler, HandlerStep
<1>2. ASSUME NEW d \in Call PROVE HandlerInv(d)'
  <2>1. CASE d = c
    BY <1>1, <2>1
  <2>2. CASE d # c
    <3>1. /\ stage'[d] = stage[d] /\ ask'[d] = ask[d] /\ events'[d] = events[d]
          /\ lost'[d] = lost[d] /\ at'[d] = at[d] /\ HandlerInv(d)
      BY <1>0, <1>1, <2>2
    <3> QED
      BY <3>1 DEF HandlerInv, Limited, Selected, Done, Refused
  <2> QED
    BY <2>1, <2>2
<1>3. TypeOK' /\ DoorInv' /\ LedgerInv'
  BY <1>1, RunKept DEF ClientInv
<1> QED
  BY <1>1, <1>2, <1>3 DEF IndInv

\* Every step keeps the inductive invariant.
LEMMA NextInv == IndInv /\ [Next]_vars => IndInv'
<1> SUFFICES ASSUME IndInv, [Next]_vars PROVE IndInv'
  OBVIOUS
<1>1. CASE UNCHANGED vars
  <2>1. UNCHANGED <<run, handlers, client>>
    BY <1>1 DEF vars
  <2>2. ClientInv' /\ \A c \in Call : HandlerInv(c)'
    BY <2>1, HandlersKept
  <2>3. TypeOK' /\ DoorInv' /\ LedgerInv'
    BY <2>1, <2>2, RunKept DEF handlers, IndInv, TypeOK, ClientInv
  <2> QED
    BY <2>2, <2>3 DEF IndInv
<1> QED
  BY <1>1, InvokeStepInv, HandlerStepInv DEF Next, Returned

-----------------------------------------------------------------------------
\* The variables of a run and of its calls keep their types: attempts stay
\* within maxAttempts and what a run is charged is what a session cost.
THEOREM TypeCorrect == Spec => []TypeOK
<1>1. IndInv => TypeOK
  BY DEF IndInv
<1> QED
  BY <1>1, InitInv, NextInv, PTL DEF Spec

\* A call that succeeds does so by the result of its own request, whatever else
\* the server writes (jsonRPCResultFromMap).
THEOREM EndsByOwnAnswer == Spec => []OwnAnswer
<1>1. IndInv => OwnAnswer
  BY DEF IndInv, ClientInv, CallInv, Own, OwnAnswer
<1> QED
  BY <1>1, InitInv, NextInv, PTL DEF Spec

\* The retry loop does not make a request again that the server answered: by a
\* response of its own in a child's output or in the body of a 200, or for an HTTP
\* tool by a status below 500.
THEOREM NotRepeated == Spec => []AnsweredNotRepeated
<1>1. IndInv => AnsweredNotRepeated
  <2> SUFFICES ASSUME IndInv, NEW c \in Call, NEW a \in settled[c], NEW b \in sent[c]
               PROVE  b <= a
    BY DEF AnsweredNotRepeated
  <2>1. a = attempt[c] /\ b \in 1..attempt[c] /\ attempt[c] \in Nat
    BY AttemptsNat DEF IndInv, ClientInv, ClientType, CallInv, Attempts
  <2> QED
    BY <2>1
<1> QED
  BY <1>1, InitInv, NextInv, PTL DEF Spec

\* A tool receives the arguments that were limited and checked, with their events
\* in the trace unless an append failed, and what is traced as denied never ran
\* (PolicyDispatcher.Call).
THEOREM CallsAudited == Spec => []Audited
<1>1. IndInv => Audited
  <2> SUFFICES ASSUME IndInv, NEW c \in Call
               PROVE  /\ sent[c] # {} =>
                           /\ ask[c].granted /\ ask[c].finding = "fine"
                           /\ ask[c].over => ask[c].cut
                           /\ lost[c] \/ ("selection" \in events[c] /\ (ask[c].over => "limit_hit" \in events[c]))
                           /\ stage[c] = "replied" => lost[c] \/ "execution" \in events[c]
                      /\ "execution" \in events[c] => at[c] \in Over
                      /\ "system_error" \in events[c] =>
                           /\ sent[c] = {} /\ ask[c].finding = "denied"
                           /\ events[c] \subseteq {"limit_hit", "system_error"}
    BY DEF Audited
  <2>1. HandlerInv(c) /\ (at[c] = "idle" => sent[c] = {}) /\ stage[c] \in Stage
    BY DEF IndInv, ClientInv, CallInv, Resting, TypeOK
  <2>2. CASE stage[c] \in {"none", "posted", "limited", "valid"}
    BY <2>1, <2>2 DEF HandlerInv
  <2>3. CASE stage[c] \in {"selected", "calling"}
    BY <2>1, <2>3 DEF HandlerInv, Selected, Limited
  <2>4. CASE stage[c] \in {"executed", "replied"} /\ Done(c)
    BY <2>1, <2>4 DEF Done, Selected, Limited
  <2>5. CASE stage[c] = "replied" /\ Refused(c)
    BY <2>1, <2>5 DEF Refused
  <2> QED
    BY <2>1, <2>2, <2>3, <2>4, <2>5 DEF HandlerInv, Stage
<1> QED
  BY <1>1, InitInv, NextInv, PTL DEF Spec

\* Once the row is finished the agent is gone and the listener closed, and nothing
\* the agent asked for is under way unless the shutdown's two seconds passed.
THEOREM QuietWhenFinished == Spec => []FinishedQuiet
<1>1. IndInv => FinishedQuiet
  <2> SUFFICES ASSUME IndInv, row \in {"succeeded", "failed"}
               PROVE  /\ ~door /\ agent # "live"
                      /\ graceOver \/ (InFlight = {} /\ \A c \in Call : server[c] # "up")
    BY DEF FinishedQuiet
  <2>1. ~door /\ agent # "live" /\ (graceOver \/ InFlight = {})
    BY DEF IndInv, LedgerInv, DoorInv
  <2>2. ASSUME InFlight = {}, NEW c \in Call PROVE server[c] # "up"
    <3>1. stage[c] \in {"none", "replied"}
      BY <2>2 DEF InFlight
    <3>2. at[c] \in {"idle"} \cup Over
      BY <3>1 DEF IndInv, HandlerInv, Refused, Done
    <3> QED
      BY <3>2 DEF IndInv, ClientInv, CallInv, Resting
  <2> QED
    BY <2>1, <2>2
<1> QED
  BY <1>1, InitInv, NextInv, PTL DEF Spec

\* A finished row carries the session's cost; one that succeeded stayed within its
\* budget and had output, and with claude its session ended in success.  (With
\* gemini an error session that exits with 0 succeeds.)
THEOREM HonestOutcome == Spec => []OutcomeHonest
<1>1. IndInv => OutcomeHonest
  <2> SUFFICES ASSUME IndInv PROVE OutcomeHonest
    OBVIOUS
  <2>1. row \in {"succeeded", "failed"} => charged = session.cost
    BY DEF IndInv, LedgerInv
  <2>2. row = "succeeded" => ~RunSessionErr(session) /\ (Budget > 0 => session.cost <= Budget)
    BY DEF IndInv, LedgerInv, Good
  <2>3. ~RunSessionErr(session) =>
          session.result # "none" /\ (driver = "claude" => session.result = "success")
    BY DEF RunSessionErr, ClaudeErr, GeminiErr
  <2> QED
    BY <2>1, <2>2, <2>3 DEF OutcomeHonest
<1> QED
  BY <1>1, InitInv, NextInv, PTL DEF Spec
=============================================================================
