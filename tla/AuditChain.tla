----------------------------- MODULE AuditChain -----------------------------
(***************************************************************************)
(* The hash chain of a run's trace: AppendTraceEvent                        *)
(* (internal/state/sqlite/runtime.go), the chain operators and              *)
(* VerifyRunChain (internal/audit).                                         *)
(*                                                                          *)
(* Several processes share one database file, each through one connection.  *)
(* An append reads the next sequence number and the chain's tip in a        *)
(* transaction and inserts in the same transaction; SQLite (external) lets  *)
(* the insert through only if nothing was committed since the reads.  Rows  *)
(* written before chaining existed have no hash.  The rows can be changed   *)
(* behind the program's back; the hashes cannot be computed there.          *)
(*                                                                          *)
(* SHA-256 is taken as injective: a hash is the sequence of everything that *)
(* was hashed into it, from the run's genesis on.                           *)
(***************************************************************************)
EXTENDS Naturals, Sequences, SequencesExt, FiniteSets

CONSTANTS
  Process,     \* the processes that append
  RunId,       \* the runs of the database
  Data,        \* the canonical content of an event, its seq aside
  MaxRows,     \* bound: rows of a run
  MaxLegacy,   \* bound: rows of a run written before migration 007
  MaxEdits     \* bound: changes behind the program's back

ASSUME ChainAssumption ==
  /\ MaxRows \in Nat /\ MaxLegacy \in 0..MaxRows /\ MaxEdits \in Nat

VARIABLES
  rows,      \* rows[r]: the trace_events of r by seq: [seq, data, prev, hash]
  tx,        \* tx[p]: the open transaction of p, or NoTx
  version,   \* the commits of the database, which transactions conflict on
  edits,     \* the changes made behind the program's back
  tips       \* ghost: tips[r], the hashes AppendTraceEvent stored

chainVars == <<rows, tx, version, edits, tips>>

NoTx == [at |-> 0]
None == <<>>

-----------------------------------------------------------------------------
(* internal/audit/chain.go *)

GenesisHash(r) == <<r>>

\* The fields CanonicalEventBytes hashes.
CanonicalEvent(e) == <<e.seq, e.data>>

EventHash(e, prev) == Append(prev, CanonicalEvent(e))

PrevHashForChainTip(r, tip) == IF tip # None THEN tip ELSE GenesisHash(r)

\* The newest stored hash of a run, None when no row has one.
ChainTip(s) ==
  LET I == {i \in DOMAIN s : s[i].hash # None}
  IN IF I = {} THEN None ELSE s[CHOOSE i \in I : \A j \in I : j <= i].hash

-----------------------------------------------------------------------------
(* internal/audit/verify.go *)

Unchained(e) == e.hash = None /\ e.prev = None

\* Mutant: a row without hashes is passed over wherever it stands.
TolerantBreak(r, s, i) ==
  LET tip == ChainTip(SubSeq(s, 1, i - 1)) IN
  /\ ~Unchained(s[i])
  /\ \/ s[i].hash = None \/ s[i].prev = None
     \/ s[i].prev # PrevHashForChainTip(r, tip)
     \/ s[i].hash # EventHash(s[i], s[i].prev)

\* The row at i breaks the chain, all before it being sound: it lacks one hash,
\* or both after a chained row, or is not linked, or does not hash to its hash.
BreaksAt(r, s, i) ==
  LET tip == ChainTip(SubSeq(s, 1, i - 1)) IN
  IF Unchained(s[i])
    THEN \E j \in 1..(i - 1) : ~Unchained(s[j])
    ELSE \/ s[i].hash = None \/ s[i].prev = None
         \/ s[i].prev # PrevHashForChainTip(r, tip)
         \/ s[i].hash # EventHash(s[i], s[i].prev)

\* VerifyRunChain's BrokenSeq: the sequence number of the first row that breaks
\* the chain, 0 when none does, and also when the first that does has number 0.
VerifyRunChain(r, s) ==
  LET B == {i \in DOMAIN s : BreaksAt(r, s, i)}
  IN IF B = {} THEN 0 ELSE s[CHOOSE i \in B : \A j \in B : i <= j].seq

\* The run verifies: BrokenSeq is 0.
Ok(r) == VerifyRunChain(r, rows[r]) = 0

-----------------------------------------------------------------------------

Legacy(d, n) == [i \in 1..n |-> [seq |-> i, data |-> d, prev |-> None, hash |-> None]]

ChainInit ==
  /\ \E d \in Data, n \in [RunId -> 0..MaxLegacy] : rows = [r \in RunId |-> Legacy(d, n[r])]
  /\ tx = [p \in Process |-> NoTx]
  /\ version = 1
  /\ edits = 0
  /\ tips = [r \in RunId |-> {}]

NextSeq(s) == IF s = <<>> THEN 1 ELSE s[Len(s)].seq + 1

\* BeginTx and the reads: the next seq and the tip, as of this version.
Begin(p, r, d) ==
  /\ tx[p] = NoTx
  /\ tx' = [tx EXCEPT ![p] = [at |-> version, run |-> r, data |-> d,
                              seq |-> NextSeq(rows[r]), tip |-> ChainTip(rows[r])]]
  /\ UNCHANGED <<rows, version, edits, tips>>

\* Mutant: the reads are not of the transaction that inserts.
AlwaysCurrent(p) == TRUE

\* Nothing was committed since the transaction's reads (SQLite, external).
Current(p) == tx[p].at = version

\* The insert and the commit.
Insert(p) ==
  /\ tx[p] # NoTx
  /\ Current(p)
  /\ LET r == tx[p].run
         prev == PrevHashForChainTip(r, tx[p].tip)
         e == [seq |-> tx[p].seq, data |-> tx[p].data]
         h == EventHash(e, prev)
     IN /\ Len(rows[r]) < MaxRows
        /\ rows' = [rows EXCEPT ![r] = Append(@, [seq |-> e.seq, data |-> e.data, prev |-> prev, hash |-> h])]
        /\ tips' = [tips EXCEPT ![r] = @ \cup {h}]
  /\ version' = version + 1
  /\ tx' = [tx EXCEPT ![p] = NoTx]
  /\ UNCHANGED edits

\* SQLITE_BUSY, a canceled context, a crash: the append returns an error, which
\* the engine drops, and the transaction is rolled back.
Rollback(p) ==
  /\ tx[p] # NoTx
  /\ tx' = [tx EXCEPT ![p] = NoTx]
  /\ UNCHANGED <<rows, version, edits, tips>>

\* The number of rows before sequence number q.
Below(s, q) == Cardinality({i \in DOMAIN s : s[i].seq < q})

\* Changes behind the program's back: a row's content is altered, a row dropped
\* (at the end, the tail is cut), or one without hashes added, or two rows trade
\* all but their sequence numbers.
Altered(s) == UNION {{[s EXCEPT ![i].data = d] : d \in Data} : i \in DOMAIN s}
Dropped(s) == {RemoveAt(s, i) : i \in DOMAIN s}

Bare(q, d) == [seq |-> q, data |-> d, prev |-> None, hash |-> None]
Absent(s) == (0..NextSeq(s)) \ {s[i].seq : i \in DOMAIN s}
Added(s) == UNION {{InsertAt(s, Below(s, q) + 1, Bare(q, d)) : d \in Data} : q \in Absent(s)}

Trade(s, i, j) ==
  [s EXCEPT ![i] = [s[j] EXCEPT !.seq = s[i].seq], ![j] = [s[i] EXCEPT !.seq = s[j].seq]]
Traded(s) == UNION {{Trade(s, i, j) : j \in DOMAIN s} : i \in DOMAIN s}

Edited(s) == Altered(s) \cup Dropped(s) \cup Added(s) \cup Traded(s)

Edit(r) ==
  /\ edits < MaxEdits
  /\ \E s \in Edited(rows[r]) : Len(s) <= MaxRows /\ rows' = [rows EXCEPT ![r] = s]
  /\ edits' = edits + 1
  /\ version' = version + 1
  /\ UNCHANGED <<tx, tips>>

ChainNext ==
  \/ \E p \in Process : (\E r \in RunId, d \in Data : Begin(p, r, d)) \/ Insert(p) \/ Rollback(p)
  \/ \E r \in RunId : Edit(r)

ChainSpec == ChainInit /\ [][ChainNext]_chainVars

-----------------------------------------------------------------------------
(* Properties. *)

\* Every variable has its type; the rows of a run are in seq order.
ChainTypeOK ==
  /\ \A r \in RunId : \A i \in DOMAIN rows[r] : 
       /\ rows[r][i].seq \in Nat /\ rows[r][i].data \in Data
       /\ i > 1 => rows[r][i].seq > rows[r][i - 1].seq
  /\ \A p \in Process : tx[p].at \in 0..version
  /\ edits \in 0..MaxEdits

\* Whatever processes append to whatever runs at the same time, and whatever
\* rows a run had before chaining, audit verify accepts what the program wrote
\* and its sequence numbers are those of consecutive appends.
WrittenVerifies ==
  edits = 0 => \A r \in RunId : Ok(r) /\ \A i \in DOMAIN rows[r] : rows[r][i].seq = i

\* No row with a hash has the sequence number 0, which AppendTraceEvent never gives.
ZeroIsBare(s) == \A i \in DOMAIN s : s[i].seq = 0 => Unchained(s[i])

\* What audit verify accepts is what the program wrote: a leading block without
\* hashes, then exactly the events of a chain AppendTraceEvent built, in its
\* order (a chain whose tail was cut is such a chain).  Runs with a chained row
\* numbered 0 are left out: Ok (verify.go:33) takes a break there for none.
VerifiedIsWritten ==
  \A r \in RunId : ZeroIsBare(rows[r]) /\ Ok(r) =>
    LET s == rows[r]
    IN \E k \in 0..Len(s) :
         /\ \A i \in DOMAIN s : Unchained(s[i]) <=> i <= k
         /\ k < Len(s) => \E t \in tips[r] :
              t = <<r>> \o [i \in 1..(Len(s) - k) |-> CanonicalEvent(s[k + i])]

=============================================================================
