---------------------------- MODULE MCPolicyMerge ----------------------------
EXTENDS PolicyMerge, TLC

MCOp == {"pay", "refund", "quote"}
MCArg == {"amount", "note"}

NoSwitch == [o \in MCOp |-> {}]

\* An entry that sets only what is given.
Entry(decisions, args, paths, denied, tools, switch) ==
  [decisions |-> decisions, args |-> args, paths |-> paths, denied |-> denied, tools |-> tools, switch |-> switch]

OfEntry(e) == [cost |-> 0, iters |-> 0, entry |-> e, switch |-> NoSwitch]

\* Policies that differ in their entries: decisions listed or not, edits allowed
\* and denied, switches by entry, by operation or by policy.
EntryPolicies ==
  {OfEntry(e) : e \in {NoEntry, Plain}
     \cup {Entry(d, a, p, n, {}, NoSwitch) :
             d \in {{}, {"approve"}, {"reject"}, {"approve", "edit"}},
             a \in {{}, {"amount"}}, p \in {{}, {"note"}}, n \in {{}, {"note"}}}}

\* Policies that differ in their budgets and ceilings, below, at and above the
\* default.
BudgetPolicies ==
  {[cost |-> c, iters |-> i, entry |-> NoEntry, switch |-> NoSwitch] : c \in 0 .. 2, i \in 0 .. 4}

MCPolicies == EntryPolicies \cup BudgetPolicies

EditPolicies == {OfEntry(Entry({}, {a}, {}, {}, {}, NoSwitch)) : a \in MCArg}

SwitchPolicies ==
  {OfEntry(Entry({}, {}, {}, {}, {}, [NoSwitch EXCEPT ![o] = {"quote"}])) : o \in {"pay", "refund"}}
=============================================================================
