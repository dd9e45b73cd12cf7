----------------------------- MODULE StateMerge -----------------------------
(***************************************************************************)
(* What building the L2 allocation promises, whatever the tool: from a     *)
(* base genesis and the set of L1 accounts it is given, in any order, it   *)
(* publishes exactly the merged allocation or nothing at all.              *)
(***************************************************************************)
EXTENDS Accounts

CONSTANTS
  L1Accounts,  \* the accounts L1 may hold
  Bases        \* base genesis allocations, functions from addresses to entries

VARIABLES
  pruneEmpty,  \* leave empty L1 accounts out
  base,        \* the base genesis allocation
  records,     \* the L1 accounts received, a set of [addr, account]
  outcome,     \* "open", "published" or "abandoned"
  published    \* the allocation a reader finds, a set of [addr, entry]

promiseVars == <<pruneEmpty, base, records, outcome, published>>

Record == [addr : Addr, account : L1Accounts]

PromiseInit ==
  /\ pruneEmpty \in BOOLEAN
  /\ base \in Bases
  /\ records = {}
  /\ outcome = "open"
  /\ published = {}

Receive(r) ==
  /\ outcome = "open"
  /\ records' = records \cup {r}
  /\ UNCHANGED <<pruneEmpty, base, outcome, published>>

Publish ==
  /\ outcome = "open"
  /\ records # {}
  /\ Mergeable(base, records, pruneEmpty)
  /\ outcome' = "published"
  /\ published' = Merged(base, records, pruneEmpty)
  /\ UNCHANGED <<pruneEmpty, base, records>>

Abandon ==
  /\ outcome = "open"
  /\ outcome' = "abandoned"
  /\ UNCHANGED <<pruneEmpty, base, records, published>>

PromiseNext ==
  \/ \E r \in Record : Receive(r)
  \/ Publish
  \/ Abandon

PromiseSpec == PromiseInit /\ [][PromiseNext]_promiseVars
=============================================================================
