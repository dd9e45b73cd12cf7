------------------------------ MODULE Accounts ------------------------------
(***************************************************************************)
(* The data every tool of the migration passes to the next one: accounts   *)
(* as a geth dump and a genesis allocation spell them, and the rules for   *)
(* an address that both the L1 dump and the base genesis define.           *)
(*                                                                         *)
(* Code and storage are opaque: the tools only compare them and ask        *)
(* whether they are there.                                                 *)
(***************************************************************************)
EXTENDS Naturals

CONSTANTS
  Addr,         \* 20-byte addresses, normalized (lower case, 0x prefix)
  ZeroAddress,  \* the one geth dumps without an `address` field
  Code,         \* non-empty contract code, as it may be spelled in a file
  NoCode,       \* no `code` field, or an empty one
  BadCode,      \* a `code` field that is not hex; only a base genesis holds one
  Storage,      \* non-empty storage maps
  NoStorage     \* no `storage` field, or an empty map

ASSUME AccountsAssumption ==
  /\ ZeroAddress \in Addr
  /\ NoCode \notin Code
  /\ BadCode \notin Code \cup {NoCode}
  /\ NoStorage \notin Storage

\* What a dump record carries, and what an allocation entry says.
Account == [balance : Nat, nonce : Nat,
            code : Code \cup {NoCode}, storage : Storage \cup {NoStorage}]

\* A base genesis entry may in addition hold unreadable code.
BaseEntry == [balance : Nat, nonce : Nat,
              code : Code \cup {NoCode, BadCode}, storage : Storage \cup {NoStorage}]

IsEmptyAllocEntry(e) ==
  /\ e.balance = 0
  /\ e.nonce = 0
  /\ e.code = NoCode
  /\ e.storage = NoStorage

\* An entry the OP Stack owns: it has code or storage, and unreadable code
\* counts as code.
IsProtectedBaseEntry(e) == e.code # NoCode \/ e.storage # NoStorage

\* The L1 account d cannot be merged into the protected base entry b: it has
\* other code, storage of its own, or a nonce that no contract explains.
CannotMerge(b, d) ==
  \/ d.code # NoCode /\ d.code # b.code
  \/ d.storage # NoStorage
  \/ d.code = NoCode /\ d.nonce # 0

\* The mutated form loses the L1 balance.
MergeIntoProtectedEntry_KeepBase(b, d) == b

\* The merge keeps the base contract and adds the L1 balance to it.
MergeIntoProtectedEntry(b, d) == [b EXCEPT !.balance = @ + d.balance]

-----------------------------------------------------------------------------
(* The allocation that a base genesis B and a set R of L1 records determine  *)

\* The records that decide the allocation at their address.
Kept(R, prune) == {r \in R : ~(prune /\ IsEmptyAllocEntry(r.account))}

Protected(B) == {a \in DOMAIN B : IsProtectedBaseEntry(B[a])}

EntryFor(B, r) ==
  IF r.addr \in Protected(B)
  THEN MergeIntoProtectedEntry(B[r.addr], r.account)
  ELSE r.account

\* The allocation the base and the records determine.
Merged(B, R, prune) ==
  {[addr |-> r.addr, entry |-> EntryFor(B, r)] : r \in Kept(R, prune)}
    \cup {[addr |-> a, entry |-> B[a]] :
             a \in DOMAIN B \ {r.addr : r \in Kept(R, prune)}}

\* Every L1 account at a protected address can be merged, and there is one
\* at most.
Mergeable(B, R, prune) ==
  \A r \in Kept(R, prune) : r.addr \in Protected(B) =>
    /\ ~CannotMerge(B[r.addr], r.account)
    /\ \A s \in Kept(R, prune) : s.addr = r.addr => s = r
=============================================================================
