----------------------------- MODULE DumpCheck -----------------------------
(***************************************************************************)
(* staterecon/internal/dumpcheck and its command: recomputes the state     *)
(* root of a geth dump and, when an allocation is given, compares it with  *)
(* the dump and the base genesis entry by entry.                           *)
(*                                                                         *)
(* Hashing is injective: the root of a trie is the set of its leaves, a    *)
(* code hash is the code, a storage root the map.  The trie key of an      *)
(* address is a number, since only the order of the keys matters.  Lines   *)
(* and entries arrive one by one; the files may hold anything.             *)
(***************************************************************************)
EXTENDS Accounts, Integers, Sequences

CONSTANTS
  KeyOf,         \* [Addr -> Nat], keccak256
  NoAddr,        \* a record without an address: missing preimage
  NoKey,         \* a record without a key
  NoRoot,        \* no header yet, or no --expected-root
  ZeroSlots,     \* the storage maps all of whose words are zero
  Word,          \* 2^256, the modulus of uint256 arithmetic
  DumpLines,     \* lines a dump file may hold
  AllocPairs,    \* entries an allocation file may hold
  Genesis,       \* base genesis files
  ExpectedRoots, \* values of --expected-root
  MaxEntries     \* bound: entries of an allocation

Leaf == [key : Nat, account : Account]

\* JSON that is no record, a header, and a record: what it says of the account,
\* and the code and the storage that are written with it.
DumpLine ==
  [type : {"junk"}]
    \cup [type : {"header"}, root : SUBSET Leaf]
    \cup [type : {"record"}, key : Nat \cup {NoKey}, addr : Addr \cup {NoAddr},
          account : Account, code : Code \cup {NoCode}, storage : Storage \cup {NoStorage}]

AllocEntry == [addr : Addr, entry : BaseEntry]

ASSUME DumpCheckAssumption ==
  /\ KeyOf \in [Addr -> Nat]
  /\ \A a, b \in Addr : KeyOf[a] = KeyOf[b] => a = b
  /\ NoAddr \notin Addr /\ NoKey \notin Nat
  /\ ZeroSlots \subseteq Storage
  /\ Word \in Nat \ {0}
  /\ DumpLines \subseteq DumpLine /\ AllocPairs \subseteq AllocEntry
  /\ \A g \in Genesis : /\ DOMAIN g.alloc \subseteq Addr
                        /\ \A a \in DOMAIN g.alloc : g.alloc[a] \in BaseEntry
  /\ MaxEntries \in Nat

VARIABLES
  expectedRoot, genesis, withAlloc,  \* what the command is given
  step,         \* "dump", "alloc", "verified" or "failed"
  header,       \* header root of the dump
  prevKey,      \* key of the last record, -1 before the first
  trie,         \* leaves of the stack trie
  byAddress,    \* res.ByAddress
  problem,      \* the problem list is not empty
  seen,         \* addresses met in the allocation
  entries,      \* the entries read so far
  dumpSum, allocSum, retainedSum

given == <<expectedRoot, genesis, withAlloc>>
dumpState == <<header, prevKey, trie, byAddress, dumpSum>>
allocState == <<seen, entries, allocSum, retainedSum>>
checkVars == <<given, step, dumpState, allocState, problem>>

-----------------------------------------------------------------------------
(* Records of a dump *)

\* The key is taken from the record or derived from its address.
RecordKey(r) == IF r.key = NoKey THEN KeyOf[r.addr] ELSE r.key

\* Neither key nor address, or a key that is not the hash of the address.
BadKey(r) ==
  \/ r.addr = NoAddr /\ r.key = NoKey
  \/ r.addr # NoAddr /\ r.key # NoKey /\ r.key # KeyOf[r.addr]

\* The account a record belongs to; an old geth writes the zero address's
\* with a key only.
RecordAddress(r) ==
  IF r.addr = NoAddr /\ RecordKey(r) = KeyOf[ZeroAddress] THEN ZeroAddress ELSE r.addr

\* The code and storage written are not those the record's hashes commit to.
Altered(r) == r.code # r.account.code \/ r.storage # r.account.storage

-----------------------------------------------------------------------------
(* Entries of an allocation *)

\* parseQuantity and decodeHex reject the entry.
Unreadable(e) == e.balance >= Word \/ e.code = BadCode

\* The account a genesis entry creates: zero words are not stored.
AllocAccount(e) ==
  [e EXCEPT !.storage = IF @ \in ZeroSlots THEN NoStorage ELSE @]

\* One address spelled twice, or an entry that cannot be read.
BadGenesis == genesis.twice \/ \E a \in DOMAIN genesis.alloc : Unreadable(genesis.alloc[a])

InDump(a) == a \in DOMAIN byAddress
InBase(a) == a \in DOMAIN genesis.alloc
BaseAccount(a) == AllocAccount(genesis.alloc[a])
ProtectedBase(a) == InBase(a) /\ IsProtectedBaseEntry(genesis.alloc[a])

\* The addition wraps around.
IsProtectedMerge(got, d, b) ==
  /\ d.storage = NoStorage
  /\ d.code # NoCode => d.code = b.code
  /\ d.code = NoCode => d.nonce = 0
  /\ got = [b EXCEPT !.balance = (@ + d.balance) % Word]

KeptOverEmpty(a, got) ==
  InDump(a) /\ InBase(a) /\ IsEmptyAllocEntry(byAddress[a]) /\ got = BaseAccount(a)

ProtectedMerged(a, got) ==
  /\ InDump(a) /\ ProtectedBase(a)
  /\ IsProtectedMerge(got, byAddress[a], BaseAccount(a))

Carried(a, got) == ~InDump(a) /\ InBase(a) /\ got = BaseAccount(a)

\* Mutated form: a base entry kept over an empty L1 account is a surprise.
RetainsBase_MergedOrCarried(a, got) == ProtectedMerged(a, got) \/ Carried(a, got)

\* The entry holds on to the balance of the base genesis.
RetainsBase(a, got) == KeptOverEmpty(a, got) \/ ProtectedMerged(a, got) \/ Carried(a, got)

\* A protected base contract is never replaced by the dump account.
FromDump(a, got) == InDump(a) /\ ~ProtectedBase(a) /\ got = byAddress[a]

Explained(a, got) == RetainsBase(a, got) \/ FromDump(a, got)

CheckInit ==
  /\ expectedRoot \in ExpectedRoots
  /\ genesis \in Genesis
  /\ withAlloc \in BOOLEAN
  /\ step = "dump"
  /\ header = NoRoot
  /\ prevKey = -1
  /\ trie = {}
  /\ byAddress = <<>>
  /\ problem = FALSE
  /\ seen = {}
  /\ entries = <<>>
  /\ dumpSum = 0 /\ allocSum = 0 /\ retainedSum = 0

-----------------------------------------------------------------------------
(* Actions *)

\* A format error: the command exits at once.
Reject == step' = "failed" /\ UNCHANGED <<given, dumpState, allocState, problem>>

ReadHeader(line) ==
  /\ step = "dump"
  /\ line.type = "header"
  /\ header = NoRoot
  /\ header' = line.root
  /\ UNCHANGED <<given, step, prevKey, trie, byAddress, dumpSum, allocState, problem>>

\* Mutated form: balances are not confined to 256 bits.
ReadableRecord_AnyBalance(line) ==
  /\ line.type = "record"
  /\ header # NoRoot
  /\ ~BadKey(line)
  /\ RecordKey(line) > prevKey

\* A record that can be read: after the header, in trie order.
ReadableRecord(line) ==
  /\ line.type = "record"
  /\ header # NoRoot
  /\ ~BadKey(line)
  /\ RecordKey(line) > prevKey
  /\ line.account.balance < Word

ReadRecord(line) ==
  LET a == RecordAddress(line)
  IN  /\ step = "dump"
      /\ ReadableRecord(line)
      /\ prevKey' = RecordKey(line)
      /\ trie' = trie \cup {[key |-> RecordKey(line), account |-> line.account]}
      /\ dumpSum' = dumpSum + line.account.balance
      /\ byAddress' = IF a = NoAddr THEN byAddress
                      ELSE [x \in DOMAIN byAddress \cup {a} |->
                              IF x = a THEN line.account ELSE byAddress[x]]
      /\ problem' = (problem \/ Altered(line) \/ a = NoAddr)
      /\ UNCHANGED <<given, step, header, allocState>>

\* JSON that is no record, a second header, a record before the header, out
\* of order or with fields that cannot be read.
BadLine(line) ==
  /\ step = "dump"
  /\ \/ line.type = "junk"
     \/ line.type = "header" /\ header # NoRoot
     \/ line.type = "record" /\ ~ReadableRecord(line)
  /\ Reject

\* Mutated form: the header is trusted, the root is not recomputed.
DumpHolds_HeaderOnly ==
  /\ header # NoRoot
  /\ ~problem
  /\ trie # {}
  /\ expectedRoot # NoRoot => header = expectedRoot

\* What the end of the dump must find.
DumpHolds ==
  /\ header # NoRoot
  /\ ~problem
  /\ trie # {}
  /\ trie = header
  /\ expectedRoot # NoRoot => header = expectedRoot

EndDump ==
  /\ step = "dump"
  /\ IF ~DumpHolds THEN step' = "failed"
     ELSE IF ~withAlloc THEN step' = "verified"
     ELSE step' = IF BadGenesis THEN "failed" ELSE "alloc"
  /\ UNCHANGED <<given, dumpState, allocState, problem>>

ReadEntry(pair) ==
  LET a == pair.addr
      got == AllocAccount(pair.entry)
      fresh == a \notin seen
  IN  /\ step = "alloc"
      /\ Len(entries) < MaxEntries
      /\ ~Unreadable(pair.entry)
      /\ entries' = Append(entries, pair)
      /\ allocSum' = allocSum + got.balance
      /\ seen' = seen \cup {a}
      /\ problem' = (problem \/ ~fresh \/ ~Explained(a, got))
      /\ retainedSum' = IF fresh /\ RetainsBase(a, got)
                        THEN retainedSum + BaseAccount(a).balance ELSE retainedSum
      /\ UNCHANGED <<given, step, dumpState>>

BadEntry(pair) ==
  /\ step = "alloc"
  /\ Unreadable(pair.entry)
  /\ Reject

\* Only an empty account may be missing.
NothingMissing ==
  /\ \A a \in DOMAIN byAddress : a \in seen \/ IsEmptyAllocEntry(byAddress[a])
  /\ DOMAIN genesis.alloc \subseteq seen

\* Mutated form: the sums are compared as 256-bit words.
SumsAgree_Word == allocSum % Word = (dumpSum + retainedSum) % Word

SumsAgree == allocSum = dumpSum + retainedSum

\* The object ends where it should: all the entries are there.
EndAlloc ==
  /\ step = "alloc"
  /\ step' = IF ~problem /\ NothingMissing /\ SumsAgree THEN "verified" ELSE "failed"
  /\ UNCHANGED <<given, dumpState, allocState, problem>>

\* The file ends inside the object.
TruncatedAlloc ==
  /\ step = "alloc"
  /\ Reject

CheckNext ==
  \/ \E line \in DumpLines : ReadHeader(line) \/ ReadRecord(line) \/ BadLine(line)
  \/ EndDump
  \/ \E pair \in AllocPairs : ReadEntry(pair) \/ BadEntry(pair)
  \/ EndAlloc
  \/ TruncatedAlloc

CheckSpec == CheckInit /\ [][CheckNext]_checkVars

-----------------------------------------------------------------------------
(* Properties *)

AllocPair(p) == [addr |-> p.addr, entry |-> AllocAccount(p.entry)]

RootOf(state) == {[key |-> KeyOf[a], account |-> state[a]] : a \in DOMAIN state}

RecordsOf(state) == {[addr |-> a, account |-> state[a]] : a \in DOMAIN state}

EmptyAccounts == {a \in DOMAIN byAddress : IsEmptyAllocEntry(byAddress[a])}

CheckTypeOK ==
  /\ expectedRoot \in ExpectedRoots /\ genesis \in Genesis /\ withAlloc \in BOOLEAN
  /\ step \in {"dump", "alloc", "verified", "failed"}
  /\ prevKey \in Nat \cup {-1}
  /\ \A leaf \in trie : leaf.key \in Nat /\ leaf.key <= prevKey
  /\ DOMAIN byAddress \subseteq Addr
  /\ \A a \in DOMAIN byAddress : byAddress[a].balance < Word
  /\ problem \in BOOLEAN
  /\ seen = {entries[i].addr : i \in DOMAIN entries}
  /\ dumpSum \in Nat /\ allocSum \in Nat /\ retainedSum \in Nat

\* A verified dump holds the state its header names, completely: each leaf of
\* the state trie belongs to a known address, no account is there twice, and
\* the balance sum is the state's (README "dumpcheck").
VerifiedDumpIsState ==
  step \in {"alloc", "verified"} =>
    /\ header = RootOf(byAddress)
    /\ expectedRoot # NoRoot => expectedRoot = RootOf(byAddress)

\* A verified allocation is the merge of the dumped state and the base
\* genesis.  Each empty account may or may not have been pruned; nothing else
\* is left to choose.
VerifiedAllocIsMerge ==
  step = "verified" /\ withAlloc =>
    \E E \in SUBSET EmptyAccounts :
      LET R == {r \in RecordsOf(byAddress) : r.addr \notin E}
      IN  /\ Mergeable(genesis.alloc, R, FALSE)
          /\ {AllocPair(entries[i]) : i \in DOMAIN entries}
               = {AllocPair(m) : m \in Merged(genesis.alloc, R, FALSE)}
          /\ \A i, j \in DOMAIN entries : entries[i].addr = entries[j].addr => i = j
=============================================================================
