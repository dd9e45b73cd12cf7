-------------------------- MODULE DumpCheckProofs --------------------------
(***************************************************************************)
(* What a verified dump and a verified allocation are, for any dump, any   *)
(* base genesis and any allocation of any length, and any width of the     *)
(* balances.                                                               *)
(***************************************************************************)
EXTENDS DumpCheck, TLAPS

-----------------------------------------------------------------------------
(* Lemmas about records and entries *)

\* A record that can be read has a key, the hash of the address it belongs to
\* if it belongs to one.
LEMMA RecordOfDump ==
  ASSUME NEW line \in DumpLine, ReadableRecord(line)
  PROVE  /\ RecordKey(line) \in Nat
         /\ line.account \in Account /\ line.account.balance < Word
         /\ RecordAddress(line) \in Addr \cup {NoAddr}
         /\ RecordAddress(line) # NoAddr => RecordKey(line) = KeyOf[RecordAddress(line)]
  BY DumpCheckAssumption, AccountsAssumption
  DEF DumpLine, ReadableRecord, RecordKey, BadKey, RecordAddress

\* The account of an entry is an entry, with its balance and no zero slots.
LEMMA AllocAccountTyped ==
  ASSUME NEW e \in BaseEntry
  PROVE  /\ AllocAccount(e) \in BaseEntry
         /\ AllocAccount(e).balance = e.balance /\ AllocAccount(e).balance \in Nat
         /\ AllocAccount(AllocAccount(e)) = AllocAccount(e)
  BY DumpCheckAssumption, AccountsAssumption DEF BaseEntry, AllocAccount

LEMMA GenesisTyped ==
  ASSUME genesis \in Genesis
  PROVE  /\ DOMAIN genesis.alloc \subseteq Addr
         /\ \A a \in DOMAIN genesis.alloc :
              genesis.alloc[a] \in BaseEntry /\ BaseAccount(a) \in BaseEntry
  BY DumpCheckAssumption, AllocAccountTyped DEF BaseAccount

-----------------------------------------------------------------------------
(* The dump *)

\* Dumped accounts are accounts.
CheckTypes ==
  /\ CheckTypeOK
  /\ byAddress \in [DOMAIN byAddress -> Account]
  /\ entries \in Seq(AllocEntry)
  /\ step = "dump" => entries = <<>> /\ allocSum = 0 /\ retainedSum = 0

\* As long as nothing is wrong each leaf of the trie is an account whose
\* address is known; after the dump the root has been compared.
RootInv ==
  /\ step = "dump" /\ ~problem => trie = RootOf(byAddress)
  /\ step \in {"alloc", "verified"} =>
       /\ trie = RootOf(byAddress)
       /\ header = trie
       /\ expectedRoot # NoRoot => header = expectedRoot

\* A record adds its account under an address that was not there.
LEMMA RecordIsNew ==
  ASSUME CheckTypes, RootInv, ~problem, step = "dump",
         NEW line \in DumpLine, ReadableRecord(line), RecordAddress(line) # NoAddr
  PROVE  RecordAddress(line) \notin DOMAIN byAddress
  <1>. DEFINE a == RecordAddress(line)
  <1>1. RecordKey(line) \in Nat /\ RecordKey(line) = KeyOf[a] /\ RecordKey(line) > prevKey
    BY RecordOfDump DEF ReadableRecord
  <1>2. SUFFICES ASSUME a \in DOMAIN byAddress PROVE FALSE
    OBVIOUS
  <1>3. [key |-> KeyOf[a], account |-> byAddress[a]] \in trie
    BY <1>2 DEF RootInv, RootOf
  <1>4. KeyOf[a] <= prevKey
    BY <1>3 DEF CheckTypes, CheckTypeOK
  <1>. QED
    BY <1>1, <1>4 DEF CheckTypes, CheckTypeOK

\* The table after a record.
LEMMA RecordsTable ==
  ASSUME CheckTypes, NEW line \in DumpLine, ReadRecord(line)
  PROVE  /\ byAddress' \in [DOMAIN byAddress' -> Account]
         /\ DOMAIN byAddress' \subseteq Addr
         /\ \A a \in DOMAIN byAddress' : byAddress'[a].balance < Word
         /\ RecordAddress(line) = NoAddr => byAddress' = byAddress
         /\ RecordAddress(line) # NoAddr =>
              /\ DOMAIN byAddress' = DOMAIN byAddress \cup {RecordAddress(line)}
              /\ byAddress'[RecordAddress(line)] = line.account
              /\ \A a \in DOMAIN byAddress \ {RecordAddress(line)} : byAddress'[a] = byAddress[a]
  <1>1. /\ line.account \in Account /\ line.account.balance < Word
        /\ RecordAddress(line) \in Addr \cup {NoAddr}
    BY RecordOfDump DEF ReadRecord
  <1>2. CASE RecordAddress(line) = NoAddr
    BY <1>2 DEF ReadRecord, CheckTypes, CheckTypeOK
  <1>3. CASE RecordAddress(line) # NoAddr
    <2>1. byAddress' = [x \in DOMAIN byAddress \cup {RecordAddress(line)} |->
                          IF x = RecordAddress(line) THEN line.account ELSE byAddress[x]]
      BY <1>3 DEF ReadRecord
    <2>. QED
      BY <1>1, <1>3, <2>1 DEF CheckTypes, CheckTypeOK
  <1>. QED
    BY <1>2, <1>3

LEMMA DumpLineTyped ==
  ASSUME CheckTypes, NEW line \in DumpLine,
         ReadHeader(line) \/ ReadRecord(line) \/ BadLine(line)
  PROVE  CheckTypes'
  <1>1. CASE ReadHeader(line)
    BY <1>1 DEF ReadHeader, CheckTypes, CheckTypeOK, given, allocState
  <1>2. CASE BadLine(line)
    BY <1>2 DEF BadLine, Reject, CheckTypes, CheckTypeOK, given, allocState, dumpState
  <1>3. CASE ReadRecord(line)
    <2>1. /\ RecordKey(line) \in Nat /\ RecordKey(line) > prevKey
          /\ line.account \in Account /\ line.account.balance \in Nat
      BY <1>3, RecordOfDump DEF ReadRecord, ReadableRecord, Account
    <2>2. UNCHANGED <<expectedRoot, genesis, withAlloc, step, seen, entries, allocSum, retainedSum>>
      BY <1>3 DEF ReadRecord, given, allocState
    <2>3. prevKey' \in Nat /\ \A leaf \in trie' : leaf.key \in Nat /\ leaf.key <= prevKey'
      BY <1>3, <2>1 DEF ReadRecord, CheckTypes, CheckTypeOK
    <2>4. dumpSum' \in Nat /\ problem' \in BOOLEAN
      BY <1>3, <2>1 DEF ReadRecord, CheckTypes, CheckTypeOK
    <2>. QED
      BY <1>3, <2>2, <2>3, <2>4, RecordsTable DEF CheckTypes, CheckTypeOK
  <1>. QED
    BY <1>1, <1>2, <1>3

LEMMA DumpLineRoot ==
  ASSUME CheckTypes, RootInv, NEW line \in DumpLine,
         ReadHeader(line) \/ ReadRecord(line) \/ BadLine(line)
  PROVE  RootInv'
  <1>1. CASE ReadHeader(line)
    BY <1>1 DEF ReadHeader, RootInv, RootOf, given
  <1>2. CASE BadLine(line)
    BY <1>2 DEF BadLine, Reject, RootInv
  <1>3. CASE ReadRecord(line)
    <2>. SUFFICES ASSUME ~problem' PROVE trie' = RootOf(byAddress')
      BY <1>3 DEF ReadRecord, RootInv
    <2>. DEFINE a == RecordAddress(line)
    <2>1. ~problem /\ a # NoAddr /\ step = "dump" /\ ReadableRecord(line)
      BY <1>3 DEF ReadRecord
    <2>2. /\ DOMAIN byAddress' = DOMAIN byAddress \cup {a}
          /\ byAddress'[a] = line.account
          /\ \A x \in DOMAIN byAddress \ {a} : byAddress'[x] = byAddress[x]
      BY <1>3, <2>1, RecordsTable
    <2>3. a \notin DOMAIN byAddress
      BY <2>1, RecordIsNew
    <2>4. RecordKey(line) = KeyOf[a]
      BY <2>1, RecordOfDump
    <2>5. RootOf(byAddress') = RootOf(byAddress) \cup {[key |-> KeyOf[a], account |-> line.account]}
      BY <2>2, <2>3 DEF RootOf
    <2>. QED
      BY <1>3, <2>1, <2>4, <2>5 DEF ReadRecord, RootInv
  <1>. QED
    BY <1>1, <1>2, <1>3

-----------------------------------------------------------------------------
(* The balances of the dump *)

\* F gives, for each set of dumped addresses, the sum of their balances: it
\* grows by an account's balance with the account, whatever the order.
Balances(F) ==
  /\ F \in [SUBSET DOMAIN byAddress -> Nat]
  /\ F[{}] = 0
  /\ \A S \in SUBSET DOMAIN byAddress : \A a \in DOMAIN byAddress \ S :
       F[S \cup {a}] = F[S] + byAddress[a].balance

\* More accounts have no less balance, and no more if theirs is 0.
Monotone(F) ==
  \A S, T \in SUBSET DOMAIN byAddress : S \subseteq T =>
    /\ F[S] <= F[T]
    /\ (\A a \in T \ S : byAddress[a].balance = 0) => F[S] = F[T]

SumOfDump(F) == Balances(F) /\ Monotone(F) /\ F[DOMAIN byAddress] = dumpSum

SumInv == (step = "dump" /\ ~problem) \/ step \in {"alloc", "verified"} => \E F : SumOfDump(F)

\* The sums over the sets with the new account extend the sums over the sets
\* without it.
LEMMA RecordSums ==
  ASSUME CheckTypes, RootInv, SumInv, NEW line \in DumpLine, ReadRecord(line)
  PROVE  SumInv'
  <1>. SUFFICES ASSUME ~problem' PROVE \E F : SumOfDump(F)'
    BY DEF ReadRecord, SumInv
  <1>. DEFINE a == RecordAddress(line)
              d == line.account.balance
              D == DOMAIN byAddress
  <1>1. ~problem /\ a # NoAddr /\ step = "dump" /\ ReadableRecord(line)
    BY DEF ReadRecord
  <1>2. /\ DOMAIN byAddress' = D \cup {a} /\ a \notin D
        /\ byAddress'[a].balance = d
        /\ \A x \in D : byAddress'[x] = byAddress[x]
    BY <1>1, RecordsTable, RecordIsNew
  <1>3. d \in Nat /\ dumpSum' = dumpSum + d
    BY <1>1, RecordOfDump DEF ReadRecord, Account
  <1>4. PICK F : SumOfDump(F)
    BY <1>1 DEF SumInv
  <1>. DEFINE G == [S \in SUBSET (D \cup {a}) |-> IF a \in S THEN F[S \ {a}] + d ELSE F[S]]
  <1>5. \A S \in SUBSET (D \cup {a}) : S \ {a} \in SUBSET D /\ (a \notin S => S \in SUBSET D)
    OBVIOUS
  <1>6. F \in [SUBSET D -> Nat] /\ F[{}] = 0
    BY <1>4 DEF SumOfDump, Balances
  <1>7. G \in [SUBSET (D \cup {a}) -> Nat]
    BY <1>3, <1>5, <1>6
  <1>8. G[{}] = 0
    BY <1>6
  <1>. HIDE DEF G
  <1>9. ASSUME NEW S \in SUBSET (D \cup {a}), NEW b \in (D \cup {a}) \ S
        PROVE  G[S \cup {b}] = G[S] + byAddress'[b].balance
    <2>1. CASE b = a
      <3>1. (S \cup {a}) \ {a} = S /\ S \cup {a} \in SUBSET (D \cup {a}) /\ a \notin S
        BY <1>9, <2>1
      <3>2. G[S \cup {a}] = F[S] + d /\ G[S] = F[S]
        BY <3>1, <1>9 DEF G
      <3>. QED
        BY <2>1, <3>2, <1>2
    <2>2. CASE b # a /\ a \in S
      <3>1. (S \cup {b}) \ {a} = (S \ {a}) \cup {b} /\ S \cup {b} \in SUBSET (D \cup {a})
        BY <1>9, <2>2
      <3>2. G[S \cup {b}] = F[(S \ {a}) \cup {b}] + d /\ G[S] = F[S \ {a}] + d
        BY <3>1, <2>2, <1>9 DEF G
      <3>3. S \ {a} \in SUBSET D /\ b \in D \ (S \ {a}) /\ byAddress[b].balance \in Nat
        BY <1>9, <2>2 DEF CheckTypes, Account
      <3>4. F[(S \ {a}) \cup {b}] = F[S \ {a}] + byAddress[b].balance /\ F[S \ {a}] \in Nat
        BY <1>4, <1>6, <3>3 DEF SumOfDump, Balances
      <3>. QED
        BY <1>2, <1>3, <3>2, <3>3, <3>4
    <2>3. CASE b # a /\ a \notin S
      <3>1. S \cup {b} \in SUBSET (D \cup {a}) /\ a \notin S \cup {b} /\ S \in SUBSET D /\ b \in D \ S
        BY <1>9, <2>3
      <3>2. G[S \cup {b}] = F[S \cup {b}] /\ G[S] = F[S]
        BY <3>1, <1>9 DEF G
      <3>. QED
        BY <1>2, <1>4, <3>1, <3>2 DEF SumOfDump, Balances
    <2>. QED
      BY <2>1, <2>2, <2>3
  <1>10. ASSUME NEW S \in SUBSET (D \cup {a}), NEW T \in SUBSET (D \cup {a}), S \subseteq T
         PROVE  /\ G[S] <= G[T]
                /\ (\A b \in T \ S : byAddress'[b].balance = 0) => G[S] = G[T]
    <2>1. /\ S \ {a} \in SUBSET D /\ T \ {a} \in SUBSET D /\ S \ {a} \subseteq T \ {a}
          /\ F[S \ {a}] \in Nat /\ F[T \ {a}] \in Nat
      BY <1>6, <1>10
    <2>2. /\ F[S \ {a}] <= F[T \ {a}]
          /\ (\A b \in (T \ {a}) \ (S \ {a}) : byAddress[b].balance = 0) => F[S \ {a}] = F[T \ {a}]
      BY <1>4, <2>1 DEF SumOfDump, Monotone
    <2>3. /\ G[S] = IF a \in S THEN F[S \ {a}] + d ELSE F[S \ {a}]
          /\ G[T] = IF a \in T THEN F[T \ {a}] + d ELSE F[T \ {a}]
      <3>1. (a \notin S => S \ {a} = S) /\ (a \notin T => T \ {a} = T)
        OBVIOUS
      <3>. QED
        BY <3>1 DEF G
    <2>4. G[S] <= G[T]
      BY <1>3, <1>10, <2>1, <2>2, <2>3
    <2>5. ASSUME \A b \in T \ S : byAddress'[b].balance = 0 PROVE G[S] = G[T]
      <3>1. \A b \in (T \ {a}) \ (S \ {a}) : byAddress[b].balance = 0
        BY <1>2, <2>5
      <3>2. a \in T \ S => d = 0
        BY <1>2, <2>5
      <3>. QED
        BY <1>3, <1>10, <2>1, <2>2, <2>3, <3>1, <3>2
    <2>. QED
      BY <2>4, <2>5
  <1>11. G[D \cup {a}] = dumpSum + d
    <2>1. (D \cup {a}) \ {a} = D /\ D \cup {a} \in SUBSET (D \cup {a})
      BY <1>2
    <2>2. F[D] = dumpSum
      BY <1>4 DEF SumOfDump
    <2>. QED
      BY <2>1, <2>2 DEF G
  <1>. PICK H : H = G
    OBVIOUS
  <1>12. Balances(H)'
    BY <1>2, <1>7, <1>8, <1>9 DEF Balances
  <1>13. Monotone(H)'
    BY <1>2, <1>10 DEF Monotone
  <1>. QED
    BY <1>2, <1>3, <1>11, <1>12, <1>13 DEF SumOfDump

-----------------------------------------------------------------------------
(* The allocation *)

LEMMA Modulo ==
  ASSUME NEW n \in Nat
  PROVE  /\ n % Word \in Nat /\ n % Word < Word
         /\ n < Word => n % Word = n
  BY DumpCheckAssumption

\* The account an entry creates, and what the entry retains of the base.
Created(pair) == AllocAccount(pair.entry)

Retained(pair) ==
  IF RetainsBase(pair.addr, Created(pair)) THEN BaseAccount(pair.addr).balance ELSE 0

Dumped(a) == IF InDump(a) THEN byAddress[a].balance ELSE 0

\* A merged balance that does not fit.
Wraps(pair) ==
  /\ ProtectedMerged(pair.addr, Created(pair))
  /\ byAddress[pair.addr].balance + BaseAccount(pair.addr).balance >= Word

\* An explained entry has the dumped balance and the one it retains, or less
\* when their sum does not fit.
LEMMA ExplainedBalance ==
  ASSUME CheckTypes, NEW pair \in AllocEntry, Explained(pair.addr, Created(pair))
  PROVE  /\ Retained(pair) \in Nat /\ Dumped(pair.addr) \in Nat /\ Created(pair).balance \in Nat
         /\ ~Wraps(pair) => Created(pair).balance = Dumped(pair.addr) + Retained(pair)
         /\ Wraps(pair) => Created(pair).balance < Dumped(pair.addr) + Retained(pair)
  <1>. DEFINE a == pair.addr
              got == Created(pair)
  <1>1. /\ InBase(a) => BaseAccount(a) \in BaseEntry
        /\ InDump(a) => byAddress[a] \in Account
        /\ got \in BaseEntry
    BY GenesisTyped, AllocAccountTyped
    DEF CheckTypes, CheckTypeOK, InBase, InDump, Created, AllocEntry
  <1>2. /\ InBase(a) => BaseAccount(a).balance \in Nat
        /\ InDump(a) => byAddress[a].balance \in Nat
        /\ got.balance \in Nat
    BY <1>1 DEF BaseEntry, Account
  <1>3. Retained(pair) \in Nat /\ Dumped(a) \in Nat
    BY <1>2 DEF Retained, Dumped, RetainsBase, KeptOverEmpty, ProtectedMerged, ProtectedBase, Carried
  <1>4. CASE KeptOverEmpty(a, got)
    <2>1. Retained(pair) = BaseAccount(a).balance /\ got = BaseAccount(a) /\ Dumped(a) = 0 /\ InBase(a)
      BY <1>4 DEF Retained, RetainsBase, KeptOverEmpty, Dumped, IsEmptyAllocEntry
    <2>2. ~Wraps(pair)
      <3>1. SUFFICES ASSUME Wraps(pair) PROVE FALSE
        OBVIOUS
      <3>2. /\ IsProtectedMerge(got, byAddress[a], BaseAccount(a))
            /\ BaseAccount(a).balance >= Word /\ byAddress[a].balance = 0
        BY <3>1, <1>2, <1>4 DEF Wraps, ProtectedMerged, KeptOverEmpty, IsEmptyAllocEntry, InDump
      <3>3. got.balance = BaseAccount(a).balance % Word
        BY <3>2, <2>1, <1>1, <1>2 DEF IsProtectedMerge, BaseEntry
      <3>. QED
        BY <3>2, <3>3, <2>1, <1>2, Modulo, DumpCheckAssumption
    <2>. QED
      BY <1>2, <1>3, <2>1, <2>2
  <1>5. CASE ProtectedMerged(a, got)
    <2>. DEFINE sum == byAddress[a].balance + BaseAccount(a).balance
    <2>1. InBase(a) /\ InDump(a) /\ IsProtectedMerge(got, byAddress[a], BaseAccount(a))
      BY <1>5 DEF ProtectedMerged, ProtectedBase
    <2>2. sum \in Nat /\ got.balance = sum % Word
      BY <1>1, <1>2, <2>1 DEF IsProtectedMerge, BaseEntry
    <2>3. Retained(pair) = BaseAccount(a).balance /\ Dumped(a) = byAddress[a].balance
      BY <1>5, <2>1 DEF Retained, RetainsBase, Dumped
    <2>4. Wraps(pair) <=> sum >= Word
      BY <1>5 DEF Wraps
    <2>. QED
      BY <1>2, <1>3, <2>1, <2>2, <2>3, <2>4, Modulo, DumpCheckAssumption
  <1>6. CASE Carried(a, got)
    BY <1>2, <1>3, <1>6 DEF Carried, Retained, RetainsBase, Dumped, Wraps, ProtectedMerged
  <1>7. CASE FromDump(a, got) /\ ~RetainsBase(a, got)
    BY <1>2, <1>3, <1>7 DEF FromDump, Retained, RetainsBase, Dumped, Wraps
  <1>. QED
    BY <1>4, <1>5, <1>6, <1>7 DEF Explained, RetainsBase

Read == step \in {"alloc", "verified"}

\* As long as nothing is wrong no address is there twice and each entry is
\* explained.
EntriesInv ==
  Read /\ ~problem =>
    /\ \A i, j \in DOMAIN entries : entries[i].addr = entries[j].addr => i = j
    /\ \A i \in DOMAIN entries : Explained(entries[i].addr, Created(entries[i]))

SeenInDump == seen \cap DOMAIN byAddress

\* What the entries hold is what the dump has at their addresses and what they
\* retain, but for balances that did not fit.
AllocSums(F) ==
  /\ F[SeenInDump] \in Nat
  /\ IF \E i \in DOMAIN entries : Wraps(entries[i])
     THEN allocSum < F[SeenInDump] + retainedSum
     ELSE allocSum = F[SeenInDump] + retainedSum

AllocInv == Read /\ ~problem => \A F : SumOfDump(F) => AllocSums(F)

\* Only an allocation without a problem, without a gap and with the right sum
\* is verified.
VerifiedInv ==
  /\ step = "verified" /\ withAlloc => ~problem /\ NothingMissing /\ SumsAgree
  /\ step = "alloc" => withAlloc

CheckInv == CheckTypes /\ RootInv /\ SumInv /\ EntriesInv /\ AllocInv /\ VerifiedInv

LEMMA CheckInitially == CheckInit => CheckInv
  <1>. SUFFICES ASSUME CheckInit PROVE CheckInv
    OBVIOUS
  <1>1. DOMAIN byAddress = {} /\ byAddress = [a \in {} |-> 0]
    BY DEF CheckInit
  <1>2. CheckTypes
    <2>1. byAddress \in [DOMAIN byAddress -> Account]
      BY <1>1
    <2>2. entries \in Seq(AllocEntry) /\ DOMAIN entries = {}
      BY DEF CheckInit
    <2>3. CheckTypeOK
      BY <1>1, <2>2 DEF CheckInit, CheckTypeOK
    <2>. QED
      BY <2>1, <2>2, <2>3 DEF CheckInit, CheckTypes
  <1>3. RootInv
    BY <1>1 DEF CheckInit, RootInv, RootOf
  <1>4. SumInv
    <2>. DEFINE Z == [S \in SUBSET {} |-> 0]
    <2>1. SumOfDump(Z)
      BY <1>1 DEF CheckInit, SumOfDump, Balances, Monotone
    <2>. QED
      BY <2>1 DEF SumInv
  <1>. QED
    BY <1>2, <1>3, <1>4 DEF CheckInit, CheckInv, EntriesInv, AllocInv, VerifiedInv, Read

\* Everything the invariant speaks of, but the step.
SameData == UNCHANGED <<given, dumpState, allocState, problem>>

LEMMA SameDataDefs ==
  ASSUME CheckTypes, SameData
  PROVE  /\ \A F : SumOfDump(F)' <=> SumOfDump(F)
         /\ \A F : AllocSums(F)' <=> AllocSums(F)
         /\ step' \in {"dump", "alloc", "verified", "failed"} /\ (step' = "dump" => step = "dump")
              => CheckTypes'
         /\ RootOf(byAddress)' = RootOf(byAddress)
         /\ \A i \in DOMAIN entries : 
              Explained(entries[i].addr, Created(entries[i]))'
                <=> Explained(entries[i].addr, Created(entries[i]))
  <1>. USE DEF SameData, given, dumpState, allocState
  <1>1. \A F : SumOfDump(F)' <=> SumOfDump(F)
    BY DEF SumOfDump, Balances, Monotone
  <1>2. \A F : AllocSums(F)' <=> AllocSums(F)
    BY DEF AllocSums, SeenInDump, Wraps, ProtectedMerged, InDump, ProtectedBase, InBase, BaseAccount,
           Created
  <1>3. step' \in {"dump", "alloc", "verified", "failed"} /\ (step' = "dump" => step = "dump")
          => CheckTypes'
    BY DEF CheckTypes, CheckTypeOK
  <1>4. RootOf(byAddress)' = RootOf(byAddress)
    BY DEF RootOf
  <1>5. \A i \in DOMAIN entries :
          Explained(entries[i].addr, Created(entries[i]))'
            <=> Explained(entries[i].addr, Created(entries[i]))
    BY DEF Explained, RetainsBase, KeptOverEmpty, ProtectedMerged, Carried, FromDump, InDump, InBase,
           BaseAccount, ProtectedBase, Created
  <1>. QED
    BY <1>1, <1>2, <1>3, <1>4, <1>5

LEMMA RejectKeeps ==
  ASSUME CheckInv, Reject
  PROVE  CheckInv'
  <1>1. SameData /\ step' = "failed"
    BY DEF Reject, SameData
  <1>2. CheckTypes'
    BY <1>1, SameDataDefs DEF CheckInv
  <1>. QED
    BY <1>1, <1>2 DEF CheckInv, RootInv, SumInv, EntriesInv, AllocInv, VerifiedInv, Read

LEMMA SameCheckKeeps ==
  ASSUME CheckInv, UNCHANGED checkVars
  PROVE  CheckInv'
  <1>1. SameData /\ step' = step
    BY DEF checkVars, SameData
  <1>2. CheckTypes'
    BY <1>1, SameDataDefs DEF CheckInv, CheckTypes, CheckTypeOK
  <1>3. RootInv'
    BY <1>1, SameDataDefs DEF CheckInv, RootInv, SameData, given, dumpState
  <1>4. SumInv'
    BY <1>1, SameDataDefs DEF CheckInv, SumInv, SameData
  <1>5. EntriesInv'
    BY <1>1, SameDataDefs DEF CheckInv, EntriesInv, SameData, allocState, Read
  <1>6. AllocInv'
    BY <1>1, SameDataDefs DEF CheckInv, AllocInv, SameData, Read
  <1>7. VerifiedInv'
    BY <1>1
    DEF CheckInv, VerifiedInv, SameData, given, allocState, dumpState, NothingMissing, SumsAgree
  <1>. QED
    BY <1>2, <1>3, <1>4, <1>5, <1>6, <1>7 DEF CheckInv

LEMMA DumpLineKeeps ==
  ASSUME CheckInv, NEW line \in DumpLine,
         ReadHeader(line) \/ ReadRecord(line) \/ BadLine(line)
  PROVE  CheckInv'
  <1>1. CASE BadLine(line)
    BY <1>1, RejectKeeps DEF BadLine
  <1>2. CASE ReadHeader(line) \/ ReadRecord(line)
    <2>1. step = "dump" /\ step' = "dump"
      BY <1>2 DEF ReadHeader, ReadRecord
    <2>2. CheckTypes' /\ RootInv'
      BY <1>2, DumpLineTyped, DumpLineRoot DEF CheckInv
    <2>3. SumInv'
      <3>1. CASE ReadRecord(line)
        BY <3>1, RecordSums DEF CheckInv
      <3>2. CASE ReadHeader(line)
        <4>1. UNCHANGED <<byAddress, dumpSum, problem>>
          BY <3>2 DEF ReadHeader
        <4>2. \A F : SumOfDump(F)' <=> SumOfDump(F)
          BY <4>1 DEF SumOfDump, Balances, Monotone
        <4>. QED
          BY <2>1, <4>1, <4>2 DEF CheckInv, SumInv
      <3>. QED
        BY <1>2, <3>1, <3>2
    <2>. QED
      BY <2>1, <2>2, <2>3 DEF CheckInv, EntriesInv, AllocInv, VerifiedInv, Read
  <1>. QED
    BY <1>1, <1>2

LEMMA EndDumpKeeps ==
  ASSUME CheckInv, EndDump
  PROVE  CheckInv'
  <1>1. /\ SameData /\ step = "dump" /\ step' \in {"alloc", "verified", "failed"}
        /\ step' # "failed" => DumpHolds
        /\ step' = "alloc" <=> (step' # "failed" /\ withAlloc)
    BY DEF EndDump, SameData, CheckInv, CheckTypes, CheckTypeOK
  <1>2. CheckTypes'
    BY <1>1, SameDataDefs DEF CheckInv
  <1>3. RootInv'
    BY <1>1, SameDataDefs DEF CheckInv, RootInv, DumpHolds, SameData, given, dumpState
  <1>4. SumInv'
    BY <1>1, SameDataDefs DEF CheckInv, SumInv, DumpHolds
  <1>5. entries = <<>> /\ DOMAIN entries = {} /\ seen = {} /\ allocSum = 0 /\ retainedSum = 0
    BY <1>1 DEF CheckInv, CheckTypes, CheckTypeOK
  <1>6. EntriesInv'
    BY <1>1, <1>5 DEF EntriesInv, SameData, allocState
  <1>7. \A F : SumOfDump(F) => AllocSums(F)
    BY <1>5 DEF SumOfDump, Balances, AllocSums, SeenInDump
  <1>8. AllocInv'
    BY <1>1, <1>7, SameDataDefs DEF CheckInv, AllocInv
  <1>9. VerifiedInv'
    BY <1>1 DEF VerifiedInv, SameData, given
  <1>. QED
    BY <1>2, <1>3, <1>4, <1>6, <1>8, <1>9 DEF CheckInv

LEMMA EndAllocKeeps ==
  ASSUME CheckInv, EndAlloc
  PROVE  CheckInv'
  <1>1. /\ SameData /\ step = "alloc" /\ step' \in {"verified", "failed"}
        /\ step' = "verified" => ~problem /\ NothingMissing /\ SumsAgree
    BY DEF EndAlloc, SameData
  <1>2. CheckTypes'
    BY <1>1, SameDataDefs DEF CheckInv
  <1>3. RootInv'
    BY <1>1, SameDataDefs DEF CheckInv, RootInv, SameData, given, dumpState
  <1>4. SumInv'
    BY <1>1, SameDataDefs DEF CheckInv, SumInv
  <1>5. EntriesInv'
    BY <1>1, SameDataDefs DEF CheckInv, EntriesInv, SameData, allocState, Read
  <1>6. AllocInv'
    BY <1>1, SameDataDefs DEF CheckInv, AllocInv, SameData, Read
  <1>7. VerifiedInv'
    BY <1>1 DEF VerifiedInv, SameData, given, dumpState, allocState, NothingMissing, SumsAgree
  <1>. QED
    BY <1>2, <1>3, <1>4, <1>5, <1>6, <1>7 DEF CheckInv

\* An entry keeps what is known of the others, and of the sums.
LEMMA EntryKeeps ==
  ASSUME CheckInv, NEW pair \in AllocEntry, ReadEntry(pair)
  PROVE  CheckInv'
  <1>. DEFINE a == pair.addr
              got == Created(pair)
  <1>1. /\ step = "alloc" /\ step' = "alloc"
        /\ UNCHANGED <<expectedRoot, genesis, withAlloc, header, prevKey, trie, byAddress, dumpSum>>
        /\ entries' = Append(entries, pair) /\ seen' = seen \cup {a}
        /\ allocSum' = allocSum + got.balance
        /\ problem' = (problem \/ a \in seen \/ ~Explained(a, got))
        /\ retainedSum' = IF a \notin seen /\ RetainsBase(a, got)
                          THEN retainedSum + BaseAccount(a).balance ELSE retainedSum
    BY DEF ReadEntry, Created, given, dumpState
  <1>2. /\ a \in Addr /\ got \in BaseEntry /\ got.balance \in Nat
        /\ entries \in Seq(AllocEntry) /\ entries' \in Seq(AllocEntry)
        /\ RetainsBase(a, got) => BaseAccount(a).balance \in Nat
    BY <1>1, AllocAccountTyped, GenesisTyped
    DEF AllocEntry, Created, BaseEntry, CheckInv, CheckTypes, CheckTypeOK, RetainsBase, KeptOverEmpty,
        ProtectedMerged, ProtectedBase, Carried, InBase
  <1>3. /\ DOMAIN entries = 1..Len(entries) /\ Len(entries) \in Nat
        /\ DOMAIN entries' = 1..Len(entries) + 1
        /\ \A i \in DOMAIN entries : entries'[i] = entries[i]
        /\ entries'[Len(entries) + 1] = pair
    BY <1>1, <1>2
  <1>4. seen' = {entries'[i].addr : i \in DOMAIN entries'}
    <2>1. seen = {entries[i].addr : i \in DOMAIN entries}
      BY DEF CheckInv, CheckTypes, CheckTypeOK
    <2>2. DOMAIN entries' = DOMAIN entries \cup {Len(entries) + 1}
      BY <1>3
    <2>. QED
      BY <1>1, <1>3, <2>1, <2>2
  <1>5. CheckTypes'
    <2>1. CheckTypes
      BY DEF CheckInv
    <2>2. allocSum' \in Nat /\ retainedSum' \in Nat /\ problem' \in BOOLEAN
      BY <1>1, <1>2, <2>1 DEF CheckTypes, CheckTypeOK
    <2>3. byAddress' \in [DOMAIN byAddress' -> Account]
      BY <1>1, <2>1 DEF CheckTypes
    <2>4. CheckTypeOK'
      BY <1>1, <1>4, <2>1, <2>2 DEF CheckTypes, CheckTypeOK
    <2>. QED
      BY <1>1, <1>2, <2>3, <2>4 DEF CheckTypes
  <1>6. RootInv'
    BY <1>1 DEF CheckInv, RootInv, RootOf
  <1>7. \A F : SumOfDump(F)' <=> SumOfDump(F)
    BY <1>1 DEF SumOfDump, Balances, Monotone
  <1>8. SumInv'
    BY <1>1, <1>7 DEF CheckInv, SumInv
  <1>9. \A i \in DOMAIN entries' :
          /\ Explained(entries[i].addr, Created(entries[i]))'
               <=> Explained(entries'[i].addr, Created(entries'[i]))
          /\ Wraps(entries[i])' <=> Wraps(entries'[i])
    BY <1>1
    DEF Explained, RetainsBase, KeptOverEmpty, ProtectedMerged, Carried, FromDump, InDump, InBase,
        BaseAccount, ProtectedBase, Created, Wraps
  <1>10. EntriesInv'
    <2>. SUFFICES ASSUME ~problem'
                  PROVE  /\ \A i, j \in DOMAIN entries' : entries'[i].addr = entries'[j].addr => i = j
                         /\ \A i \in DOMAIN entries' :
                              Explained(entries'[i].addr, Created(entries'[i]))
      BY <1>9 DEF EntriesInv
    <2>1. ~problem /\ a \notin seen /\ Explained(a, got)
      BY <1>1
    <2>2. /\ \A i, j \in DOMAIN entries : entries[i].addr = entries[j].addr => i = j
          /\ \A i \in DOMAIN entries : Explained(entries[i].addr, Created(entries[i]))
          /\ \A i \in DOMAIN entries : entries[i].addr # a
      BY <1>1, <2>1 DEF CheckInv, EntriesInv, Read, CheckTypes, CheckTypeOK
    <2>. QED
      BY <1>3, <2>1, <2>2
  <1>11. AllocInv'
    <2>. SUFFICES ASSUME ~problem', NEW F, SumOfDump(F) PROVE AllocSums(F)'
      BY <1>7 DEF AllocInv
    <2>1. ~problem /\ a \notin seen /\ Explained(a, got)
      BY <1>1
    <2>2. AllocSums(F)
      BY <1>1, <2>1 DEF CheckInv, AllocInv, Read
    <2>3. F[SeenInDump'] = F[SeenInDump] + Dumped(a)
      <3>1. CASE a \in DOMAIN byAddress
        <4>1. SeenInDump' = SeenInDump \cup {a} /\ a \in DOMAIN byAddress \ SeenInDump
          BY <1>1, <2>1, <3>1 DEF SeenInDump
        <4>2. SeenInDump \in SUBSET DOMAIN byAddress
          BY DEF SeenInDump
        <4>. QED
          BY <3>1, <4>1, <4>2 DEF SumOfDump, Balances, Dumped, InDump
      <3>2. CASE a \notin DOMAIN byAddress
        <4>1. SeenInDump' = SeenInDump
          BY <1>1, <3>2 DEF SeenInDump
        <4>. QED
          BY <2>2, <3>2, <4>1 DEF Dumped, InDump, AllocSums
      <3>. QED
        BY <3>1, <3>2
    <2>4. retainedSum' = retainedSum + Retained(pair)
      BY <1>1, <2>1 DEF Retained, CheckInv, CheckTypes, CheckTypeOK
    <2>5. /\ Retained(pair) \in Nat /\ Dumped(a) \in Nat /\ got.balance \in Nat
          /\ ~Wraps(pair) => got.balance = Dumped(a) + Retained(pair)
          /\ Wraps(pair) => got.balance < Dumped(a) + Retained(pair)
      BY <2>1, ExplainedBalance DEF CheckInv
    <2>6. (\E i \in DOMAIN entries' : Wraps(entries[i])')
            <=> (\E i \in DOMAIN entries : Wraps(entries[i])) \/ Wraps(pair)
      BY <1>3, <1>9
    <2>7. F[SeenInDump] \in Nat /\ allocSum \in Nat /\ retainedSum \in Nat
      BY <2>2 DEF AllocSums, CheckInv, CheckTypes, CheckTypeOK
    <2>8. F[SeenInDump'] \in Nat
      BY <2>3, <2>5, <2>7
    <2>9. allocSum' = allocSum + got.balance
      BY <1>1
    <2>. HIDE DEF got
    <2>10. (\E i \in DOMAIN entries : Wraps(entries[i])) \/ Wraps(pair)
             => allocSum' < F[SeenInDump'] + retainedSum'
      BY <2>2, <2>3, <2>4, <2>5, <2>7, <2>9 DEF AllocSums
    <2>11. ~((\E i \in DOMAIN entries : Wraps(entries[i])) \/ Wraps(pair))
             => allocSum' = F[SeenInDump'] + retainedSum'
      BY <2>2, <2>3, <2>4, <2>5, <2>7, <2>9 DEF AllocSums
    <2>. QED
      BY <2>6, <2>8, <2>10, <2>11 DEF AllocSums
  <1>12. VerifiedInv'
    BY <1>1 DEF CheckInv, VerifiedInv
  <1>. QED
    BY <1>5, <1>6, <1>8, <1>10, <1>11, <1>12 DEF CheckInv

LEMMA CheckNextKeeps == CheckInv /\ [CheckNext]_checkVars => CheckInv'
  <1>. SUFFICES ASSUME CheckInv, [CheckNext]_checkVars PROVE CheckInv'
    OBVIOUS
  <1>1. CASE UNCHANGED checkVars
    BY <1>1, SameCheckKeeps
  <1>2. ASSUME NEW line \in DumpLines, ReadHeader(line) \/ ReadRecord(line) \/ BadLine(line)
        PROVE  CheckInv'
    <2>1. line \in DumpLine
      BY DumpCheckAssumption
    <2>. QED
      BY <1>2, <2>1, DumpLineKeeps
  <1>3. CASE EndDump
    BY <1>3, EndDumpKeeps
  <1>4. ASSUME NEW pair \in AllocPairs, ReadEntry(pair) \/ BadEntry(pair)
        PROVE  CheckInv'
    <2>1. pair \in AllocEntry
      BY DumpCheckAssumption
    <2>2. CASE ReadEntry(pair)
      BY <2>1, <2>2, EntryKeeps
    <2>3. CASE BadEntry(pair)
      BY <2>3, RejectKeeps DEF BadEntry
    <2>. QED
      BY <1>4, <2>2, <2>3
  <1>5. CASE EndAlloc
    BY <1>5, EndAllocKeeps
  <1>6. CASE TruncatedAlloc
    BY <1>6, RejectKeeps DEF TruncatedAlloc
  <1>. QED
    BY <1>1, <1>2, <1>3, <1>4, <1>5, <1>6 DEF CheckNext

LEMMA CheckInvariant == CheckSpec => []CheckInv
  <1>. QED
    BY CheckInitially, CheckNextKeeps, PTL DEF CheckSpec

-----------------------------------------------------------------------------
(* What is verified *)

\* Keys only rise, no balance exceeds 256 bits, the addresses seen are those
\* of the entries.
THEOREM CheckTypeCorrect == CheckSpec => []CheckTypeOK
  <1>1. CheckInv => CheckTypeOK
    BY DEF CheckInv, CheckTypes
  <1>. QED
    BY <1>1, CheckInvariant, PTL

\* A verified dump is the state its header names, complete and without a
\* duplicate, and the one --expected-root names.
THEOREM VerifiedDumpHolds == CheckSpec => []VerifiedDumpIsState
  <1>1. CheckInv => VerifiedDumpIsState
    BY DEF CheckInv, RootInv, VerifiedDumpIsState
  <1>. QED
    BY <1>1, CheckInvariant, PTL

\* The sum check of the allocation notices each balance that did not fit.
LEMMA NoneWraps ==
  ASSUME CheckInv, step = "verified", withAlloc
  PROVE  \A i \in DOMAIN entries : ~Wraps(entries[i])
  <1>1. ~problem /\ SumsAgree
    BY DEF CheckInv, VerifiedInv
  <1>2. PICK F : SumOfDump(F)
    BY DEF CheckInv, SumInv
  <1>3. AllocSums(F)
    BY <1>1, <1>2 DEF CheckInv, AllocInv, Read
  <1>4. /\ F[SeenInDump] \in Nat /\ F[DOMAIN byAddress] = dumpSum
        /\ F[SeenInDump] <= F[DOMAIN byAddress]
    <2>1. SeenInDump \in SUBSET DOMAIN byAddress /\ DOMAIN byAddress \in SUBSET DOMAIN byAddress
      BY DEF SeenInDump
    <2>. QED
      BY <1>2, <1>3, <2>1 DEF SumOfDump, Monotone, AllocSums
  <1>5. allocSum = dumpSum + retainedSum /\ dumpSum \in Nat /\ retainedSum \in Nat
    BY <1>1 DEF SumsAgree, CheckInv, CheckTypes, CheckTypeOK
  <1>6. ~(allocSum < F[SeenInDump] + retainedSum)
    BY <1>4, <1>5
  <1>. QED
    BY <1>3, <1>6 DEF AllocSums

\* The merge leaves one entry at each address of the base and of the accounts
\* that were not pruned.
UnprunedRecords(E) == {r \in RecordsOf(byAddress) : r.addr \notin E}

MergedAt(a, E) ==
  IF a \in DOMAIN byAddress \ E
  THEN EntryFor(genesis.alloc, [addr |-> a, account |-> byAddress[a]])
  ELSE genesis.alloc[a]

LEMMA MergedIsMap ==
  ASSUME NEW E
  PROVE  Merged(genesis.alloc, UnprunedRecords(E), FALSE)
           = {[addr |-> a, entry |-> MergedAt(a, E)] :
                a \in (DOMAIN byAddress \ E) \cup DOMAIN genesis.alloc}
  <1>. DEFINE R == UnprunedRecords(E)
              B == genesis.alloc
              D == DOMAIN byAddress \ E
  <1>1. Kept(R, FALSE) = R
    BY DEF Kept
  <1>2. \A r \in R : r.addr \in D /\ r = [addr |-> r.addr, account |-> byAddress[r.addr]]
    BY DEF UnprunedRecords, RecordsOf
  <1>3. \A a \in D : [addr |-> a, account |-> byAddress[a]] \in R
    BY DEF UnprunedRecords, RecordsOf
  <1>4. {r.addr : r \in R} = D
    <2>1. \A a \in D : \E r \in R : r.addr = a
      BY <1>3
    <2>. HIDE DEF R, D
    <2>. QED
      BY <1>2, <2>1
  <1>5. {[addr |-> r.addr, entry |-> EntryFor(B, r)] : r \in R}
          = {[addr |-> a, entry |-> MergedAt(a, E)] : a \in D}
    <2>1. ASSUME NEW r \in R
          PROVE  r.addr \in D /\ EntryFor(B, r) = MergedAt(r.addr, E)
      BY <1>2 DEF MergedAt
    <2>2. ASSUME NEW a \in D
          PROVE  \E r \in R : r.addr = a /\ EntryFor(B, r) = MergedAt(a, E)
      <3>1. [addr |-> a, account |-> byAddress[a]] \in R
        BY <1>3
      <3>. QED
        BY <3>1 DEF MergedAt
    <2>. HIDE DEF R, D, B
    <2>. QED
      BY <2>1, <2>2
  <1>6. {[addr |-> a, entry |-> B[a]] : a \in DOMAIN B \ D}
          = {[addr |-> a, entry |-> MergedAt(a, E)] : a \in DOMAIN B \ D}
    BY DEF MergedAt
  <1>. DEFINE Ours == {[addr |-> r.addr, entry |-> EntryFor(B, r)] : r \in R}
              Rest == {[addr |-> a, entry |-> B[a]] : a \in DOMAIN B \ D}
              Both(S) == {[addr |-> a, entry |-> MergedAt(a, E)] : a \in S}
  <1>7. Merged(B, R, FALSE) = Ours \cup Rest
    <2>1. Merged(B, R, FALSE)
            = {[addr |-> r.addr, entry |-> EntryFor(B, r)] : r \in R}
                \cup {[addr |-> a, entry |-> B[a]] : a \in DOMAIN B \ {r.addr : r \in R}}
      <3>. HIDE DEF R, B
      <3>. QED
        BY <1>1, Zenon DEF Merged
    <2>. QED
      BY <1>4, <2>1, Zenon
  <1>8. Both(D) \cup Both(DOMAIN B \ D) = Both(D \cup DOMAIN B)
    <2>. HIDE DEF D, B
    <2>. QED
      OBVIOUS
  <1>. HIDE DEF R, B, D
  <1>. QED
    BY <1>5, <1>6, <1>7, <1>8, Zenon DEF B, D, R

\* The empty accounts the allocation does without: they are missing, or the
\* base entry is kept.
PrunedAccounts ==
  {a \in EmptyAccounts :
     \/ a \notin seen
     \/ \E i \in DOMAIN entries :
          entries[i].addr = a /\ KeptOverEmpty(a, Created(entries[i]))}

\* Each entry of a verified allocation is the one the merge leaves at its
\* address.
LEMMA EntryIsMerged ==
  ASSUME CheckInv, step = "verified", withAlloc, NEW i \in DOMAIN entries
  PROVE  LET a == entries[i].addr
         IN  /\ a \in (DOMAIN byAddress \ PrunedAccounts) \cup DOMAIN genesis.alloc
             /\ Created(entries[i]) = AllocAccount(MergedAt(a, PrunedAccounts))
             /\ a \in Protected(genesis.alloc) /\ a \in DOMAIN byAddress \ PrunedAccounts
                  => ~CannotMerge(genesis.alloc[a], byAddress[a])
  <1>. DEFINE a == entries[i].addr
              got == Created(entries[i])
              B == genesis.alloc
              E == PrunedAccounts
  <1>1. /\ \A j \in DOMAIN entries : entries[j].addr = a => j = i
        /\ Explained(a, got)
        /\ a \in seen
    BY DEF CheckInv, VerifiedInv, EntriesInv, Read, CheckTypes, CheckTypeOK
  <1>2. a \in E <=> a \in DOMAIN byAddress /\ IsEmptyAllocEntry(byAddress[a]) /\ KeptOverEmpty(a, got)
    BY <1>1 DEF PrunedAccounts, EmptyAccounts
  <1>3. a \in Protected(B) <=> ProtectedBase(a)
    BY DEF Protected, ProtectedBase, InBase
  <1>4. CASE KeptOverEmpty(a, got)
    <2>1. a \in E /\ InBase(a) /\ got = BaseAccount(a)
      BY <1>2, <1>4 DEF KeptOverEmpty, InDump
    <2>. QED
      BY <2>1 DEF MergedAt, InBase, BaseAccount
  <1>5. CASE Carried(a, got)
    BY <1>5 DEF Carried, MergedAt, InBase, InDump, BaseAccount
  <1>6. CASE FromDump(a, got) /\ ~KeptOverEmpty(a, got)
    <2>1. a \in DOMAIN byAddress \ E /\ a \notin Protected(B) /\ got = byAddress[a]
      BY <1>2, <1>3, <1>6 DEF FromDump, InDump
    <2>2. MergedAt(a, E) = got
      BY <2>1 DEF MergedAt, EntryFor
    <2>3. AllocAccount(got) = got
      <3>1. entries \in Seq(AllocEntry)
        BY DEF CheckInv, CheckTypes
      <3>2. entries[i] \in AllocEntry
        BY <3>1
      <3>3. entries[i].entry \in BaseEntry
        BY <3>2 DEF AllocEntry
      <3>. QED
        BY <3>3, AllocAccountTyped DEF Created
    <2>. QED
      BY <2>1, <2>2, <2>3
  <1>7. CASE ProtectedMerged(a, got) /\ ~KeptOverEmpty(a, got)
    <2>. DEFINE d == byAddress[a]
    <2>1. /\ a \in DOMAIN byAddress \ E /\ a \in Protected(B) /\ InBase(a)
          /\ IsProtectedMerge(got, d, BaseAccount(a))
      BY <1>2, <1>3, <1>7 DEF ProtectedMerged, ProtectedBase, InDump
    <2>2. B[a] \in BaseEntry /\ BaseAccount(a) = AllocAccount(B[a]) /\ d \in Account
      BY <2>1, GenesisTyped DEF InBase, BaseAccount, CheckInv, CheckTypes, CheckTypeOK
    <2>3. d.balance \in Nat /\ B[a].balance \in Nat /\ BaseAccount(a).balance = B[a].balance
      BY <2>2, AllocAccountTyped DEF Account, BaseEntry
    <2>4. d.balance + B[a].balance < Word
      <3>1. ~Wraps(entries[i])
        BY NoneWraps
      <3>. QED
        BY <1>7, <2>3, <3>1, DumpCheckAssumption DEF Wraps
    <2>5. got = [BaseAccount(a) EXCEPT !.balance = B[a].balance + d.balance]
      <3>1. got = [BaseAccount(a) EXCEPT !.balance = (B[a].balance + d.balance) % Word]
        BY <2>1, <2>2, <2>3 DEF IsProtectedMerge, BaseEntry
      <3>2. (B[a].balance + d.balance) % Word = B[a].balance + d.balance
        BY <2>3, <2>4, Modulo
      <3>. QED
        BY <3>1, <3>2
    <2>6. MergedAt(a, E) = [B[a] EXCEPT !.balance = B[a].balance + d.balance]
      BY <2>1, <2>2 DEF MergedAt, EntryFor, MergeIntoProtectedEntry, BaseEntry
    <2>7. AllocAccount(MergedAt(a, E)) = got
      <3>. DEFINE b == B[a]
                  x == B[a].balance + d.balance
      <3>1. AllocAccount([b EXCEPT !.balance = x]) = [AllocAccount(b) EXCEPT !.balance = x]
        <4>1. b \in BaseEntry /\ x \in Nat
          BY <2>2, <2>3
        <4>. HIDE DEF b, x
        <4>. QED
          BY <4>1 DEF AllocAccount, BaseEntry
      <3>. HIDE DEF x, d
      <3>. QED
        BY <2>2, <2>5, <2>6, <3>1, Zenon DEF x, d
    <2>8. ~CannotMerge(B[a], d)
      BY <2>1, <2>2 DEF IsProtectedMerge, CannotMerge, AllocAccount, BaseEntry
    <2>. QED
      BY <2>1, <2>7, <2>8
  <1>. QED
    BY <1>1, <1>4, <1>5, <1>6, <1>7 DEF Explained, RetainsBase

\* No address is missing.
LEMMA SeenIsMerged ==
  ASSUME CheckInv, step = "verified", withAlloc
  PROVE  seen = (DOMAIN byAddress \ PrunedAccounts) \cup DOMAIN genesis.alloc
  <1>1. NothingMissing
    BY DEF CheckInv, VerifiedInv
  <1>2. \A a \in seen : \E i \in DOMAIN entries : entries[i].addr = a
    BY DEF CheckInv, CheckTypes, CheckTypeOK
  <1>3. seen \subseteq (DOMAIN byAddress \ PrunedAccounts) \cup DOMAIN genesis.alloc
    BY <1>2, EntryIsMerged
  <1>4. ASSUME NEW a \in DOMAIN byAddress \ PrunedAccounts PROVE a \in seen
    BY <1>1 DEF NothingMissing, PrunedAccounts, EmptyAccounts
  <1>. QED
    BY <1>1, <1>3, <1>4 DEF NothingMissing

LEMMA VerifiedIsMerge == CheckInv => VerifiedAllocIsMerge
  <1>. SUFFICES ASSUME CheckInv, step = "verified", withAlloc
                PROVE  VerifiedAllocIsMerge
    BY DEF VerifiedAllocIsMerge
  <1>. DEFINE E == PrunedAccounts
              R == UnprunedRecords(E)
              B == genesis.alloc
              At(a) == [addr |-> a, entry |-> AllocAccount(MergedAt(a, E))]
  <1>1. E \in SUBSET EmptyAccounts
    BY DEF PrunedAccounts
  <1>2. \A i, j \in DOMAIN entries : entries[i].addr = entries[j].addr => i = j
    BY DEF CheckInv, VerifiedInv, EntriesInv, Read
  <1>3. seen = {entries[i].addr : i \in DOMAIN entries}
    BY DEF CheckInv, CheckTypes, CheckTypeOK
  <1>4. Mergeable(B, R, FALSE)
    <2>1. ASSUME NEW r \in R, r.addr \in Protected(B)
          PROVE  /\ ~CannotMerge(B[r.addr], r.account)
                 /\ \A s \in R : s.addr = r.addr => s = r
      <3>1. r.addr \in DOMAIN byAddress \ E /\ r.account = byAddress[r.addr]
        BY DEF UnprunedRecords, RecordsOf
      <3>2. r.addr \in seen
        BY <3>1, SeenIsMerged
      <3>3. PICK i \in DOMAIN entries : entries[i].addr = r.addr
        BY <1>3, <3>2
      <3>4. ~CannotMerge(B[r.addr], r.account)
        BY <2>1, <3>1, <3>3, EntryIsMerged
      <3>5. \A s \in R : s.addr = r.addr => s = r
        BY DEF UnprunedRecords, RecordsOf
      <3>. QED
        BY <3>4, <3>5
    <2>2. Kept(R, FALSE) = R
      BY DEF Kept
    <2>. HIDE DEF R, B
    <2>. QED
      BY <2>1, <2>2 DEF Mergeable
  <1>5. {AllocPair(entries[i]) : i \in DOMAIN entries} = {At(a) : a \in seen}
    <2>1. \A i \in DOMAIN entries : AllocPair(entries[i]) = At(entries[i].addr)
      BY EntryIsMerged DEF AllocPair, Created
    <2>. QED
      BY <1>3, <2>1
  <1>6. {AllocPair(m) : m \in Merged(B, R, FALSE)} = {At(a) : a \in seen}
    <2>1. Merged(B, R, FALSE) = {[addr |-> a, entry |-> MergedAt(a, E)] : a \in seen}
      BY MergedIsMap, SeenIsMerged
    <2>2. \A a : AllocPair([addr |-> a, entry |-> MergedAt(a, E)]) = At(a)
      BY DEF AllocPair
    <2>. DEFINE Put(a) == [addr |-> a, entry |-> MergedAt(a, E)]
    <2>. HIDE DEF At, B, R, E
    <2>3. Merged(B, R, FALSE) = {Put(a) : a \in seen} /\ \A a : AllocPair(Put(a)) = At(a)
      BY <2>1, <2>2, Zenon
    <2>. HIDE DEF Put
    <2>4. ASSUME NEW a \in seen PROVE \E m \in Merged(B, R, FALSE) : AllocPair(m) = At(a)
      BY <2>3
    <2>5. ASSUME NEW m \in Merged(B, R, FALSE) PROVE \E a \in seen : AllocPair(m) = At(a)
      BY <2>3
    <2>. QED
      BY <2>4, <2>5
  <1>7. R = {r \in RecordsOf(byAddress) : r.addr \notin E}
    BY DEF UnprunedRecords
  <1>. HIDE DEF E, R
  <1>. QED
    BY <1>1, <1>2, <1>4, <1>5, <1>6, <1>7 DEF VerifiedAllocIsMerge

\* A verified allocation is the merge of the dumped state and the base
\* genesis, up to empty accounts that may have been pruned.
THEOREM VerifiedAllocHolds == CheckSpec => []VerifiedAllocIsMerge
  <1>. QED
    BY VerifiedIsMerge, CheckInvariant, PTL
=============================================================================
