------------------------- MODULE DumpToAllocProofs -------------------------
(***************************************************************************)
(* What scripts/dump-to-alloc.mjs guarantees for every base genesis, every *)
(* dump and every bound.                                                   *)
(***************************************************************************)
EXTENDS DumpToAlloc, FiniteSetTheorems, WellFoundedInduction, TLAPS

-----------------------------------------------------------------------------
(* Lemmas about lines, entries and the written sequence *)

\* A line that is an account record names an address and carries an account.
LEMMA RecordOfLine ==
  ASSUME NEW line \in Line, IsAccountRecord(line)
  PROVE  /\ ResolveRecordAddress(line) \in Addr
         /\ line.account \in L1Accounts
         /\ line.account \in Account
  BY AccountsAssumption, DumpToAllocAssumption
     DEF Line, IsAccountRecord, IsOrphan, ResolveRecordAddress

\* Whatever an L1 account may be, an allocation entry may be too.
LEMMA AccountIsEntry == Account \subseteq BaseEntry
  BY DEF Account, BaseEntry

\* A merge leaves the contract alone and never takes balance away.
LEMMA MergeKeepsContract ==
  ASSUME NEW b \in BaseEntry, NEW d \in Account
  PROVE  LET m == MergeIntoProtectedEntry(b, d)
         IN  /\ m \in BaseEntry
             /\ SameContract(m, b)
             /\ m.balance = b.balance + d.balance
             /\ m.balance >= b.balance
  BY DEF BaseEntry, Account, MergeIntoProtectedEntry, SameContract

\* A base entry is an entry.
LEMMA BaseTyped ==
  ASSUME base \in Bases
  PROVE  /\ DOMAIN base \subseteq Addr
         /\ \A a \in DOMAIN base : base[a] \in BaseEntry
         /\ ProtectedBaseCode \subseteq DOMAIN base
  BY DumpToAllocAssumption DEF ProtectedBaseCode

-----------------------------------------------------------------------------
(* Type correctness *)

LEMMA InitTyped == Init => TypeOK
  BY DEF Init, TypeOK

LEMMA WriteTyped ==
  ASSUME TypeOK, NEW a \in Addr, NEW entry \in BaseEntry, WriteAllocPair(a, entry)
  PROVE  /\ alloc' \in Seq(Pair)
         /\ allocBalanceSum' \in Nat
         /\ protectedWritten' \subseteq ProtectedBaseCode
  <1>1. [addr |-> a, entry |-> entry] \in Pair
    BY DEF Pair
  <1>2. entry.balance \in Nat
    BY DEF BaseEntry
  <1>. QED
    BY <1>1, <1>2 DEF TypeOK, WriteAllocPair

LEMMA NextTyped == TypeOK /\ [Next]_vars => TypeOK'
  <1>. SUFFICES ASSUME TypeOK, [Next]_vars PROVE TypeOK'
    OBVIOUS
  <1>b. /\ DOMAIN base \subseteq Addr
        /\ \A a \in DOMAIN base : base[a] \in BaseEntry
        /\ ProtectedBaseCode \subseteq DOMAIN base
    BY BaseTyped DEF TypeOK
  <1>p. ASSUME base' = base PROVE ProtectedBaseCode' = ProtectedBaseCode
    BY <1>p DEF ProtectedBaseCode
  <1>1. CASE OpenFiles
    BY <1>1, <1>p DEF TypeOK, OpenFiles, input, writing, counters
  <1>2. ASSUME Fail PROVE TypeOK'
    BY <1>2, <1>p DEF TypeOK, Fail, input, writing, counters
  <1>3. CASE UnreadableBase
    BY <1>3, <1>p DEF TypeOK, UnreadableBase, input, writing, counters
  <1>4. CASE ReadLine
    <2>. PICK line \in Line :
           SkipLine(line) \/ PruneRecord(line) \/ MergeRecord(line)
             \/ WriteRecord(line) \/ RejectLine(line)
      BY <1>4 DEF ReadLine
    <2>a. ASSUME Converted(line)
          PROVE  /\ dump' \in Seq(Line)
                 /\ ProtectedBaseCode' = ProtectedBaseCode
                 /\ UNCHANGED <<pruneEmpty, base, pc, appended, outputFile>>
      BY <2>a, <1>p DEF TypeOK, Converted, input
    <2>1. CASE SkipLine(line)
      BY <2>1, <2>a DEF SkipLine, TypeOK, counters
    <2>c. ASSUME IsAccountRecord(line), CountRecord(line.account)
          PROVE  dumpAccounts' \in Nat /\ dumpBalanceSum' \in Nat
      BY <2>c, RecordOfLine DEF CountRecord, TypeOK, Account
    <2>2. CASE PruneRecord(line)
      BY <2>2, <2>a, <2>c DEF PruneRecord, TypeOK
    <2>3. CASE MergeRecord(line)
      <3>. DEFINE a == ResolveRecordAddress(line)
      <3>1. /\ a \in Addr /\ line.account \in Account
            /\ a \in pendingBaseAlloc /\ a \in ProtectedBaseCode
        BY <2>3, RecordOfLine DEF MergeRecord, MustMerge
      <3>2. MergeIntoProtectedEntry(base[a], line.account) \in BaseEntry
        BY <3>1, <1>b, MergeKeepsContract
      <3>3. /\ alloc' \in Seq(Pair) /\ allocBalanceSum' \in Nat
            /\ protectedWritten' \subseteq ProtectedBaseCode
        BY <2>3, <3>1, <3>2, WriteTyped DEF MergeRecord
      <3>4. appended = {}
        BY <2>3 DEF MergeRecord, Converted, TypeOK
      <3>. QED
        BY <2>3, <2>a, <2>c, <3>1, <3>3, <3>4 DEF MergeRecord, TypeOK
    <2>4. CASE WriteRecord(line)
      <3>. DEFINE a == ResolveRecordAddress(line)
      <3>1. a \in Addr /\ line.account \in BaseEntry
        BY <2>4, RecordOfLine, AccountIsEntry DEF WriteRecord
      <3>2. /\ alloc' \in Seq(Pair) /\ allocBalanceSum' \in Nat
            /\ protectedWritten' \subseteq ProtectedBaseCode
        BY <2>4, <3>1, WriteTyped DEF WriteRecord
      <3>3. appended = {}
        BY <2>4 DEF WriteRecord, Converted, TypeOK
      <3>. QED
        BY <2>4, <2>a, <2>c, <3>1, <3>2, <3>3 DEF WriteRecord, TypeOK
    <2>5. CASE RejectLine(line)
      BY <2>5, <1>2 DEF RejectLine
    <2>. QED
      BY <2>1, <2>2, <2>3, <2>4, <2>5
  <1>5. CASE InputError
    BY <1>5, <1>2 DEF InputError
  <1>6. CASE EndOfDump
    BY <1>6, <1>p DEF TypeOK, EndOfDump, input, writing, counters
  <1>7. CASE EmptyDump
    BY <1>7, <1>2 DEF EmptyDump
  <1>8. ASSUME NEW a \in Addr, AppendBaseEntry(a) PROVE TypeOK'
    <2>1. a \in DOMAIN base /\ base[a] \in BaseEntry
      BY <1>8, <1>b DEF AppendBaseEntry, TypeOK
    <2>2. /\ alloc' \in Seq(Pair) /\ allocBalanceSum' \in Nat
          /\ protectedWritten' \subseteq ProtectedBaseCode
      BY <1>8, <2>1, WriteTyped DEF AppendBaseEntry
    <2>. QED
      BY <1>8, <2>1, <2>2, <1>p DEF AppendBaseEntry, TypeOK, input, counters
  <1>9. CASE EndOutput
    BY <1>9, <1>p DEF TypeOK, EndOutput, input, writing, counters
  <1>10. CASE OutputFinished
    BY <1>10, <1>p DEF TypeOK, OutputFinished, input, writing, counters
  <1>11. CASE OutputError
    BY <1>11, <1>p DEF TypeOK, OutputError, input, writing, counters
  <1>12. CASE UNCHANGED vars
    BY <1>12, <1>p DEF TypeOK, vars, input, writing, counters
  <1>13. CASE OpenOutput
    BY <1>13, <1>p DEF TypeOK, OpenOutput, input, writing, counters
  <1>. QED
    BY <1>1, <1>3, <1>4, <1>5, <1>6, <1>7, <1>8, <1>9, <1>10, <1>11, <1>12, <1>13
       DEF Next

\* Every variable keeps its type in every run.
THEOREM TypeCorrect == Spec => []TypeOK
  BY InitTyped, NextTyped, PTL DEF Spec

-----------------------------------------------------------------------------
(* Protected contracts *)

\* The pair at a protected address: the only one, with the base contract.
KeptOnce(a) ==
  \E i \in DOMAIN alloc :
    /\ Writes(a) = {i}
    /\ SameContract(alloc[i].entry, base[a])
    /\ alloc[i].entry.balance >= base[a].balance

\* protectedWritten tells the truth about what has been written, and a
\* protected entry that has not been written is still pending: this is what
\* makes a second dump record for its address end the run instead of being
\* taken for an account of its own.
ProtectedInv ==
  /\ \A a \in ProtectedBaseCode :
       IF a \in protectedWritten
       THEN KeptOnce(a)
       ELSE Writes(a) = {} /\ a \in pendingBaseAlloc \ appended
  /\ pc \in {"ending", "done"} => ProtectedBaseCode \subseteq protectedWritten
  /\ outputFile = "complete" => pc = "done"

\* Writing a pair touches the pairs of its own address only.
LEMMA WriteAppends ==
  ASSUME TypeOK, NEW a \in Addr, NEW entry \in BaseEntry, WriteAllocPair(a, entry)
  PROVE  /\ DOMAIN alloc = 1..Len(alloc) /\ Len(alloc) \in Nat
         /\ DOMAIN alloc' = 1..(Len(alloc) + 1)
         /\ DOMAIN alloc \subseteq DOMAIN alloc'
         /\ \A i \in DOMAIN alloc : alloc'[i] = alloc[i]
         /\ alloc'[Len(alloc) + 1] = [addr |-> a, entry |-> entry]
         /\ \A b \in Addr : Writes(b)' = IF b = a THEN Writes(b) \cup {Len(alloc) + 1}
                                        ELSE Writes(b)
  <1>. DEFINE n == Len(alloc) + 1
  <1>1. /\ DOMAIN alloc = 1..Len(alloc) /\ Len(alloc) \in Nat
        /\ DOMAIN alloc' = 1..n
        /\ DOMAIN alloc \subseteq DOMAIN alloc'
        /\ \A i \in DOMAIN alloc : alloc'[i] = alloc[i]
        /\ alloc'[n] = [addr |-> a, entry |-> entry]
    BY DEF TypeOK, WriteAllocPair
  <1>2. ASSUME NEW b \in Addr
        PROVE  Writes(b)' = IF b = a THEN Writes(b) \cup {n} ELSE Writes(b)
    BY <1>1 DEF Writes
  <1>. QED
    BY <1>1, <1>2

\* A protected entry stays written once when another address is written.
LEMMA OthersStayKept ==
  ASSUME TypeOK, ProtectedInv, base' = base,
         NEW a \in Addr, NEW entry \in BaseEntry, WriteAllocPair(a, entry),
         NEW b \in ProtectedBaseCode, b # a
  PROVE  /\ b \in protectedWritten' <=> b \in protectedWritten
         /\ b \in protectedWritten => KeptOnce(b)'
         /\ b \notin protectedWritten => Writes(b)' = {}
  <1>1. b \in Addr
    BY BaseTyped DEF TypeOK
  <1>2. Writes(b)' = Writes(b)
    BY <1>1, WriteAppends
  <1>3. b \in protectedWritten' <=> b \in protectedWritten
    BY DEF WriteAllocPair
  <1>4. ASSUME b \in protectedWritten PROVE KeptOnce(b)'
    <2>1. PICK i \in DOMAIN alloc :
            /\ Writes(b) = {i}
            /\ SameContract(alloc[i].entry, base[b])
            /\ alloc[i].entry.balance >= base[b].balance
      BY <1>4 DEF ProtectedInv, KeptOnce
    <2>2. i \in DOMAIN alloc' /\ alloc'[i] = alloc[i]
      BY WriteAppends
    <2>. QED
      BY <2>1, <2>2, <1>2 DEF KeptOnce, SameContract
  <1>. QED
    BY <1>2, <1>3, <1>4 DEF ProtectedInv

\* Writing a protected entry for the first time, with its contract.
LEMMA FirstWriteKept ==
  ASSUME TypeOK, ProtectedInv, base' = base,
         NEW a \in ProtectedBaseCode, a \notin protectedWritten,
         NEW entry \in BaseEntry, WriteAllocPair(a, entry),
         SameContract(entry, base[a]), entry.balance >= base[a].balance
  PROVE  a \in protectedWritten' /\ KeptOnce(a)'
  <1>1. a \in Addr
    BY BaseTyped DEF TypeOK
  <1>2. Writes(a)' = {Len(alloc) + 1}
    BY <1>1, WriteAppends DEF ProtectedInv
  <1>3. /\ Len(alloc) + 1 \in DOMAIN alloc'
        /\ alloc'[Len(alloc) + 1] = [addr |-> a, entry |-> entry]
    BY <1>1, WriteAppends
  <1>4. a \in protectedWritten'
    BY DEF WriteAllocPair
  <1>. QED
    BY <1>2, <1>3, <1>4 DEF KeptOnce, SameContract

LEMMA ProtectedInit == Init => ProtectedInv
  BY DEF Init, ProtectedInv, Writes, ProtectedBaseCode

\* Writing at an address that is no protected one.
LEMMA UnprotectedWrite ==
  ASSUME TypeOK, ProtectedInv, base' = base,
         NEW a \in Addr \ ProtectedBaseCode, NEW entry \in BaseEntry,
         WriteAllocPair(a, entry)
  PROVE  \A b \in ProtectedBaseCode :
           /\ b \in protectedWritten' <=> b \in protectedWritten
           /\ b \in protectedWritten => KeptOnce(b)'
           /\ b \notin protectedWritten => Writes(b)' = {}
  BY OthersStayKept

\* Steps that leave the entries alone and do not claim more than they show.
LEMMA ProtectedSame ==
  ASSUME ProtectedInv,
         UNCHANGED <<base, alloc, protectedWritten, pendingBaseAlloc, appended>>,
         pc' \in {"ending", "done"} => ProtectedBaseCode \subseteq protectedWritten,
         outputFile' = "complete" => pc' = "done"
  PROVE  ProtectedInv'
  BY DEF ProtectedInv, KeptOnce, Writes, SameContract, ProtectedBaseCode

LEMMA ProtectedNext == TypeOK /\ ProtectedInv /\ [Next]_vars => ProtectedInv'
  <1>. SUFFICES ASSUME TypeOK, ProtectedInv, [Next]_vars PROVE ProtectedInv'
    OBVIOUS
  <1>b. /\ DOMAIN base \subseteq Addr
        /\ \A a \in DOMAIN base : base[a] \in BaseEntry
        /\ ProtectedBaseCode \subseteq DOMAIN base
    BY BaseTyped DEF TypeOK
  <1>p. ASSUME base' = base PROVE ProtectedBaseCode' = ProtectedBaseCode
    BY <1>p DEF ProtectedBaseCode
  <1>1. CASE OpenFiles
    BY <1>1, ProtectedSame DEF OpenFiles, input, writing
  <1>2. ASSUME Fail PROVE ProtectedInv'
    BY <1>2, ProtectedSame DEF Fail, input, writing
  <1>3. CASE UnreadableBase
    BY <1>3, ProtectedSame DEF UnreadableBase, input, writing, ProtectedInv
  <1>4. CASE ReadLine
    <2>. PICK line \in Line :
           SkipLine(line) \/ PruneRecord(line) \/ MergeRecord(line)
             \/ WriteRecord(line) \/ RejectLine(line)
      BY <1>4 DEF ReadLine
    <2>. DEFINE a == ResolveRecordAddress(line)
    <2>a. ASSUME Converted(line)
          PROVE  /\ pc = "reading" /\ pc' = "reading"
                 /\ UNCHANGED <<base, appended, outputFile>>
                 /\ ProtectedBaseCode' = ProtectedBaseCode
                 /\ appended = {}
                 /\ outputFile' # "complete"
      BY <2>a, <1>p DEF Converted, input, TypeOK, ProtectedInv
    <2>1. CASE SkipLine(line)
      BY <2>1, <2>a, ProtectedSame DEF SkipLine
    <2>2. CASE PruneRecord(line)
      BY <2>2, <2>a, ProtectedSame DEF PruneRecord
    <2>3. CASE MergeRecord(line)
      <3>. DEFINE merged == MergeIntoProtectedEntry(base[a], line.account)
      <3>1. /\ a \in Addr /\ line.account \in Account
            /\ a \in ProtectedBaseCode /\ a \notin protectedWritten
        BY <2>3, RecordOfLine DEF MergeRecord, MustMerge, Rejected, WriteRejected
      <3>2. /\ merged \in BaseEntry /\ SameContract(merged, base[a])
            /\ merged.balance >= base[a].balance
        BY <3>1, <1>b, MergeKeepsContract
      <3>3. WriteAllocPair(a, merged)
        BY <2>3 DEF MergeRecord
      <3>4. base' = base /\ pendingBaseAlloc' = pendingBaseAlloc \ {a}
        BY <2>3, <2>a DEF MergeRecord
      <3>5. a \in protectedWritten' /\ KeptOnce(a)'
        BY <3>1, <3>2, <3>3, <3>4, FirstWriteKept
      <3>6. ASSUME NEW b \in ProtectedBaseCode, b # a
            PROVE  IF b \in protectedWritten'
                   THEN KeptOnce(b)'
                   ELSE Writes(b)' = {} /\ b \in pendingBaseAlloc'
        BY <3>1, <3>2, <3>3, <3>4, <3>6, OthersStayKept DEF ProtectedInv
      <3>. QED
        BY <2>3, <2>a, <3>5, <3>6 DEF ProtectedInv, MergeRecord
    <2>4. CASE WriteRecord(line)
      <3>1. a \in Addr /\ line.account \in BaseEntry
        BY <2>4, RecordOfLine, AccountIsEntry DEF WriteRecord
      <3>2. a \notin ProtectedBaseCode
        BY <2>4 DEF WriteRecord, MustMerge, Rejected, WriteRejected, ProtectedInv
      <3>3. /\ WriteAllocPair(a, line.account) /\ base' = base
            /\ pendingBaseAlloc' = pendingBaseAlloc \ {a}
        BY <2>4, <2>a DEF WriteRecord
      <3>4. \A b \in ProtectedBaseCode :
              /\ b \in protectedWritten' <=> b \in protectedWritten
              /\ b \in protectedWritten => KeptOnce(b)'
              /\ b \notin protectedWritten => Writes(b)' = {}
        BY <3>1, <3>2, <3>3, UnprotectedWrite
      <3>. QED
        BY <2>a, <2>4, <3>2, <3>3, <3>4 DEF ProtectedInv, WriteRecord
    <2>5. CASE RejectLine(line)
      BY <2>5, <1>2 DEF RejectLine
    <2>. QED
      BY <2>1, <2>2, <2>3, <2>4, <2>5
  <1>5. CASE InputError
    BY <1>5, <1>2 DEF InputError
  <1>6. CASE EndOfDump
    BY <1>6, ProtectedSame DEF EndOfDump, input, writing, ProtectedInv
  <1>7. CASE EmptyDump
    BY <1>7, <1>2 DEF EmptyDump
  <1>8. ASSUME NEW a \in Addr, AppendBaseEntry(a) PROVE ProtectedInv'
    <2>1. /\ a \in DOMAIN base /\ base[a] \in BaseEntry
          /\ WriteAllocPair(a, base[a])
          /\ UNCHANGED <<base, pc, pendingBaseAlloc, outputFile>>
          /\ pc = "appending" /\ ProtectedBaseCode' = ProtectedBaseCode
          /\ appended' = appended \cup {a}
      BY <1>8, <1>b, <1>p DEF AppendBaseEntry, TypeOK, input
    <2>2. CASE a \in ProtectedBaseCode
      <3>1. a \notin protectedWritten
        BY <1>8, <2>2 DEF AppendBaseEntry, WriteRejected
      <3>2. SameContract(base[a], base[a]) /\ base[a].balance >= base[a].balance
        BY <2>1 DEF SameContract, BaseEntry
      <3>3. a \in protectedWritten' /\ KeptOnce(a)'
        BY <2>1, <2>2, <3>1, <3>2, FirstWriteKept
      <3>4. ASSUME NEW b \in ProtectedBaseCode, b # a
            PROVE  IF b \in protectedWritten'
                   THEN KeptOnce(b)'
                   ELSE Writes(b)' = {} /\ b \in pendingBaseAlloc' \ appended'
        BY <2>1, <3>4, OthersStayKept DEF ProtectedInv
      <3>. QED
        BY <2>1, <3>3, <3>4 DEF ProtectedInv
    <2>3. CASE a \notin ProtectedBaseCode
      <3>1. \A b \in ProtectedBaseCode :
              /\ b \in protectedWritten' <=> b \in protectedWritten
              /\ b \in protectedWritten => KeptOnce(b)'
              /\ b \notin protectedWritten => Writes(b)' = {}
        BY <2>1, <2>3, UnprotectedWrite
      <3>. QED
        BY <2>1, <2>3, <3>1 DEF ProtectedInv
    <2>. QED
      BY <2>2, <2>3
  <1>9. CASE EndOutput
    BY <1>9, ProtectedSame DEF EndOutput, input, writing, ProtectedInv
  <1>10. CASE OutputFinished
    BY <1>10, ProtectedSame DEF OutputFinished, input, writing, ProtectedInv
  <1>11. CASE OutputError
    BY <1>11, ProtectedSame DEF OutputError, input, writing, ProtectedInv
  <1>12. CASE UNCHANGED vars
    BY <1>12, ProtectedSame DEF vars, input, writing, ProtectedInv
  <1>13. CASE OpenOutput
    BY <1>13, ProtectedSame DEF OpenOutput, input, writing, ProtectedInv
  <1>. QED
    BY <1>1, <1>3, <1>4, <1>5, <1>6, <1>7, <1>8, <1>9, <1>10, <1>11, <1>12, <1>13
       DEF Next

LEMMA ProtectedInvariant == Spec => [](TypeOK /\ ProtectedInv)
  BY InitTyped, NextTyped, ProtectedInit, ProtectedNext, PTL DEF Spec

\* A complete allocation holds every protected base contract exactly once,
\* with its code, storage and nonce and no less than its balance.
THEOREM ProtectedContractsSafe == Spec => []ProtectedContractsKept
  <1>1. TypeOK /\ ProtectedInv => ProtectedContractsKept
    BY DEF ProtectedInv, ProtectedContractsKept, KeptOnce
  <1>. QED
    BY <1>1, ProtectedInvariant, PTL

-----------------------------------------------------------------------------
(* The converter keeps the promise of StateMerge *)

KeptRecords == Promise!Kept(RecordsRead, pruneEmpty)

RecordOf(line) == [addr |-> ResolveRecordAddress(line), account |-> line.account]

TakenOver == {r.addr : r \in KeptRecords}

\* What is written is the merge of what has been read, up to the base entries
\* still to be appended.
MergeInv ==
  /\ {alloc[i] : i \in DOMAIN alloc} =
       {[addr |-> r.addr, entry |-> Promise!EntryFor(base, r)] : r \in KeptRecords}
         \cup {[addr |-> a, entry |-> base[a]] : a \in appended}
  /\ pendingBaseAlloc = DOMAIN base \ TakenOver
  /\ Promise!Mergeable(base, RecordsRead, pruneEmpty)
  /\ dumpAccounts > 0 <=> RecordsRead # {}
  /\ pc \in {"appending", "ending", "done"} => dumpAccounts > 0
  /\ pc \in {"ending", "done"} => appended = pendingBaseAlloc
  /\ outputFile = "complete" <=> pc = "done"

\* Reading a line adds its record, if it is one.
LEMMA ReadsOneRecord ==
  ASSUME TypeOK, NEW line \in Line, dump' = Append(dump, line)
  PROVE  RecordsRead' = IF IsAccountRecord(line)
                        THEN RecordsRead \cup {RecordOf(line)} ELSE RecordsRead
  <1>1. /\ DOMAIN dump = 1..Len(dump) /\ Len(dump) \in Nat
        /\ DOMAIN dump' = 1..(Len(dump) + 1)
        /\ \A i \in DOMAIN dump : dump'[i] = dump[i]
        /\ dump'[Len(dump) + 1] = line
    BY DEF TypeOK
  <1>. QED
    BY <1>1 DEF RecordsRead, RecordOf

\* A record is one of the promise's records.
LEMMA RecordTyped ==
  ASSUME NEW line \in Line, IsAccountRecord(line)
  PROVE  RecordOf(line) \in Promise!Record
  BY RecordOfLine DEF RecordOf, Promise!Record

LEMMA SameProtected == Promise!Protected(base) = ProtectedBaseCode
  BY DEF Promise!Protected, ProtectedBaseCode,
         IsProtectedBaseEntry, Promise!IsProtectedBaseEntry

\* Writing a pair adds it.
LEMMA WriteAddsPair ==
  ASSUME TypeOK, NEW a \in Addr, NEW entry \in BaseEntry, WriteAllocPair(a, entry)
  PROVE  {alloc'[i] : i \in DOMAIN alloc'} =
           {alloc[i] : i \in DOMAIN alloc} \cup {[addr |-> a, entry |-> entry]}
  <1>. DEFINE n == Len(alloc) + 1
              new == [addr |-> a, entry |-> entry]
  <1>0. \A m \in Nat : 1..(m + 1) = 1..m \cup {m + 1}
    OBVIOUS
  <1>1. /\ DOMAIN alloc' = DOMAIN alloc \cup {n}
        /\ \A i \in DOMAIN alloc : alloc'[i] = alloc[i]
        /\ alloc'[n] = new
    BY <1>0, WriteAppends
  <1>. HIDE DEF n, new
  <1>2. {alloc'[i] : i \in DOMAIN alloc'} = {alloc[i] : i \in DOMAIN alloc} \cup {new}
    BY <1>1
  <1>. QED
    BY <1>2 DEF new

LEMMA MergeInit == Init => MergeInv
  <1>. SUFFICES ASSUME Init PROVE MergeInv
    OBVIOUS
  <1>1. RecordsRead = {}
    BY DEF Init, RecordsRead
  <1>2. KeptRecords = {} /\ TakenOver = {}
    BY <1>1 DEF KeptRecords, TakenOver, Promise!Kept
  <1>3. {alloc[i] : i \in DOMAIN alloc} = {}
    BY DEF Init
  <1>4. Promise!Mergeable(base, RecordsRead, pruneEmpty)
    BY <1>2 DEF Promise!Mergeable, KeptRecords
  <1>. QED
    BY <1>1, <1>2, <1>3, <1>4 DEF Init, MergeInv

\* Steps that read no record and write no entry.
LEMMA MergeSame ==
  ASSUME MergeInv,
         UNCHANGED <<pruneEmpty, base, alloc, pendingBaseAlloc, appended, dumpAccounts>>,
         RecordsRead' = RecordsRead,
         pc' \in {"appending", "ending", "done"} => dumpAccounts > 0,
         pc' \in {"ending", "done"} => appended = pendingBaseAlloc,
         outputFile' = "complete" <=> pc' = "done"
  PROVE  MergeInv'
  BY DEF MergeInv, KeptRecords, TakenOver, Promise!Kept, Promise!Mergeable,
         Promise!EntryFor
\* Reading a pruned record changes nothing but the count.
LEMMA PruneMerges ==
  ASSUME TypeOK, MergeInv, NEW line \in Line, PruneRecord(line)
  PROVE  MergeInv'
  <1>1. RecordsRead' = RecordsRead \cup {RecordOf(line)}
    BY ReadsOneRecord DEF PruneRecord, Converted
  <1>2. KeptRecords' = KeptRecords
    BY <1>1 DEF KeptRecords, Promise!Kept, PruneRecord, Converted, input, Pruned, RecordOf,
                IsEmptyAllocEntry, Promise!IsEmptyAllocEntry
  <1>3. Promise!Mergeable(base, RecordsRead, pruneEmpty)'
    BY <1>2 DEF MergeInv, KeptRecords, Promise!Mergeable, PruneRecord, Converted, input
  <1>4. dumpAccounts' > 0 /\ RecordsRead' # {}
    BY <1>1 DEF PruneRecord, CountRecord, TypeOK
  <1>. QED
    BY <1>1, <1>2, <1>3, <1>4
       DEF MergeInv, PruneRecord, Converted, TakenOver, input, Promise!EntryFor

\* A kept record joins the kept ones.
LEMMA KeepsRecord ==
  ASSUME TypeOK, NEW line \in Line, Converted(line), IsAccountRecord(line),
         ~Pruned(line.account)
  PROVE  KeptRecords' = KeptRecords \cup {RecordOf(line)}
  <1>1. RecordsRead' = RecordsRead \cup {RecordOf(line)}
    BY ReadsOneRecord DEF Converted
  <1>. QED
    BY <1>1 DEF KeptRecords, Promise!Kept, Converted, input, Pruned, RecordOf,
                IsEmptyAllocEntry, Promise!IsEmptyAllocEntry

\* Converting a kept record writes the entry the promise has for it.
LEMMA KeptRecordMerges ==
  ASSUME TypeOK, MergeInv, NEW line \in Line, Converted(line), IsAccountRecord(line),
         ~Pruned(line.account), CountRecord(line.account),
         LET r == RecordOf(line)
         IN  /\ Promise!EntryFor(base, r) \in BaseEntry
             /\ WriteAllocPair(r.addr, Promise!EntryFor(base, r))
             /\ pendingBaseAlloc' = pendingBaseAlloc \ {r.addr}
             /\ r.addr \in ProtectedBaseCode =>
                  /\ ~Promise!CannotMerge(base[r.addr], r.account)
                  /\ r.addr \in pendingBaseAlloc
  PROVE  MergeInv'
  <1>. DEFINE r == RecordOf(line)
              out == Promise!EntryFor(base, r)
  <1>1. KeptRecords' = KeptRecords \cup {r}
    BY KeepsRecord
  <1>2. /\ UNCHANGED <<pruneEmpty, base, pc, appended, outputFile>>
        /\ pc = "reading"
    BY DEF Converted, input
  <1>3. r.addr \in Addr /\ r.addr = ResolveRecordAddress(line)
    BY RecordOfLine DEF RecordOf
  <1>4. {alloc'[i] : i \in DOMAIN alloc'} =
          {alloc[i] : i \in DOMAIN alloc} \cup {[addr |-> r.addr, entry |-> out]}
    BY <1>3, WriteAddsPair
  <1>5. TakenOver' = TakenOver \cup {r.addr}
    BY <1>1 DEF TakenOver
  <1>6. \A x : Promise!EntryFor(base, x)' = Promise!EntryFor(base, x)
    BY <1>2 DEF Promise!EntryFor
  <1>7. {alloc'[i] : i \in DOMAIN alloc'} =
          {[addr |-> x.addr, entry |-> Promise!EntryFor(base', x)] : x \in KeptRecords'}
            \cup {[addr |-> a, entry |-> base'[a]] : a \in appended'}
    BY <1>1, <1>2, <1>4 DEF MergeInv
  <1>8. ASSUME r.addr \in ProtectedBaseCode
        PROVE  \A s \in KeptRecords : s.addr # r.addr
    BY <1>8 DEF MergeInv, TakenOver
  <1>9. Promise!Mergeable(base, RecordsRead, pruneEmpty)'
    BY <1>1, <1>2, <1>8, SameProtected DEF MergeInv, Promise!Mergeable, KeptRecords
  <1>10. dumpAccounts' > 0 /\ RecordsRead' # {}
    <2>1. dumpAccounts \in Nat /\ dumpAccounts' = dumpAccounts + 1
      BY DEF CountRecord, TypeOK
    <2>2. RecordsRead' = RecordsRead \cup {RecordOf(line)}
      BY ReadsOneRecord DEF Converted
    <2>3. dumpAccounts' > 0
      BY <2>1
    <2>4. RecordsRead' # {}
      BY <2>2
    <2>. QED
      BY <2>3, <2>4
  <1>. QED
    BY <1>2, <1>5, <1>7, <1>9, <1>10 DEF MergeInv
LEMMA MergeNext == TypeOK /\ ProtectedInv /\ MergeInv /\ [Next]_vars => MergeInv'
  <1>. SUFFICES ASSUME TypeOK, ProtectedInv, MergeInv, [Next]_vars PROVE MergeInv'
    OBVIOUS
  <1>b. /\ DOMAIN base \subseteq Addr
        /\ \A a \in DOMAIN base : base[a] \in BaseEntry
        /\ ProtectedBaseCode \subseteq DOMAIN base
    BY BaseTyped DEF TypeOK
  <1>r. ASSUME dump' = dump PROVE RecordsRead' = RecordsRead
    BY <1>r DEF RecordsRead
  <1>1. CASE OpenFiles
    BY <1>1, <1>r, MergeSame DEF OpenFiles, input, writing, counters
  <1>2. ASSUME Fail PROVE MergeInv'
    BY <1>2, <1>r, MergeSame DEF Fail, input, writing, counters
  <1>3. CASE UnreadableBase
    BY <1>3, <1>r, MergeSame DEF UnreadableBase, input, writing, counters, MergeInv
  <1>4. CASE ReadLine
    <2>. PICK line \in Line :
           SkipLine(line) \/ PruneRecord(line) \/ MergeRecord(line)
             \/ WriteRecord(line) \/ RejectLine(line)
      BY <1>4 DEF ReadLine
    <2>. DEFINE a == ResolveRecordAddress(line)
                d == line.account
                r == RecordOf(line)
    <2>0. r.addr = a /\ r.account = d
      BY DEF RecordOf
    <2>1. CASE SkipLine(line)
      <3>1. RecordsRead' = RecordsRead
        BY <2>1, ReadsOneRecord DEF SkipLine, Converted, IsAccountRecord
      <3>. QED
        BY <2>1, <3>1, MergeSame DEF SkipLine, Converted, input, counters, MergeInv
    <2>2. CASE PruneRecord(line)
      BY <2>2, PruneMerges
    <2>3. CASE MergeRecord(line)
      <3>1. /\ a \in Addr /\ d \in Account
            /\ a \in pendingBaseAlloc /\ a \in ProtectedBaseCode
            /\ ~CannotMerge(base[a], d)
        BY <2>3, RecordOfLine DEF MergeRecord, MustMerge, Rejected
      <3>2. Promise!EntryFor(base, r) = MergeIntoProtectedEntry(base[a], d)
        BY <3>1, <2>0, SameProtected
           DEF Promise!EntryFor, MergeIntoProtectedEntry, Promise!MergeIntoProtectedEntry
      <3>3. Promise!EntryFor(base, r) \in BaseEntry
        BY <3>1, <3>2, <1>b, MergeKeepsContract
      <3>4. ~Promise!CannotMerge(base[a], d)
        BY <3>1 DEF CannotMerge, Promise!CannotMerge
      <3>. QED
        BY <2>0, <2>3, <3>1, <3>2, <3>3, <3>4, KeptRecordMerges DEF MergeRecord
    <2>4. CASE WriteRecord(line)
      <3>1. a \in Addr /\ d \in BaseEntry
        BY <2>4, RecordOfLine, AccountIsEntry DEF WriteRecord
      <3>2. a \notin ProtectedBaseCode
        BY <2>4 DEF WriteRecord, MustMerge, Rejected, WriteRejected, ProtectedInv
      <3>3. Promise!EntryFor(base, r) = d
        BY <3>2, <2>0, SameProtected DEF Promise!EntryFor
      <3>. QED
        BY <2>0, <2>4, <3>1, <3>2, <3>3, KeptRecordMerges DEF WriteRecord
    <2>5. CASE RejectLine(line)
      BY <2>5, <1>2 DEF RejectLine
    <2>. QED
      BY <2>1, <2>2, <2>3, <2>4, <2>5
  <1>5. CASE InputError
    BY <1>5, <1>2 DEF InputError
  <1>6. CASE EndOfDump
    BY <1>6, <1>r, MergeSame DEF EndOfDump, input, writing, counters, MergeInv
  <1>7. CASE EmptyDump
    BY <1>7, <1>2 DEF EmptyDump
  <1>8. ASSUME NEW a \in Addr, AppendBaseEntry(a) PROVE MergeInv'
    <2>1. /\ a \in DOMAIN base /\ base[a] \in BaseEntry
          /\ WriteAllocPair(a, base[a])
          /\ UNCHANGED <<pruneEmpty, base, pc, pendingBaseAlloc, dumpAccounts, outputFile>>
          /\ RecordsRead' = RecordsRead
          /\ pc = "appending"
          /\ appended' = appended \cup {a}
      BY <1>8, <1>b, <1>r DEF AppendBaseEntry, TypeOK, input, counters
    <2>2. {alloc'[i] : i \in DOMAIN alloc'} =
            {alloc[i] : i \in DOMAIN alloc} \cup {[addr |-> a, entry |-> base[a]]}
      BY <2>1, WriteAddsPair
    <2>3. KeptRecords' = KeptRecords /\ TakenOver' = TakenOver
      BY <2>1 DEF KeptRecords, TakenOver, Promise!Kept
    <2>4. Promise!Mergeable(base, RecordsRead, pruneEmpty)'
      BY <2>1 DEF MergeInv
    <2>5. \A x : Promise!EntryFor(base, x)' = Promise!EntryFor(base, x)
      BY <2>1 DEF Promise!EntryFor
    <2>. QED
      BY <2>1, <2>2, <2>3, <2>4, <2>5 DEF MergeInv
  <1>9. CASE EndOutput
    BY <1>9, <1>r, MergeSame DEF EndOutput, input, writing, counters, MergeInv
  <1>10. CASE OutputFinished
    BY <1>10, <1>r, MergeSame DEF OutputFinished, input, writing, counters, MergeInv
  <1>11. CASE OutputError
    BY <1>11, <1>r, MergeSame DEF OutputError, input, writing, counters, MergeInv
  <1>12. CASE UNCHANGED vars
    BY <1>12, <1>r, MergeSame DEF vars, input, writing, counters, MergeInv
  <1>13. CASE OpenOutput
    BY <1>13, <1>r, MergeSame DEF OpenOutput, input, writing, counters, MergeInv
  <1>. QED
    BY <1>1, <1>3, <1>4, <1>5, <1>6, <1>7, <1>8, <1>9, <1>10, <1>11, <1>12, <1>13
       DEF Next

IInv == TypeOK /\ ProtectedInv /\ MergeInv

LEMMA Invariance == Spec => []IInv
  BY InitTyped, NextTyped, ProtectedInit, ProtectedNext, MergeInit, MergeNext, PTL
     DEF Spec, IInv
\* The promise's view of a state.
PromiseOutcome ==
  IF pc = "done" THEN "published"
  ELSE IF pc \in {"failed", "crashed"} THEN "abandoned" ELSE "open"

PromisePublished ==
  IF outputFile = "complete" THEN {alloc[i] : i \in DOMAIN alloc} ELSE {}

PromiseStep == [Promise!PromiseNext]_(Promise!promiseVars)

LEMMA PromiseStutters ==
  ASSUME UNCHANGED <<pruneEmpty, base>>, RecordsRead' = RecordsRead,
         PromiseOutcome' = PromiseOutcome, PromisePublished' = PromisePublished
  PROVE  PromiseStep
  BY DEF PromiseStep, Promise!promiseVars, PromiseOutcome, PromisePublished

LEMMA PromiseReceives ==
  ASSUME UNCHANGED <<pruneEmpty, base>>,
         NEW r \in Promise!Record, RecordsRead' = RecordsRead \cup {r},
         PromiseOutcome = "open", PromiseOutcome' = "open",
         PromisePublished' = PromisePublished
  PROVE  PromiseStep
  <1>1. Promise!Receive(r)
    BY DEF Promise!Receive, PromiseOutcome, PromisePublished
  <1>. QED
    BY <1>1 DEF PromiseStep, Promise!PromiseNext

LEMMA PromiseAbandons ==
  ASSUME UNCHANGED <<pruneEmpty, base>>, RecordsRead' = RecordsRead,
         PromiseOutcome = "open", PromiseOutcome' = "abandoned",
         PromisePublished' = PromisePublished
  PROVE  PromiseStep
  <1>1. Promise!Abandon
    BY DEF Promise!Abandon, PromiseOutcome, PromisePublished
  <1>. QED
    BY <1>1 DEF PromiseStep, Promise!PromiseNext

LEMMA PromiseInitially == Init => Promise!PromiseInit
  BY DEF Init, Promise!PromiseInit, RecordsRead

\* When the output ends, all of the base has been appended.
LEMMA WholeMergeWritten ==
  ASSUME IInv, pc \in {"ending", "done"}
  PROVE  /\ {alloc[i] : i \in DOMAIN alloc} = Promise!Merged(base, RecordsRead, pruneEmpty)
         /\ Promise!Mergeable(base, RecordsRead, pruneEmpty)
         /\ RecordsRead # {}
  <1>1. appended = DOMAIN base \ {r.addr : r \in Promise!Kept(RecordsRead, pruneEmpty)}
    BY DEF IInv, MergeInv, TakenOver, KeptRecords
  <1>2. /\ Promise!Mergeable(base, RecordsRead, pruneEmpty)
        /\ RecordsRead # {}
    BY DEF IInv, MergeInv
  <1>. QED
    BY <1>1, <1>2 DEF IInv, MergeInv, KeptRecords, Promise!Merged

LEMMA StepsKeepPromise == IInv /\ [Next]_vars => PromiseStep
  <1>. SUFFICES ASSUME IInv, [Next]_vars PROVE PromiseStep
    OBVIOUS
  <1>. USE DEF PromiseOutcome, PromisePublished
  <1>r. ASSUME dump' = dump PROVE RecordsRead' = RecordsRead
    BY <1>r DEF RecordsRead
  <1>c. pc # "done" => outputFile # "complete"
    BY DEF IInv, MergeInv
  <1>1. CASE OpenFiles
    BY <1>1, <1>r, <1>c, PromiseStutters DEF OpenFiles, input
  <1>2. ASSUME Fail, pc \in {"start", "reading", "appending", "ending"} PROVE PromiseStep
    BY <1>2, <1>r, <1>c, PromiseAbandons DEF Fail, input
  <1>3. CASE UnreadableBase
    BY <1>3, <1>r, <1>c, PromiseAbandons DEF UnreadableBase, input
  <1>4. CASE ReadLine
    <2>. PICK line \in Line :
           SkipLine(line) \/ PruneRecord(line) \/ MergeRecord(line)
             \/ WriteRecord(line) \/ RejectLine(line)
      BY <1>4 DEF ReadLine
    <2>1. CASE SkipLine(line)
      <3>1. RecordsRead' = RecordsRead
        BY <2>1, ReadsOneRecord DEF SkipLine, Converted, IsAccountRecord, IInv
      <3>. QED
        BY <2>1, <3>1, <1>c, PromiseStutters DEF SkipLine, Converted, input
    <2>2. ASSUME Converted(line), IsAccountRecord(line) PROVE PromiseStep
      <3>1. RecordsRead' = RecordsRead \cup {RecordOf(line)}
        BY <2>2, ReadsOneRecord DEF Converted, IInv
      <3>2. RecordOf(line) \in Promise!Record
        BY <2>2, RecordTyped
      <3>. QED
        BY <2>2, <3>1, <3>2, <1>c, PromiseReceives DEF Converted, input
    <2>3. CASE PruneRecord(line)
      BY <2>2, <2>3 DEF PruneRecord
    <2>4. CASE MergeRecord(line)
      BY <2>2, <2>4 DEF MergeRecord
    <2>5. CASE WriteRecord(line)
      BY <2>2, <2>5 DEF WriteRecord
    <2>6. CASE RejectLine(line)
      BY <2>6, <1>2 DEF RejectLine
    <2>. QED
      BY <2>1, <2>3, <2>4, <2>5, <2>6
  <1>5. CASE InputError
    BY <1>5, <1>2 DEF InputError
  <1>6. CASE EndOfDump
    BY <1>6, <1>r, <1>c, PromiseStutters DEF EndOfDump, input
  <1>7. CASE EmptyDump
    BY <1>7, <1>2 DEF EmptyDump
  <1>8. ASSUME NEW a \in Addr, AppendBaseEntry(a) PROVE PromiseStep
    BY <1>8, <1>r, <1>c, PromiseStutters DEF AppendBaseEntry, input
  <1>9. CASE EndOutput
    BY <1>9, <1>r, <1>c, PromiseStutters DEF EndOutput, input
  <1>10. CASE OutputFinished
    <2>1. Promise!Publish
      BY <1>10, <1>r, <1>c, WholeMergeWritten
         DEF OutputFinished, Promise!Publish, input, writing
    <2>. QED
      BY <2>1 DEF PromiseStep, Promise!PromiseNext
  <1>11. CASE OutputError
    BY <1>11, <1>r, <1>c, PromiseAbandons DEF OutputError, input
  <1>12. CASE UNCHANGED vars
    BY <1>12, <1>r, PromiseStutters DEF vars, input, writing
  <1>13. CASE OpenOutput
    BY <1>13, <1>r, <1>c, PromiseStutters DEF OpenOutput, input, writing
  <1>. QED
    BY <1>1, <1>3, <1>4, <1>5, <1>6, <1>7, <1>8, <1>9, <1>10, <1>11, <1>12, <1>13
       DEF Next

\* The converter implements StateMerge: what it publishes is the merge of the
\* base genesis and the set of records it read, or it publishes nothing.
THEOREM ConverterKeepsPromise == Spec => MergesAsPromised
  <1>1. Init => Promise!PromiseInit
    BY PromiseInitially
  <1>2. IInv /\ [Next]_vars => [Promise!PromiseNext]_(Promise!promiseVars)
    BY StepsKeepPromise DEF PromiseStep
  <1>. QED
    BY <1>1, <1>2, Invariance, PTL DEF Spec, MergesAsPromised, Promise!PromiseSpec

-----------------------------------------------------------------------------
(* Nothing is dropped, no check fails at the end *)

\* A base entry no longer pending has been reported as replaced or merged.
ReportInv ==
  DOMAIN base \subseteq pendingBaseAlloc \cup replacedBaseEntries \cup protectedMerges

LEMMA ReportSame ==
  ASSUME ReportInv, UNCHANGED <<base, pendingBaseAlloc, replacedBaseEntries, protectedMerges>>
  PROVE  ReportInv'
  BY DEF ReportInv

LEMMA ReportNext == ReportInv /\ [Next]_vars => ReportInv'
  <1>. SUFFICES ASSUME ReportInv, [Next]_vars PROVE ReportInv'
    OBVIOUS
  <1>1. CASE OpenFiles \/ UnreadableBase \/ OpenOutput
    BY <1>1, ReportSame DEF OpenFiles, UnreadableBase, OpenOutput, input, writing
  <1>2. ASSUME Fail PROVE ReportInv'
    BY <1>2, ReportSame DEF Fail, input, writing
  <1>3. CASE ReadLine
    <2>. PICK line \in Line :
           SkipLine(line) \/ PruneRecord(line) \/ MergeRecord(line)
             \/ WriteRecord(line) \/ RejectLine(line)
      BY <1>3 DEF ReadLine
    <2>1. CASE SkipLine(line) \/ PruneRecord(line)
      BY <2>1, ReportSame DEF SkipLine, PruneRecord, Converted, input
    <2>2. CASE MergeRecord(line)
      BY <2>2 DEF MergeRecord, Converted, input, ReportInv
    <2>3. CASE WriteRecord(line)
      BY <2>3 DEF WriteRecord, Converted, input, ReportInv
    <2>4. CASE RejectLine(line)
      BY <2>4, <1>2 DEF RejectLine
    <2>. QED
      BY <2>1, <2>2, <2>3, <2>4
  <1>4. CASE InputError \/ EmptyDump
    BY <1>4, <1>2 DEF InputError, EmptyDump
  <1>5. CASE EndOfDump \/ EndOutput \/ OutputFinished \/ OutputError
    BY <1>5, ReportSame DEF EndOfDump, EndOutput, OutputFinished, OutputError, input, writing
  <1>6. ASSUME NEW a \in Addr, AppendBaseEntry(a) PROVE ReportInv'
    BY <1>6, ReportSame DEF AppendBaseEntry, input
  <1>7. CASE UNCHANGED vars
    BY <1>7, ReportSame DEF ReportInv, vars, input, writing
  <1>. QED
    BY <1>1, <1>3, <1>4, <1>5, <1>6, <1>7 DEF Next

LEMMA ReportInvariant == Spec => []ReportInv
  <1>1. Init => ReportInv
    BY DEF Init, ReportInv
  <1>. QED
    BY <1>1, ReportNext, PTL DEF Spec

\* A record of the dump that is not pruned has a pair at its address: what has
\* been written is known from MergeInv.
LEMMA KeptRecordWritten ==
  ASSUME IInv, NEW i \in DOMAIN dump, IsAccountRecord(dump[i]), ~Pruned(dump[i].account)
  PROVE  Writes(ResolveRecordAddress(dump[i])) # {}
  <1>. DEFINE r == RecordOf(dump[i])
  <1>1. r \in RecordsRead
    BY DEF RecordsRead, RecordOf
  <1>2. r \in KeptRecords
    BY <1>1 DEF KeptRecords, Promise!Kept, Pruned, RecordOf, IsEmptyAllocEntry,
                Promise!IsEmptyAllocEntry
  <1>3. [addr |-> r.addr, entry |-> Promise!EntryFor(base, r)] \in {alloc[j] : j \in DOMAIN alloc}
    BY <1>2 DEF IInv, MergeInv
  <1>4. PICK j \in DOMAIN alloc :
          alloc[j] = [addr |-> r.addr, entry |-> Promise!EntryFor(base, r)]
    BY <1>3
  <1>5. alloc[j].addr = ResolveRecordAddress(dump[i])
    BY <1>4 DEF RecordOf
  <1>. QED
    BY <1>5 DEF Writes

\* No account is dropped silently: see NothingDropped.
THEOREM NoAccountDropped == Spec => []NothingDropped
  <1>1. IInv /\ ReportInv => NothingDropped
    <2>. SUFFICES ASSUME IInv, ReportInv, outputFile = "complete",
                         NEW a \in DOMAIN base \ (replacedBaseEntries \cup protectedMerges)
                  PROVE  \E i \in DOMAIN alloc : alloc[i] = [addr |-> a, entry |-> base[a]]
      BY KeptRecordWritten DEF NothingDropped
    <2>1. a \in appended
      BY DEF ReportInv, IInv, MergeInv
    <2>2. [addr |-> a, entry |-> base[a]] \in {alloc[i] : i \in DOMAIN alloc}
      BY <2>1 DEF IInv, MergeInv
    <2>. QED
      BY <2>2
  <1>. QED
    BY <1>1, Invariance, ReportInvariant, PTL

\* The checks of the tail never end a run: what was written for a base entry
\* has taken it over or appended it, so nothing left is written twice, and what
\* is not written is left.
THEOREM ClosingChecksNeverFail == Spec => []ClosingChecksPass
  <1>1. IInv => ClosingChecksPass
    <2>. SUFFICES ASSUME IInv, pc = "appending"
                  PROVE  /\ \A a \in pendingBaseAlloc \ appended : ~WriteRejected(a, base[a])
                         /\ appended = pendingBaseAlloc => ProtectedBaseCode \subseteq protectedWritten
      BY DEF ClosingChecksPass
    <2>1. ASSUME NEW a \in ProtectedBaseCode, a \in protectedWritten
          PROVE  a \notin pendingBaseAlloc \ appended
      <3>1. PICK i \in DOMAIN alloc : Writes(a) = {i}
        BY <2>1 DEF IInv, ProtectedInv, KeptOnce
      <3>2. alloc[i].addr = a
        BY <3>1 DEF Writes
      <3>3. \/ \E r \in KeptRecords : alloc[i] = [addr |-> r.addr, entry |-> Promise!EntryFor(base, r)]
            \/ \E x \in appended : alloc[i] = [addr |-> x, entry |-> base[x]]
        BY DEF IInv, MergeInv
      <3>4. a \in TakenOver \/ a \in appended
        BY <3>2, <3>3 DEF TakenOver
      <3>. QED
        BY <3>4 DEF IInv, MergeInv
    <2>2. ASSUME NEW a \in pendingBaseAlloc \ appended PROVE ~WriteRejected(a, base[a])
      BY <2>1, <2>2 DEF WriteRejected
    <2>3. appended = pendingBaseAlloc => ProtectedBaseCode \subseteq protectedWritten
      BY DEF IInv, ProtectedInv
    <2>. QED
      BY <2>2, <2>3
  <1>. QED
    BY <1>1, Invariance, PTL

-----------------------------------------------------------------------------
(* Sums of balances *)

\* Induction: a set of numbers that holds 0 and with each number the next one
\* holds all of them, for the least number it lacks would have to be one.
LEMMA AllNumbers ==
  ASSUME NEW S \in SUBSET Nat, 0 \in S, \A n \in S : n + 1 \in S
  PROVE  S = Nat
  <1>. SUFFICES ASSUME Nat \ S # {} PROVE FALSE
    OBVIOUS
  <1>1. PICK n \in Nat \ S : \A m \in Nat \ S : ~(<<m, n>> \in OpToRel(<, Nat))
    <2>. DEFINE T == Nat \ S
    <2>1. T \subseteq Nat /\ T # {}
      OBVIOUS
    <2>. HIDE DEF T
    <2>2. \E n \in T : \A m \in T : ~(<<m, n>> \in OpToRel(<, Nat))
      BY <2>1, NatLessThanWellFounded, WFMin
    <2>. QED
      BY <2>2 DEF T
  <1>2. \A m \in Nat \ S : ~(m < n)
    BY <1>1 DEF OpToRel
  <1>3. n \in Nat /\ n # 0 /\ n \notin S
    BY <1>1
  <1>4. n - 1 \in Nat /\ n - 1 < n /\ (n - 1) + 1 = n
    BY <1>3
  <1>5. n - 1 \in S
    BY <1>2, <1>4
  <1>. QED
    BY <1>3, <1>4, <1>5

Chosen(S) == CHOOSE a \in S : TRUE

\* One step of the sum, with f for the rest of it.
SumStep(f, S) == IF S = {} THEN 0 ELSE base[Chosen(S)].balance + f[S \ {Chosen(S)}]

LEMMA BaseFinite ==
  ASSUME base \in Bases, NEW S \in SUBSET DOMAIN base
  PROVE  /\ IsFiniteSet(S) /\ Cardinality(S) \in Nat
         /\ Cardinality(S) <= Cardinality(DOMAIN base) /\ Cardinality(DOMAIN base) \in Nat
         /\ \A a \in S : /\ base[a].balance \in Nat
                         /\ S \ {a} \in SUBSET DOMAIN base
                         /\ Cardinality(S \ {a}) = Cardinality(S) - 1
         /\ S # {} => Chosen(S) \in S
         /\ Cardinality(S) = 0 <=> S = {}
  <1>1. IsFiniteSet(DOMAIN base)
    BY DumpToAllocAssumption
  <1>2. IsFiniteSet(S) /\ Cardinality(S) <= Cardinality(DOMAIN base)
    BY <1>1, FS_Subset
  <1>3. Cardinality(S) \in Nat /\ Cardinality(DOMAIN base) \in Nat
    BY <1>1, <1>2, FS_CardinalityType
  <1>4. ASSUME NEW a \in S
        PROVE  /\ base[a].balance \in Nat /\ S \ {a} \in SUBSET DOMAIN base
               /\ Cardinality(S \ {a}) = Cardinality(S) - 1
    BY <1>2, FS_RemoveElement, BaseTyped DEF BaseEntry
  <1>5. S # {} => Chosen(S) \in S
    BY DEF Chosen
  <1>6. Cardinality(S) = 0 <=> S = {}
    BY <1>2, FS_EmptySet
  <1>. QED
    BY <1>2, <1>3, <1>4, <1>5, <1>6

\* The recursion defines a function: there is one for the sets of up to n
\* elements, whatever n is.
LEMMA SumDefined ==
  ASSUME base \in Bases
  PROVE  BaseBalance = [S \in SUBSET DOMAIN base |-> SumStep(BaseBalance, S)]
  <1>. DEFINE D == SUBSET DOMAIN base
              Solves(f, n) == \A S \in D : Cardinality(S) <= n => f[S] = SumStep(f, S)
              Good == {n \in Nat : \E f \in [D -> Nat] : Solves(f, n)}
  <1>1. 0 \in Good
    <2>. DEFINE f == [S \in D |-> 0]
    <2>1. f \in [D -> Nat]
      OBVIOUS
    <2>2. ASSUME NEW S \in D, Cardinality(S) <= 0 PROVE f[S] = SumStep(f, S)
      <3>1. S = {}
        BY <2>2, BaseFinite
      <3>. QED
        BY <3>1 DEF SumStep
    <2>. QED
      BY <2>1, <2>2
  <1>2. ASSUME NEW n \in Good PROVE n + 1 \in Good
    <2>1. n \in Nat
      OBVIOUS
    <2>2. PICK f \in [D -> Nat] : Solves(f, n)
      OBVIOUS
    <2>. DEFINE g == [S \in D |-> IF Cardinality(S) <= n THEN f[S] ELSE SumStep(f, S)]
    <2>3. ASSUME NEW S \in D PROVE SumStep(f, S) \in Nat
      <3>1. S # {} => f[S \ {Chosen(S)}] \in Nat /\ base[Chosen(S)].balance \in Nat
        BY <2>2, BaseFinite
      <3>. QED
        BY <3>1 DEF SumStep
    <2>4. g \in [D -> Nat]
      BY <2>2, <2>3
    <2>5. ASSUME NEW S \in D, Cardinality(S) <= n + 1 PROVE g[S] = SumStep(g, S)
      <3>1. SumStep(g, S) = SumStep(f, S)
        <4>1. CASE S = {}
          BY <4>1 DEF SumStep
        <4>2. CASE S # {}
          <5>1. /\ S \ {Chosen(S)} \in D /\ Cardinality(S \ {Chosen(S)}) = Cardinality(S) - 1
                /\ Cardinality(S) \in Nat
            BY <4>2, BaseFinite
          <5>2. Cardinality(S \ {Chosen(S)}) <= n
            BY <2>1, <2>5, <5>1
          <5>3. g[S \ {Chosen(S)}] = f[S \ {Chosen(S)}]
            BY <5>1, <5>2
          <5>. QED
            BY <4>2, <5>3 DEF SumStep
        <4>. QED
          BY <4>1, <4>2
      <3>2. g[S] = SumStep(f, S)
        BY <2>2
      <3>. QED
        BY <3>1, <3>2
    <2>6. Solves(g, n + 1)
      BY <2>5
    <2>. HIDE DEF g, Solves
    <2>7. \E h \in [D -> Nat] : Solves(h, n + 1)
      BY <2>4, <2>6, Zenon
    <2>8. n + 1 \in Nat
      BY <2>1
    <2>. QED
      BY <2>7, <2>8, Zenon
  <1>3. Good = Nat
    <2>1. Good \in SUBSET Nat
      OBVIOUS
    <2>. HIDE DEF Good
    <2>. QED
      BY <1>1, <1>2, <2>1, AllNumbers
  <1>4. PICK f \in [D -> Nat] : Solves(f, Cardinality(DOMAIN base))
    <2>1. Cardinality(DOMAIN base) \in Nat
      BY BaseFinite
    <2>. QED
      BY <1>3, <2>1
  <1>5. f = [S \in D |-> SumStep(f, S)]
    <2>1. \A S \in D : f[S] = SumStep(f, S)
      BY <1>4, BaseFinite
    <2>. QED
      BY <2>1
  <1>. HIDE DEF Solves, Good
  <1>6. BaseBalance = CHOOSE h : h = [S \in SUBSET DOMAIN base |-> SumStep(h, S)]
    BY DEF BaseBalance, SumStep, Chosen
  <1>7. \E h : h = [S \in SUBSET DOMAIN base |-> SumStep(h, S)]
    BY <1>5
  <1>. QED
    BY <1>6, <1>7

\* The sum is a number, and any of its addresses can be taken out of it first.
LEMMA SumOfBase ==
  ASSUME base \in Bases, NEW S \in SUBSET DOMAIN base
  PROVE  /\ BaseBalance[S] \in Nat
         /\ BaseBalance[{}] = 0
         /\ \A a \in S : BaseBalance[S] = base[a].balance + BaseBalance[S \ {a}]
  <1>. DEFINE D == SUBSET DOMAIN base
              Right(R) == /\ BaseBalance[R] \in Nat
                          /\ \A a \in R : BaseBalance[R] = base[a].balance + BaseBalance[R \ {a}]
              Good == {n \in Nat : \A R \in D : Cardinality(R) <= n => Right(R)}
  <1>1. \A R \in D : BaseBalance[R] = SumStep(BaseBalance, R)
    BY SumDefined
  <1>2. BaseBalance[{}] = 0
    BY <1>1 DEF SumStep
  <1>3. 0 \in Good
    <2>1. ASSUME NEW R \in D, Cardinality(R) <= 0 PROVE R = {}
      BY <2>1, BaseFinite
    <2>2. Right({})
      BY <1>2
    <2>. HIDE DEF Right
    <2>. QED
      BY <2>1, <2>2
  <1>4. ASSUME NEW n \in Good PROVE n + 1 \in Good
    <2>1. n \in Nat /\ \A R \in D : Cardinality(R) <= n => Right(R)
      OBVIOUS
    <2>2. ASSUME NEW R \in D, Cardinality(R) <= n + 1, R # {} PROVE Right(R)
      <3>. DEFINE c == Chosen(R)
      <3>1. c \in R /\ BaseBalance[R] = base[c].balance + BaseBalance[R \ {c}]
        BY <1>1, <2>2, BaseFinite DEF SumStep
      <3>2. ASSUME NEW a \in R
            PROVE  R \ {a} \in D /\ Cardinality(R \ {a}) <= n /\ base[a].balance \in Nat
        BY <2>1, <2>2, BaseFinite
      <3>3. \A a \in R : Right(R \ {a})
        BY <2>1, <3>2
      <3>4. ASSUME NEW a \in R PROVE BaseBalance[R] = base[a].balance + BaseBalance[R \ {a}]
        <4>1. CASE a = c
          BY <3>1, <4>1
        <4>2. CASE a # c
          <5>1. BaseBalance[R \ {c}] = base[a].balance + BaseBalance[(R \ {c}) \ {a}]
            BY <3>1, <3>3, <4>2
          <5>2. BaseBalance[R \ {a}] = base[c].balance + BaseBalance[(R \ {a}) \ {c}]
            BY <3>1, <3>3, <4>2
          <5>3. (R \ {c}) \ {a} = (R \ {a}) \ {c}
            OBVIOUS
          <5>4. /\ base[a].balance \in Nat /\ base[c].balance \in Nat
                /\ BaseBalance[(R \ {a}) \ {c}] \in Nat
            <6>1. /\ base[a].balance \in Nat /\ base[c].balance \in Nat /\ R \ {a} \in D
                  /\ Cardinality(R \ {a}) <= n /\ c \in R \ {a}
              BY <3>1, <3>2, <4>2
            <6>2. (R \ {a}) \ {c} \in D /\ Cardinality((R \ {a}) \ {c}) <= n
              BY <2>1, <6>1, BaseFinite
            <6>. QED
              BY <2>1, <6>1, <6>2
          <5>. DEFINE A == base[a].balance
                      C == base[c].balance
                      Rest == BaseBalance[(R \ {a}) \ {c}]
          <5>5. /\ BaseBalance[R] = C + (A + Rest)
                /\ BaseBalance[R \ {a}] = C + Rest
            BY <3>1, <5>1, <5>2, <5>3, Zenon
          <5>6. A \in Nat /\ C \in Nat /\ Rest \in Nat
            BY <5>4
          <5>. HIDE DEF A, C, Rest
          <5>7. C + (A + Rest) = A + (C + Rest)
            BY <5>6
          <5>8. BaseBalance[R] = A + BaseBalance[R \ {a}]
            BY <5>5, <5>7, Zenon
          <5>. QED
            BY <5>8, Zenon DEF A
        <4>. QED
          BY <4>1, <4>2
      <3>5. BaseBalance[R] \in Nat
        BY <3>1, <3>2, <3>3
      <3>. QED
        BY <3>4, <3>5
    <2>3. Right({})
      BY <1>2
    <2>. HIDE DEF Right
    <2>4. \A R \in D : Cardinality(R) <= n + 1 => Right(R)
      BY <2>2, <2>3
    <2>. QED
      BY <2>1, <2>4
  <1>5. Good = Nat
    <2>1. Good \in SUBSET Nat
      OBVIOUS
    <2>. HIDE DEF Good
    <2>. QED
      BY <1>3, <1>4, <2>1, AllNumbers
  <1>6. Cardinality(S) \in Good /\ Cardinality(S) <= Cardinality(S)
    BY <1>5, BaseFinite
  <1>7. Right(S)
    BY <1>6
  <1>. QED
    BY <1>2, <1>7

-----------------------------------------------------------------------------
(* The totals of a run *)

\* The base addresses whose balance is in what has been written.
Counted == DOMAIN base \ (replacedBaseEntries \cup (pendingBaseAlloc \ appended))

\* A base entry is replaced, merged or pending, never two of these; every
\* account of the dump has been written or pruned; and the balances add up.
TotalsInv ==
  /\ replacedBaseEntries \cap protectedMerges = {}
  /\ pendingBaseAlloc \cap (replacedBaseEntries \cup protectedMerges) = {}
  /\ Len(alloc) + prunedAccounts = dumpAccounts + Cardinality(appended)
  /\ SupplyConserved

LEMMA SameSums ==
  ASSUME base' = base
  PROVE  BaseBalance' = BaseBalance
  BY DEF BaseBalance

\* A number added to both sides of the sum.
LEMMA SupplyKept ==
  ASSUME TypeOK, SupplyConserved, base' = base, Counted' = Counted, NEW x \in Nat,
         allocBalanceSum' = allocBalanceSum + x, dumpBalanceSum' = dumpBalanceSum + x
  PROVE  SupplyConserved'
  <1>. DEFINE s == BaseBalance[Counted]
  <1>1. s \in Nat
    BY SumOfBase DEF TypeOK, Counted
  <1>2. allocBalanceSum = dumpBalanceSum + s
    BY DEF SupplyConserved, Counted
  <1>3. BaseBalance'[Counted'] = s
    BY SameSums
  <1>. HIDE DEF s
  <1>4. allocBalanceSum' = dumpBalanceSum' + s
    BY <1>1, <1>2 DEF TypeOK
  <1>. QED
    BY <1>3, <1>4 DEF SupplyConserved, Counted

\* A base entry's balance added to what is written, and the address to those
\* that count.
LEMMA SupplyGains ==
  ASSUME TypeOK, SupplyConserved, base' = base, NEW a \in DOMAIN base, a \notin Counted,
         Counted' = Counted \cup {a}, NEW x \in Nat,
         allocBalanceSum' = allocBalanceSum + (base[a].balance + x),
         dumpBalanceSum' = dumpBalanceSum + x
  PROVE  SupplyConserved'
  <1>. DEFINE s == BaseBalance[Counted]
              b == base[a].balance
  <1>1. s \in Nat /\ b \in Nat
    BY SumOfBase, BaseTyped DEF TypeOK, Counted, BaseEntry
  <1>2. allocBalanceSum = dumpBalanceSum + s
    BY DEF SupplyConserved, Counted
  <1>3. BaseBalance[Counted \cup {a}] = b + s
    <2>1. Counted \cup {a} \in SUBSET DOMAIN base /\ a \in Counted \cup {a}
      BY DEF Counted
    <2>2. (Counted \cup {a}) \ {a} = Counted
      OBVIOUS
    <2>3. base \in Bases
      BY DEF TypeOK
    <2>4. BaseBalance[Counted \cup {a}] = b + BaseBalance[(Counted \cup {a}) \ {a}]
      BY <2>1, <2>3, SumOfBase
    <2>. QED
      BY <2>2, <2>4
  <1>4. BaseBalance'[Counted'] = b + s
    BY <1>3, SameSums
  <1>. HIDE DEF s, b
  <1>5. allocBalanceSum' = allocBalanceSum + (b + x)
    BY DEF b
  <1>6. allocBalanceSum' = dumpBalanceSum' + (b + s)
    BY <1>1, <1>2, <1>5 DEF TypeOK
  <1>. QED
    BY <1>4, <1>6 DEF SupplyConserved, Counted

LEMMA TotalsInit == Init => TotalsInv
  <1>. SUFFICES ASSUME Init PROVE TotalsInv
    OBVIOUS
  <1>1. DOMAIN base \ (replacedBaseEntries \cup (pendingBaseAlloc \ appended)) = {}
    BY DEF Init
  <1>2. BaseBalance[{}] = 0
    BY SumOfBase DEF Init
  <1>3. Cardinality(appended) = 0 /\ Len(alloc) = 0
    BY FS_EmptySet DEF Init
  <1>4. SupplyConserved
    <2>1. allocBalanceSum = 0 /\ dumpBalanceSum = 0
      BY DEF Init
    <2>. QED
      BY <1>1, <1>2, <2>1 DEF SupplyConserved
  <1>5. Len(alloc) + prunedAccounts = dumpAccounts + Cardinality(appended)
    <2>1. prunedAccounts = 0 /\ dumpAccounts = 0
      BY DEF Init
    <2>. QED
      BY <1>3, <2>1
  <1>6. replacedBaseEntries = {} /\ protectedMerges = {}
    BY DEF Init
  <1>. QED
    BY <1>4, <1>5, <1>6 DEF TotalsInv

\* Steps that write nothing and take nothing over.
LEMMA TotalsSame ==
  ASSUME TotalsInv, UNCHANGED <<base, writing, counters>>
  PROVE  TotalsInv'
  <1>1. BaseBalance' = BaseBalance
    BY SameSums
  <1>. QED
    BY <1>1 DEF TotalsInv, SupplyConserved, writing, counters

LEMMA WriteCounts ==
  ASSUME TypeOK, NEW a, NEW entry, WriteAllocPair(a, entry)
  PROVE  Len(alloc') = Len(alloc) + 1 /\ allocBalanceSum' = allocBalanceSum + entry.balance
  BY DEF TypeOK, WriteAllocPair

LEMMA TotalsRead ==
  ASSUME TypeOK, TotalsInv, NEW line \in Line, IsAccountRecord(line),
         PruneRecord(line) \/ MergeRecord(line) \/ WriteRecord(line)
  PROVE  TotalsInv'
  <1>. DEFINE a == ResolveRecordAddress(line)
              d == line.account
  <1>1. a \in Addr /\ d \in Account /\ d.balance \in Nat
    BY RecordOfLine DEF Account
  <1>2. base' = base /\ appended' = appended /\ appended = {}
    BY DEF PruneRecord, MergeRecord, WriteRecord, Converted, input, TypeOK
  <1>3. dumpAccounts' = dumpAccounts + 1 /\ dumpBalanceSum' = dumpBalanceSum + d.balance
    BY DEF PruneRecord, MergeRecord, WriteRecord, CountRecord
  <1>c. Cardinality(appended) = 0 /\ Cardinality(appended') = 0
    BY <1>2, FS_EmptySet
  <1>t. /\ dumpAccounts \in Nat /\ prunedAccounts \in Nat /\ Len(alloc) \in Nat
        /\ allocBalanceSum \in Nat
    BY DEF TypeOK
  <1>n. Len(alloc) + prunedAccounts = dumpAccounts
    BY <1>c, <1>t DEF TotalsInv
  <1>4. CASE PruneRecord(line)
    <2>1. /\ alloc' = alloc /\ prunedAccounts' = prunedAccounts + 1
          /\ UNCHANGED <<pendingBaseAlloc, replacedBaseEntries, protectedMerges, allocBalanceSum>>
      BY <1>4 DEF PruneRecord
    <2>2. d.balance = 0
      BY <1>4 DEF PruneRecord, Pruned, IsEmptyAllocEntry
    <2>3. Counted' = Counted
      BY <1>2, <2>1 DEF Counted
    <2>4. allocBalanceSum' = allocBalanceSum + 0 /\ dumpBalanceSum' = dumpBalanceSum + 0
      BY <1>3, <1>t, <2>1, <2>2
    <2>5. SupplyConserved'
      BY <1>2, <2>3, <2>4, SupplyKept DEF TotalsInv
    <2>6. Len(alloc') + prunedAccounts' = dumpAccounts' + Cardinality(appended')
      BY <1>3, <1>c, <1>t, <1>n, <2>1
    <2>. QED
      BY <2>1, <2>5, <2>6 DEF TotalsInv
  <1>5. CASE MergeRecord(line)
    <2>1. /\ pendingBaseAlloc' = pendingBaseAlloc \ {a}
          /\ protectedMerges' = protectedMerges \cup {a}
          /\ UNCHANGED <<prunedAccounts, replacedBaseEntries>>
          /\ a \in pendingBaseAlloc /\ a \in DOMAIN base
          /\ WriteAllocPair(a, MergeIntoProtectedEntry(base[a], d))
      BY <1>5 DEF MergeRecord, MustMerge, TypeOK
    <2>2. Len(alloc') = Len(alloc) + 1
      BY <2>1, WriteCounts
    <2>3. allocBalanceSum' = allocBalanceSum + (base[a].balance + d.balance)
      <3>1. MergeIntoProtectedEntry(base[a], d).balance = base[a].balance + d.balance
        BY <1>1, <2>1, BaseTyped, MergeKeepsContract DEF TypeOK
      <3>. QED
        BY <2>1, <3>1, WriteCounts
    <2>4. a \notin Counted /\ Counted' = Counted \cup {a}
      BY <1>2, <2>1 DEF Counted, TotalsInv
    <2>5. SupplyConserved'
      BY <1>1, <1>2, <1>3, <2>1, <2>3, <2>4, SupplyGains DEF TotalsInv
    <2>6. Len(alloc') + prunedAccounts' = dumpAccounts' + Cardinality(appended')
      BY <1>3, <1>c, <1>t, <1>n, <2>1, <2>2
    <2>. QED
      BY <2>1, <2>5, <2>6 DEF TotalsInv
  <1>6. CASE WriteRecord(line)
    <2>1. /\ pendingBaseAlloc' = pendingBaseAlloc \ {a}
          /\ replacedBaseEntries' = replacedBaseEntries \cup ({a} \cap pendingBaseAlloc)
          /\ UNCHANGED <<prunedAccounts, protectedMerges>>
          /\ WriteAllocPair(a, d)
      BY <1>6 DEF WriteRecord
    <2>2. Len(alloc') = Len(alloc) + 1 /\ allocBalanceSum' = allocBalanceSum + d.balance
      BY <2>1, WriteCounts
    <2>3. Counted' = Counted
      BY <1>2, <2>1 DEF Counted
    <2>4. SupplyConserved'
      BY <1>1, <1>2, <1>3, <2>2, <2>3, SupplyKept DEF TotalsInv
    <2>5. Len(alloc') + prunedAccounts' = dumpAccounts' + Cardinality(appended')
      BY <1>3, <1>c, <1>t, <1>n, <2>1, <2>2
    <2>. QED
      BY <2>1, <2>4, <2>5 DEF TotalsInv
  <1>. QED
    BY <1>4, <1>5, <1>6

LEMMA TotalsAppend ==
  ASSUME TypeOK, TotalsInv, NEW a \in Addr, AppendBaseEntry(a)
  PROVE  TotalsInv'
  <1>1. /\ appended' = appended \cup {a} /\ WriteAllocPair(a, base[a])
        /\ a \in pendingBaseAlloc /\ a \notin appended /\ a \in DOMAIN base
        /\ UNCHANGED <<base, pendingBaseAlloc, replacedBaseEntries, protectedMerges,
                       dumpAccounts, prunedAccounts, dumpBalanceSum>>
    BY DEF AppendBaseEntry, TypeOK, input, counters
  <1>2. Len(alloc') = Len(alloc) + 1 /\ allocBalanceSum' = allocBalanceSum + base[a].balance
    BY <1>1, WriteCounts
  <1>3. Cardinality(appended') = Cardinality(appended) + 1 /\ Cardinality(appended) \in Nat
    <2>1. IsFiniteSet(appended)
      BY FS_Subset, DumpToAllocAssumption DEF TypeOK
    <2>. QED
      BY <1>1, <2>1, FS_AddElement, FS_CardinalityType
  <1>4. Len(alloc') + prunedAccounts' = dumpAccounts' + Cardinality(appended')
    <2>1. /\ Len(alloc) \in Nat /\ prunedAccounts \in Nat /\ dumpAccounts \in Nat
          /\ Len(alloc) + prunedAccounts = dumpAccounts + Cardinality(appended)
      BY DEF TypeOK, TotalsInv
    <2>. QED
      BY <1>1, <1>2, <1>3, <2>1
  <1>5. a \notin Counted /\ Counted' = Counted \cup {a}
    BY <1>1 DEF Counted, TotalsInv
  <1>6. base[a].balance \in Nat
    BY <1>1, BaseTyped DEF TypeOK, BaseEntry
  <1>7. /\ allocBalanceSum' = allocBalanceSum + (base[a].balance + 0)
        /\ dumpBalanceSum' = dumpBalanceSum + 0
    BY <1>1, <1>2, <1>6 DEF TypeOK
  <1>8. SupplyConserved'
    BY <1>1, <1>5, <1>7, SupplyGains DEF TotalsInv
  <1>. QED
    BY <1>1, <1>4, <1>8 DEF TotalsInv

LEMMA TotalsNext == TypeOK /\ TotalsInv /\ [Next]_vars => TotalsInv'
  <1>. SUFFICES ASSUME TypeOK, TotalsInv, [Next]_vars PROVE TotalsInv'
    OBVIOUS
  <1>1. CASE OpenFiles \/ UnreadableBase \/ OpenOutput \/ EndOfDump \/ EndOutput
             \/ OutputFinished \/ OutputError
    BY <1>1, TotalsSame DEF OpenFiles, UnreadableBase, OpenOutput, EndOfDump, EndOutput,
                            OutputFinished, OutputError, input
  <1>2. ASSUME Fail PROVE TotalsInv'
    BY <1>2, TotalsSame DEF Fail, input
  <1>3. CASE InputError \/ EmptyDump
    BY <1>3, <1>2 DEF InputError, EmptyDump
  <1>4. CASE ReadLine
    <2>. PICK line \in Line :
           SkipLine(line) \/ PruneRecord(line) \/ MergeRecord(line)
             \/ WriteRecord(line) \/ RejectLine(line)
      BY <1>4 DEF ReadLine
    <2>1. CASE SkipLine(line)
      BY <2>1, TotalsSame DEF SkipLine, Converted, input, writing
    <2>2. CASE PruneRecord(line) \/ MergeRecord(line) \/ WriteRecord(line)
      <3>1. IsAccountRecord(line)
        BY <2>2 DEF PruneRecord, MergeRecord, WriteRecord
      <3>. QED
        BY <2>2, <3>1, TotalsRead
    <2>3. CASE RejectLine(line)
      BY <2>3, <1>2 DEF RejectLine
    <2>. QED
      BY <2>1, <2>2, <2>3
  <1>5. ASSUME NEW a \in Addr, AppendBaseEntry(a) PROVE TotalsInv'
    BY <1>5, TotalsAppend
  <1>6. CASE UNCHANGED vars
    BY <1>6, TotalsSame DEF vars, input
  <1>. QED
    BY <1>1, <1>3, <1>4, <1>5, <1>6 DEF Next

LEMMA TotalsInvariant == Spec => []TotalsInv
  BY TotalsInit, TotalsNext, TypeCorrect, PTL DEF Spec

\* What is written is the dump plus the base balances that were not replaced,
\* at every moment of the run: see SupplyConserved.
THEOREM SupplyIsConserved == Spec => []SupplyConserved
  <1>1. TotalsInv => SupplyConserved
    BY DEF TotalsInv
  <1>. QED
    BY <1>1, TotalsInvariant, PTL

\* A complete allocation has the entries the runbook tells the operator to
\* expect: see EntryCount.
THEOREM EntriesAsCounted == Spec => []EntryCount
  <1>1. IInv /\ ReportInv /\ TotalsInv => EntryCount
    <2>. SUFFICES ASSUME IInv, ReportInv, TotalsInv, outputFile = "complete"
                  PROVE  Len(alloc) = Cardinality(DOMAIN base) + dumpAccounts - prunedAccounts
                           - Cardinality(replacedBaseEntries) - Cardinality(protectedMerges)
      BY DEF EntryCount
    <2>. DEFINE R == replacedBaseEntries
                M == protectedMerges
    <2>1. appended = pendingBaseAlloc
      BY DEF IInv, MergeInv
    <2>2. /\ appended \subseteq DOMAIN base /\ R \subseteq DOMAIN base /\ M \subseteq DOMAIN base
      BY BaseTyped DEF IInv, TypeOK
    <2>3. DOMAIN base = appended \cup (R \cup M)
      BY <2>1, <2>2 DEF ReportInv
    <2>4. R \cap M = {} /\ appended \cap (R \cup M) = {}
      BY <2>1 DEF TotalsInv
    <2>5. IsFiniteSet(DOMAIN base)
      BY DumpToAllocAssumption DEF IInv, TypeOK
    <2>6. IsFiniteSet(appended) /\ IsFiniteSet(R) /\ IsFiniteSet(M)
      BY <2>2, <2>5, FS_Subset
    <2>. HIDE DEF R, M
    <2>7. /\ Cardinality(appended) \in Nat /\ Cardinality(R) \in Nat
          /\ Cardinality(M) \in Nat /\ Cardinality(DOMAIN base) \in Nat
      BY <2>5, <2>6, FS_CardinalityType
    <2>8. IsFiniteSet(R \cup M) /\ Cardinality(R \cup M) = Cardinality(R) + Cardinality(M)
      BY <2>4, <2>6, <2>7, FS_Union, FS_EmptySet
    <2>9. Cardinality(DOMAIN base) = Cardinality(appended) + (Cardinality(R) + Cardinality(M))
      <3>. DEFINE U == R \cup M
      <3>1. Cardinality(appended \cup U)
              = Cardinality(appended) + Cardinality(U) - Cardinality(appended \cap U)
        BY <2>6, <2>8, FS_Union
      <3>2. Cardinality(appended \cap U) = 0
        BY <2>4, FS_EmptySet
      <3>. HIDE DEF U
      <3>3. Cardinality(DOMAIN base) = Cardinality(appended) + Cardinality(U)
        BY <2>3, <2>7, <2>8, <3>1, <3>2 DEF U
      <3>. QED
        BY <2>8, <3>3 DEF U
    <2>10. /\ Len(alloc) \in Nat /\ prunedAccounts \in Nat /\ dumpAccounts \in Nat
           /\ Len(alloc) + prunedAccounts = dumpAccounts + Cardinality(appended)
      BY DEF IInv, TypeOK, TotalsInv
    <2>11. Len(alloc) = Cardinality(DOMAIN base) + dumpAccounts - prunedAccounts
                          - Cardinality(R) - Cardinality(M)
      <3>. DEFINE len == Len(alloc)
                  rest == Cardinality(appended)
                  r == Cardinality(R)
                  m == Cardinality(M)
                  n == Cardinality(DOMAIN base)
      <3>1. /\ len \in Nat /\ prunedAccounts \in Nat /\ dumpAccounts \in Nat /\ rest \in Nat
            /\ r \in Nat /\ m \in Nat /\ n \in Nat
            /\ len + prunedAccounts = dumpAccounts + rest /\ n = rest + (r + m)
        BY <2>7, <2>9, <2>10
      <3>. HIDE DEF len, rest, r, m, n
      <3>2. len = n + dumpAccounts - prunedAccounts - r - m
        BY <3>1
      <3>. QED
        BY <3>2 DEF len, r, m, n
    <2>. QED
      BY <2>11 DEF R, M
  <1>. QED
    BY <1>1, Invariance, ReportInvariant, TotalsInvariant, PTL
=============================================================================
