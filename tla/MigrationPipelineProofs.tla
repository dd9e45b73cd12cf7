---------------------- MODULE MigrationPipelineProofs ----------------------
(***************************************************************************)
(* What two clean runs of dumpcheck say of the allocation that goes into   *)
(* the L2 genesis, for any state of L1, any dump of it and any base        *)
(* genesis; and that an honest dump raises no alarm.                       *)
(***************************************************************************)
EXTENDS MigrationPipeline, DumpToAllocProofs, DumpCheckProofs

-----------------------------------------------------------------------------
(* Converter and checker read the same files *)

\* What the pipeline is given, and does not change.
GivenInv ==
  /\ l1 \in L1States /\ dumpFile \in DumpsOf(l1)
  /\ base = genesis.alloc /\ expectedRoot = RootOf(l1) /\ withAlloc

\* The converter has converted a prefix of the file, all of it once it appends
\* base entries.
ConvertedInv ==
  /\ Len(dump) <= Len(dumpFile)
  /\ \A i \in DOMAIN dump : dump[i] = LineSeen(dumpFile[i])
  /\ pc \in {"appending", "ending", "done"} => Len(dump) = Len(dumpFile)

\* A line that dumpcheck has nothing to say about.
Clean(line) ==
  /\ line.type # "junk"
  /\ line.type = "record" => ~BadKey(line) /\ ~Altered(line) /\ RecordAddress(line) # NoAddr

CheckedRecords ==
  {[addr |-> RecordAddress(dumpFile[i]), account |-> dumpFile[i].account] :
     i \in {j \in 1..checked : dumpFile[j].type = "record"}}

\* As long as nothing is wrong with the dump its lines are clean and their
\* records are those of the table; after the dump that is all of them.
CheckedInv ==
  /\ checked \in 0..Len(dumpFile)
  /\ (step = "dump" /\ ~problem) \/ step \in {"alloc", "verified"} =>
       /\ \A i \in 1..checked : Clean(dumpFile[i])
       /\ RecordsOf(byAddress) = CheckedRecords
  /\ step \in {"alloc", "verified"} => checked = Len(dumpFile)

\* The entries read are a prefix of what the converter has left, all of it
\* when they are verified.
EntriesReadInv ==
  /\ step # "dump" => pc \in {"done", "crashed", "failed"} /\ outputFile # "opening"
  /\ Len(entries) <= Len(alloc)
  /\ \A i \in DOMAIN entries : entries[i] = alloc[i]
  /\ step = "verified" => outputFile = "complete" /\ Len(entries) = Len(alloc)

PipelineInv == IInv /\ CheckInv /\ GivenInv /\ ConvertedInv /\ CheckedInv /\ EntriesReadInv

\* The lines of the file, for both readers.
LEMMA FileTyped ==
  ASSUME GivenInv
  PROVE  /\ dumpFile \in Seq(DumpLine) /\ DOMAIN dumpFile = 1..Len(dumpFile) /\ Len(dumpFile) \in Nat
         /\ \A i \in 1..Len(dumpFile) : dumpFile[i] \in DumpLine /\ LineSeen(dumpFile[i]) \in Line
  <1>1. dumpFile \in Seq(DumpLine) /\ \A i \in DOMAIN dumpFile : LineSeen(dumpFile[i]) \in Line
    BY MigrationPipelineAssumption DEF GivenInv
  <1>. QED
    BY <1>1

LEMMA SamePair == Pair = AllocEntry
  BY DEF Pair, AllocEntry

LEMMA IInvNext == IInv /\ [Next]_vars => IInv'
  BY NextTyped, ProtectedNext, MergeNext DEF IInv

\* Where they differ, the checker has a complaint: a clean record is the
\* account the converter makes of it.
LEMMA CleanRecordSeen ==
  ASSUME NEW line \in DumpLine, Clean(line)
  PROVE  /\ IsAccountRecord(LineSeen(line)) <=> line.type = "record"
         /\ line.type = "record" =>
              RecordOf(LineSeen(line)) = [addr |-> RecordAddress(line), account |-> line.account]
  <1>. DEFINE account == [line.account EXCEPT !.code = line.code, !.storage = line.storage]
  <1>1. CASE line.type = "header"
    <2>1. LineSeen(line) = [type |-> "other"]
      BY <1>1 DEF LineSeen
    <2>. QED
      BY <1>1, <2>1 DEF IsAccountRecord
  <1>2. CASE line.type = "record"
    <2>1. /\ line.account \in Account /\ account = line.account
          /\ line.key \in Nat \cup {NoKey} /\ line.addr \in Addr \cup {NoAddr}
      BY <1>2 DEF DumpLine, Clean, Altered, Account
    <2>2. CASE line.addr # NoAddr
      <3>1. LineSeen(line) = [type |-> "account", addr |-> line.addr, account |-> account]
        BY <1>2, <2>2 DEF LineSeen
      <3>. QED
        BY <1>2, <2>1, <2>2, <3>1
        DEF IsAccountRecord, IsOrphan, RecordOf, ResolveRecordAddress, RecordAddress
    <2>3. CASE line.addr = NoAddr
      <3>1. LineSeen(line) = [type |-> "keyOnly", zeroKey |-> line.key = KeyOf[ZeroAddress],
                              account |-> account]
        BY <1>2, <2>3 DEF LineSeen
      <3>2. line.key = KeyOf[ZeroAddress] /\ RecordAddress(line) = ZeroAddress
        BY <1>2, <2>3 DEF Clean, RecordAddress, RecordKey, BadKey
      <3>3. LineSeen(line) = [type |-> "keyOnly", zeroKey |-> TRUE, account |-> line.account]
        BY <2>1, <3>1, <3>2
      <3>4. IsAccountRecord(LineSeen(line))
        BY <3>3 DEF IsAccountRecord, IsOrphan
      <3>5. RecordOf(LineSeen(line)) = [addr |-> ZeroAddress, account |-> line.account]
        BY <3>3 DEF RecordOf, ResolveRecordAddress
      <3>. QED
        BY <1>2, <3>2, <3>4, <3>5
    <2>. QED
      BY <2>2, <2>3
  <1>. QED
    BY <1>1, <1>2 DEF DumpLine, Clean

-----------------------------------------------------------------------------
(* Steps of the converter *)

\* It converts lines, and has none of them ahead of the file.
LEMMA ConvertIsStep ==
  ASSUME GivenInv, IInv, Convert
  PROVE  /\ Next
         /\ pc \notin {"done", "crashed", "failed"} \/ outputFile = "opening"
         /\ UNCHANGED <<checkVars, l1, dumpFile, checked>>
  <1>1. CASE ConvertLine
    <2>1. Len(dump) + 1 \in 1..Len(dumpFile)
      BY <1>1, FileTyped DEF ConvertLine, IInv, TypeOK
    <2>2. LineSeen(dumpFile[Len(dump) + 1]) \in Line
      BY <2>1, FileTyped
    <2>3. ReadLine
      BY <1>1, <2>2 DEF ConvertLine, ReadLine
    <2>4. pc = "reading"
      BY <1>1 DEF ConvertLine, SkipLine, PruneRecord, MergeRecord, WriteRecord, RejectLine, Converted
    <2>. QED
      BY <2>3, <2>4 DEF Next, Convert
  <1>2. CASE ~ConvertLine
    <2>1. /\ \/ OpenFiles \/ UnreadableBase \/ OpenOutput \/ InputError
             \/ EndOfDump \/ EmptyDump
             \/ \E a \in Addr : AppendBaseEntry(a)
             \/ EndOutput \/ OutputFinished \/ OutputError
          /\ UNCHANGED <<checkVars, l1, dumpFile, checked>>
      BY <1>2 DEF Convert
    <2>2. Next
      BY <2>1 DEF Next
    <2>3. pc \notin {"done", "crashed", "failed"} \/ outputFile = "opening"
      BY <2>1 DEF OpenFiles, UnreadableBase, OpenOutput, InputError, EndOfDump, EmptyDump, AppendBaseEntry, EndOutput,
                  OutputFinished, OutputError
    <2>. QED
      BY <2>1, <2>2, <2>3
  <1>. QED
    BY <1>1, <1>2

\* Steps that convert a line, and those that do not.
LEMMA ConvertKeepsLines ==
  ASSUME GivenInv, IInv, ConvertedInv, Convert
  PROVE  ConvertedInv' /\ UNCHANGED base
  <1>1. /\ dump \in Seq(Line) /\ Len(dump) \in Nat /\ DOMAIN dump = 1..Len(dump)
        /\ Len(dumpFile) \in Nat
    BY FileTyped DEF IInv, TypeOK
  <1>2. UNCHANGED dumpFile
    BY DEF Convert
  <1>3. ASSUME NEW line, line = LineSeen(dumpFile[Len(dump) + 1]), Len(dump) < Len(dumpFile),
               Converted(line)
        PROVE  ConvertedInv' /\ UNCHANGED base
    <2>1. dump' = Append(dump, line) /\ pc = "reading" /\ pc' = "reading" /\ UNCHANGED base
      BY <1>3 DEF Converted, input
    <2>2. line \in Line
      BY <1>1, <1>3, FileTyped
    <2>3. /\ Len(dump') = Len(dump) + 1 /\ DOMAIN dump' = 1..Len(dump) + 1
          /\ \A i \in DOMAIN dump : dump'[i] = dump[i]
          /\ dump'[Len(dump) + 1] = line
      BY <1>1, <2>1, <2>2
    <2>4. \A i \in DOMAIN dump' : dump'[i] = LineSeen(dumpFile[i])
      BY <1>1, <1>3, <2>3 DEF ConvertedInv
    <2>5. \A i \in DOMAIN dump' : LineSeen(dumpFile[i])' = LineSeen(dumpFile[i])
      BY <1>2 DEF LineSeen
    <2>. QED
      BY <1>1, <1>2, <1>3, <2>1, <2>3, <2>4, <2>5 DEF ConvertedInv
  <1>4. ASSUME UNCHANGED <<base, dump>>,
               pc' \in {"appending", "ending", "done"} =>
                 pc \in {"appending", "ending", "done"} \/ Len(dump) = Len(dumpFile)
        PROVE  ConvertedInv' /\ UNCHANGED base
    <2>1. \A i \in DOMAIN dump : LineSeen(dumpFile[i])' = LineSeen(dumpFile[i])
      BY <1>2 DEF LineSeen
    <2>. QED
      BY <1>2, <1>4, <2>1 DEF ConvertedInv
  <1>5. ASSUME Fail PROVE ConvertedInv' /\ UNCHANGED base
    BY <1>4, <1>5 DEF Fail, input
  <1>6. CASE ConvertLine
    BY <1>3, <1>5, <1>6
    DEF ConvertLine, SkipLine, PruneRecord, MergeRecord, WriteRecord, RejectLine
  <1>7. CASE OpenFiles \/ UnreadableBase \/ OpenOutput
    BY <1>4, <1>7 DEF OpenFiles, UnreadableBase, OpenOutput, input
  <1>8. CASE InputError \/ EmptyDump
    BY <1>5, <1>8 DEF InputError, EmptyDump
  <1>9. CASE Len(dump) = Len(dumpFile) /\ EndOfDump
    BY <1>4, <1>9 DEF EndOfDump, input
  <1>10. ASSUME NEW a \in Addr, AppendBaseEntry(a) PROVE ConvertedInv' /\ UNCHANGED base
    BY <1>4, <1>10 DEF AppendBaseEntry, input
  <1>11. CASE EndOutput \/ OutputFinished
    BY <1>4, <1>11 DEF EndOutput, OutputFinished, input
  <1>12. CASE OutputError
    BY <1>4, <1>12 DEF OutputError, input
  <1>. QED
    BY <1>6, <1>7, <1>8, <1>9, <1>10, <1>11, <1>12 DEF Convert

LEMMA ConvertKeeps ==
  ASSUME PipelineInv, Convert
  PROVE  PipelineInv'
  <1>1. /\ Next
        /\ pc \notin {"done", "crashed", "failed"} \/ outputFile = "opening"
        /\ UNCHANGED <<checkVars, l1, dumpFile, checked>>
    BY ConvertIsStep DEF PipelineInv
  <1>2. IInv'
    BY <1>1, IInvNext DEF PipelineInv
  <1>3. CheckInv'
    BY <1>1, SameCheckKeeps DEF PipelineInv
  <1>4. ConvertedInv' /\ UNCHANGED base
    BY ConvertKeepsLines DEF PipelineInv
  <1>5. UNCHANGED <<expectedRoot, genesis, withAlloc, step, byAddress, problem, entries>>
    BY <1>1 DEF checkVars, given, dumpState, allocState
  <1>6. GivenInv'
    BY <1>1, <1>4, <1>5 DEF PipelineInv, GivenInv, RootOf
  <1>7. CheckedInv'
    BY <1>1, <1>5
    DEF PipelineInv, CheckedInv, CheckedRecords, RecordsOf, Clean, BadKey, Altered, RecordAddress,
        RecordKey
  <1>8. EntriesReadInv'
    <2>1. step = "dump" /\ entries = <<>>
      BY <1>1 DEF PipelineInv, EntriesReadInv, CheckInv, CheckTypes
    <2>2. Len(alloc') \in Nat
      BY <1>2 DEF IInv, TypeOK
    <2>. QED
      BY <1>5, <2>1, <2>2 DEF EntriesReadInv
  <1>. QED
    BY <1>2, <1>3, <1>4, <1>6, <1>7, <1>8 DEF PipelineInv

-----------------------------------------------------------------------------
(* Steps of the checker *)

\* A line that is no record leaves the table alone; a clean record adds its
\* account.
LEMMA RecordChecked ==
  ASSUME CheckInv, NEW line \in DumpLine, ReadRecord(line), ~problem'
  PROVE  /\ Clean(line) /\ ~problem
         /\ RecordsOf(byAddress')
              = RecordsOf(byAddress) \cup {[addr |-> RecordAddress(line), account |-> line.account]}
  <1>. DEFINE a == RecordAddress(line)
  <1>1. /\ ~problem /\ a # NoAddr /\ step = "dump" /\ ReadableRecord(line) /\ ~Altered(line)
        /\ line.type = "record" /\ ~BadKey(line)
    BY DEF ReadRecord, ReadableRecord
  <1>2. /\ DOMAIN byAddress' = DOMAIN byAddress \cup {a} /\ a \notin DOMAIN byAddress
        /\ byAddress'[a] = line.account
        /\ \A x \in DOMAIN byAddress : byAddress'[x] = byAddress[x]
    BY <1>1, RecordsTable, RecordIsNew DEF CheckInv
  <1>3. RecordsOf(byAddress') = RecordsOf(byAddress) \cup {[addr |-> a, account |-> line.account]}
    BY <1>2 DEF RecordsOf
  <1>. QED
    BY <1>1, <1>3 DEF Clean

LEMMA LineChecked ==
  ASSUME PipelineInv, CheckDumpLine, UNCHANGED dumpFile
  PROVE  CheckInv' /\ CheckedInv' /\ step = "dump" /\ UNCHANGED <<given, entries>>
         /\ step' \in {"dump", "failed"}
  <1>. DEFINE n == checked + 1
              line == dumpFile[n]
              R(m) == {[addr |-> RecordAddress(dumpFile[i]), account |-> dumpFile[i].account] :
                         i \in {j \in 1..m : dumpFile[j].type = "record"}}
  <1>1. checked \in Nat /\ Len(dumpFile) \in Nat
    <2>1. Len(dumpFile) \in Nat /\ checked \in 0..Len(dumpFile)
      BY FileTyped DEF PipelineInv, CheckedInv
    <2>. QED
      BY <2>1
  <1>2. checked' = n /\ n \in 1..Len(dumpFile)
    BY <1>1 DEF CheckDumpLine
  <1>3. 1..n = 1..checked \cup {n}
    BY <1>1
  <1>4. ReadHeader(line) \/ ReadRecord(line) \/ BadLine(line)
    BY DEF CheckDumpLine
  <1>5. line \in DumpLine
    BY <1>2, FileTyped DEF PipelineInv
  <1>6. /\ step = "dump" /\ UNCHANGED <<given, entries>> /\ step' \in {"dump", "failed"}
        /\ step' = "dump" => ReadHeader(line) \/ ReadRecord(line)
    BY <1>4 DEF ReadHeader, ReadRecord, BadLine, Reject, allocState
  <1>7. CheckInv'
    BY <1>4, <1>5, DumpLineKeeps DEF PipelineInv
  <1>8. \A i : Clean(dumpFile[i])' <=> Clean(dumpFile[i])
    BY DEF Clean, BadKey, Altered, RecordAddress, RecordKey
  <1>9. CheckedRecords = R(checked) /\ CheckedRecords' = R(n)
    BY <1>2 DEF CheckedRecords, RecordAddress, RecordKey
  <1>10. ASSUME step' = "dump", ~problem'
         PROVE  (\A i \in 1..n : Clean(dumpFile[i])) /\ RecordsOf(byAddress') = R(n)
    <2>. HIDE DEF n, line
    <2>1. CASE ReadHeader(line)
      <3>1. ~problem /\ byAddress' = byAddress /\ line.type = "header"
        BY <1>10, <2>1 DEF ReadHeader
      <3>2. Clean(line) /\ R(n) = R(checked)
        BY <1>3, <3>1 DEF Clean, line
      <3>. QED
        BY <1>3, <1>6, <1>9, <3>1, <3>2 DEF PipelineInv, CheckedInv, line
    <2>2. CASE ReadRecord(line)
      <3>1. /\ Clean(line) /\ ~problem /\ line.type = "record"
            /\ RecordsOf(byAddress') = RecordsOf(byAddress)
                 \cup {[addr |-> RecordAddress(line), account |-> line.account]}
        BY <1>5, <1>10, <2>2, RecordChecked DEF PipelineInv, ReadRecord, ReadableRecord
      <3>2. R(n) = R(checked) \cup {[addr |-> RecordAddress(line), account |-> line.account]}
        BY <1>3, <3>1 DEF line
      <3>. QED
        BY <1>3, <1>6, <1>9, <3>1, <3>2 DEF PipelineInv, CheckedInv, line
    <2>. QED
      BY <1>6, <1>10, <2>1, <2>2
  <1>11. RecordsOf(byAddress)' = RecordsOf(byAddress')
    BY DEF RecordsOf
  <1>12. CheckedInv'
    BY <1>1, <1>2, <1>6, <1>8, <1>9, <1>10, <1>11 DEF CheckedInv
  <1>. QED
    BY <1>6, <1>7, <1>12

\* What the checker's steps on the allocation leave alone.
LEMMA EntryChecked ==
  ASSUME PipelineInv, CheckAllocEntry
  PROVE  /\ CheckInv' /\ step = "alloc" /\ step' \in {"alloc", "failed"}
         /\ UNCHANGED <<given, dumpState>>
         /\ \/ entries' = entries
            \/ entries' = Append(entries, alloc[Len(entries) + 1]) /\ Len(entries) < Len(alloc)
  <1>. DEFINE pair == alloc[Len(entries) + 1]
  <1>1. Len(entries) < Len(alloc) /\ (ReadEntry(pair) \/ BadEntry(pair))
    BY DEF CheckAllocEntry
  <1>2. pair \in AllocEntry
    <2>1. /\ alloc \in Seq(Pair) /\ Len(alloc) \in Nat /\ DOMAIN alloc = 1..Len(alloc)
          /\ Len(entries) \in Nat
      BY DEF PipelineInv, IInv, TypeOK, CheckInv, CheckTypes
    <2>. QED
      BY <1>1, <2>1, SamePair
  <1>3. CheckInv'
    BY <1>1, <1>2, EntryKeeps, RejectKeeps DEF PipelineInv, BadEntry
  <1>. QED
    BY <1>1, <1>3 DEF ReadEntry, BadEntry, Reject, allocState

LEMMA CheckKeeps ==
  ASSUME PipelineInv, Check
  PROVE  PipelineInv'
  <1>1. /\ UNCHANGED <<vars, l1, dumpFile>>
        /\ outputFile \in {"partial", "complete"} /\ pc \in {"done", "crashed", "failed"}
    BY DEF Check
  <1>2. UNCHANGED <<pc, base, dump, alloc, outputFile>>
    BY <1>1 DEF vars, input, writing
  <1>3. IInv'
    BY <1>1, IInvNext DEF PipelineInv
  <1>4. ConvertedInv'
    BY <1>1, <1>2 DEF PipelineInv, ConvertedInv, LineSeen
  <1>5. ASSUME UNCHANGED given PROVE GivenInv'
    BY <1>1, <1>2, <1>5 DEF PipelineInv, GivenInv, given, RootOf
  <1>6. \A i : Clean(dumpFile[i])' <=> Clean(dumpFile[i])
    BY <1>1 DEF Clean, BadKey, Altered, RecordAddress, RecordKey
  <1>7. ASSUME UNCHANGED <<dumpState, checked>>,
               step' \in {"alloc", "verified"} =>
                 step \in {"alloc", "verified"}
                   \/ (step = "dump" /\ ~problem /\ checked = Len(dumpFile)),
               step' # "dump"
        PROVE  CheckedInv'
    <2>1. CheckedRecords' = CheckedRecords /\ RecordsOf(byAddress)' = RecordsOf(byAddress)
      BY <1>1, <1>7 DEF CheckedRecords, RecordAddress, RecordKey, RecordsOf, dumpState
    <2>. QED
      BY <1>1, <1>6, <1>7, <2>1 DEF PipelineInv, CheckedInv
  <1>8. ASSUME UNCHANGED entries,
               step' = "verified" => outputFile = "complete" /\ Len(entries) = Len(alloc)
        PROVE  EntriesReadInv'
    BY <1>1, <1>2, <1>8 DEF PipelineInv, EntriesReadInv
  <1>9. CASE CheckDumpLine
    <2>1. CheckInv' /\ CheckedInv' /\ UNCHANGED <<given, entries>> /\ step' \in {"dump", "failed"}
      BY <1>1, <1>9, LineChecked
    <2>. QED
      BY <1>3, <1>4, <1>5, <1>8, <2>1 DEF PipelineInv
  <1>10. CASE checked = Len(dumpFile) /\ EndDump /\ UNCHANGED checked
    <2>1. /\ step = "dump" /\ UNCHANGED <<given, dumpState, entries>>
          /\ step' \in {"alloc", "failed"} /\ (step' = "alloc" => ~problem)
      BY <1>10 DEF EndDump, DumpHolds, allocState, PipelineInv, GivenInv
    <2>2. CheckInv'
      BY <1>10, EndDumpKeeps DEF PipelineInv
    <2>3. CheckedInv' /\ EntriesReadInv'
      BY <1>7, <1>8, <1>10, <2>1
    <2>. QED
      BY <1>3, <1>4, <1>5, <2>1, <2>2, <2>3 DEF PipelineInv
  <1>11. CASE pc # "failed" /\ CheckAllocEntry /\ UNCHANGED checked
    <2>1. /\ CheckInv' /\ step = "alloc" /\ step' \in {"alloc", "failed"}
          /\ UNCHANGED <<given, dumpState>>
          /\ \/ entries' = entries
             \/ entries' = Append(entries, alloc[Len(entries) + 1]) /\ Len(entries) < Len(alloc)
      BY <1>11, EntryChecked
    <2>2. CheckedInv'
      BY <1>7, <1>11, <2>1
    <2>3. EntriesReadInv'
      <3>1. CASE entries' = entries
        BY <1>8, <2>1, <3>1
      <3>2. CASE entries' = Append(entries, alloc[Len(entries) + 1]) /\ Len(entries) < Len(alloc)
        <4>1. /\ entries \in Seq(AllocEntry) /\ Len(entries) \in Nat /\ DOMAIN entries = 1..Len(entries)
              /\ alloc \in Seq(Pair) /\ Len(alloc) \in Nat
          BY DEF PipelineInv, IInv, TypeOK, CheckInv, CheckTypes
        <4>2. /\ Len(entries') = Len(entries) + 1 /\ DOMAIN entries' = 1..Len(entries) + 1
              /\ \A i \in DOMAIN entries : entries'[i] = entries[i]
              /\ entries'[Len(entries) + 1] = alloc[Len(entries) + 1]
          BY <3>2, <4>1
        <4>3. \A i \in DOMAIN entries' : entries'[i] = alloc'[i]
          BY <1>2, <4>1, <4>2 DEF PipelineInv, EntriesReadInv
        <4>4. Len(entries') <= Len(alloc')
          BY <1>2, <3>2, <4>1, <4>2
        <4>. QED
          BY <1>1, <1>2, <2>1, <4>3, <4>4 DEF EntriesReadInv
      <3>. QED
        BY <2>1, <3>1, <3>2
    <2>. QED
      BY <1>3, <1>4, <1>5, <2>1, <2>2, <2>3 DEF PipelineInv
  <1>12. CASE /\ Len(entries) = Len(alloc) /\ outputFile = "complete"
              /\ EndAlloc /\ UNCHANGED checked
    <2>1. /\ step = "alloc" /\ step' \in {"verified", "failed"}
          /\ UNCHANGED <<given, dumpState, entries>>
      BY <1>12 DEF EndAlloc, allocState
    <2>2. CheckInv'
      BY <1>12, EndAllocKeeps DEF PipelineInv
    <2>3. CheckedInv' /\ EntriesReadInv'
      BY <1>7, <1>8, <1>12, <2>1
    <2>. QED
      BY <1>3, <1>4, <1>5, <2>1, <2>2, <2>3 DEF PipelineInv
  <1>13. CASE outputFile = "partial" /\ TruncatedAlloc /\ UNCHANGED checked
    <2>1. step' = "failed" /\ UNCHANGED <<given, dumpState, entries>>
      BY <1>13 DEF TruncatedAlloc, Reject, allocState
    <2>2. CheckInv'
      BY <1>13, RejectKeeps DEF PipelineInv, TruncatedAlloc
    <2>3. CheckedInv' /\ EntriesReadInv'
      BY <1>7, <1>8, <1>13, <2>1
    <2>. QED
      BY <1>3, <1>4, <1>5, <2>1, <2>2, <2>3 DEF PipelineInv
  <1>. QED
    BY <1>9, <1>10, <1>11, <1>12, <1>13 DEF Check

-----------------------------------------------------------------------------
(* The allocation that is carried on *)

LEMMA PipelineInitially == PipelineInit => PipelineInv
  <1>. SUFFICES ASSUME PipelineInit PROVE PipelineInv
    OBVIOUS
  <1>1. IInv
    BY InitTyped, ProtectedInit, MergeInit DEF PipelineInit, IInv
  <1>2. CheckInv
    BY CheckInitially DEF PipelineInit
  <1>3. GivenInv
    BY DEF PipelineInit, GivenInv
  <1>4. Len(dumpFile) \in Nat
    BY <1>3, FileTyped
  <1>5. ConvertedInv
    BY <1>4 DEF PipelineInit, Init, ConvertedInv
  <1>6. CheckedInv
    <2>1. byAddress = <<>> /\ DOMAIN byAddress = {} /\ checked = 0 /\ step = "dump"
      BY DEF PipelineInit, CheckInit
    <2>2. RecordsOf(byAddress) = {} /\ CheckedRecords = {}
      BY <2>1 DEF RecordsOf, CheckedRecords
    <2>. QED
      BY <1>4, <2>1, <2>2 DEF CheckedInv
  <1>7. EntriesReadInv
    BY DEF PipelineInit, Init, CheckInit, EntriesReadInv
  <1>. QED
    BY <1>1, <1>2, <1>3, <1>5, <1>6, <1>7 DEF PipelineInv

LEMMA PipelineSame ==
  ASSUME PipelineInv, UNCHANGED pipelineVars
  PROVE  PipelineInv'
  <1>1. UNCHANGED <<vars, checkVars, l1, dumpFile, checked>>
    BY DEF pipelineVars
  <1>2. UNCHANGED <<pc, base, dump, alloc, outputFile, expectedRoot, genesis, withAlloc, step,
                    byAddress, problem, entries>>
    BY <1>1 DEF vars, input, writing, checkVars, given, dumpState, allocState
  <1>3. IInv' /\ CheckInv'
    BY <1>1, IInvNext, SameCheckKeeps DEF PipelineInv
  <1>4. GivenInv' /\ ConvertedInv' /\ EntriesReadInv'
    <2>1. GivenInv'
      BY <1>1, <1>2 DEF PipelineInv, GivenInv, RootOf
    <2>2. ConvertedInv'
      BY <1>1, <1>2 DEF PipelineInv, ConvertedInv, LineSeen
    <2>3. EntriesReadInv'
      BY <1>2 DEF PipelineInv, EntriesReadInv
    <2>. QED
      BY <2>1, <2>2, <2>3
  <1>5. CheckedInv'
    BY <1>1, <1>2
    DEF PipelineInv, CheckedInv, CheckedRecords, RecordsOf, Clean, BadKey, Altered, RecordAddress,
        RecordKey
  <1>. QED
    BY <1>3, <1>4, <1>5 DEF PipelineInv

LEMMA PipelineInvariant == PipelineSpec => []PipelineInv
  <1>1. PipelineInv /\ [PipelineNext]_pipelineVars => PipelineInv'
    BY ConvertKeeps, CheckKeeps, PipelineSame DEF PipelineNext
  <1>. QED
    BY <1>1, PipelineInitially, PTL DEF PipelineSpec

\* Two states with the same root are the same.
LEMMA RootNamesState ==
  ASSUME NEW s, NEW t, DOMAIN s \subseteq Addr, DOMAIN t \subseteq Addr, RootOf(s) = RootOf(t)
  PROVE  RecordsOf(s) \subseteq RecordsOf(t)
  <1>1. ASSUME NEW a \in DOMAIN s PROVE a \in DOMAIN t /\ s[a] = t[a]
    <2>1. [key |-> KeyOf[a], account |-> s[a]] \in RootOf(t)
      BY DEF RootOf
    <2>2. PICK b \in DOMAIN t : [key |-> KeyOf[a], account |-> s[a]] = [key |-> KeyOf[b], account |-> t[b]]
      BY <2>1 DEF RootOf
    <2>. QED
      BY <2>2, DumpCheckAssumption
  <1>. QED
    BY <1>1 DEF RecordsOf

\* What the converter has read of a dump without a complaint is L1.
LEMMA ReadIsL1 ==
  ASSUME PipelineInv, step = "verified", pc = "done"
  PROVE  RecordsRead = RecordsOf(l1)
  <1>1. /\ checked = Len(dumpFile) /\ RecordsOf(byAddress) = CheckedRecords
        /\ \A i \in 1..checked : Clean(dumpFile[i])
    BY DEF PipelineInv, CheckedInv
  <1>2. /\ DOMAIN dump = 1..Len(dumpFile)
        /\ \A i \in DOMAIN dump : dump[i] = LineSeen(dumpFile[i]) /\ dumpFile[i] \in DumpLine
    BY FileTyped DEF PipelineInv, IInv, TypeOK, ConvertedInv
  <1>3. \A i \in DOMAIN dump :
          /\ IsAccountRecord(dump[i]) <=> dumpFile[i].type = "record"
          /\ dumpFile[i].type = "record" =>
               RecordOf(dump[i])
                 = [addr |-> RecordAddress(dumpFile[i]), account |-> dumpFile[i].account]
    BY <1>1, <1>2, CleanRecordSeen
  <1>4. RecordsRead = CheckedRecords
    <2>1. RecordsRead = {RecordOf(dump[i]) : i \in {j \in DOMAIN dump : IsAccountRecord(dump[j])}}
      BY DEF RecordsRead, RecordOf
    <2>. QED
      BY <1>1, <1>2, <1>3, <2>1 DEF CheckedRecords
  <1>5. RootOf(byAddress) = RootOf(l1)
    BY MigrationPipelineAssumption DEF PipelineInv, CheckInv, RootInv, GivenInv
  <1>6. DOMAIN byAddress \subseteq Addr /\ DOMAIN l1 \subseteq Addr
    BY MigrationPipelineAssumption DEF PipelineInv, GivenInv, CheckInv, CheckTypes, CheckTypeOK
  <1>7. RecordsOf(byAddress) = RecordsOf(l1)
    BY <1>5, <1>6, RootNamesState
  <1>. QED
    BY <1>1, <1>4, <1>7

\* The promise's operators are the checker's.
LEMMA SamePromise ==
  /\ \A R : Promise!Merged(base, R, pruneEmpty) = Merged(base, R, pruneEmpty)
  /\ \A R : Promise!Mergeable(base, R, pruneEmpty) <=> Mergeable(base, R, pruneEmpty)
  /\ \A R : Promise!Kept(R, pruneEmpty) = Kept(R, pruneEmpty)
  /\ \A r : Promise!EntryFor(base, r) = EntryFor(base, r)
  BY DEF Promise!Merged, Promise!Kept, Promise!EntryFor, Promise!Protected, Promise!Mergeable,
         Promise!IsEmptyAllocEntry, Promise!IsProtectedBaseEntry, Promise!CannotMerge,
         Promise!MergeIntoProtectedEntry, Merged, Kept, EntryFor, Protected, Mergeable,
         IsEmptyAllocEntry, IsProtectedBaseEntry, MergeIntoProtectedEntry, CannotMerge

\* dumpcheck looks at no entry unless each address of the base genesis is there
\* once.
GenesisInv == step \in {"alloc", "verified"} => ~genesis.twice

LEMMA GenesisInvariant == PipelineSpec => []GenesisInv
  <1>1. PipelineInit => GenesisInv
    BY DEF PipelineInit, CheckInit, GenesisInv
  <1>2. PipelineInv /\ GenesisInv /\ [PipelineNext]_pipelineVars => GenesisInv'
    <2>. SUFFICES ASSUME PipelineInv, GenesisInv, [PipelineNext]_pipelineVars PROVE GenesisInv'
      OBVIOUS
    <2>1. CASE UNCHANGED checkVars
      BY <2>1 DEF GenesisInv, checkVars, given
    <2>2. ASSUME Check PROVE GenesisInv'
      <3>1. CASE CheckDumpLine
        <4>1. step' \in {"dump", "failed"}
          BY <2>2, <3>1, LineChecked DEF Check
        <4>. QED
          BY <4>1 DEF GenesisInv
      <3>2. CASE EndDump
        BY <3>2 DEF EndDump, BadGenesis, GenesisInv, PipelineInv, GivenInv, given
      <3>3. CASE CheckAllocEntry
        <4>1. step = "alloc" /\ UNCHANGED given
          BY <3>3, EntryChecked
        <4>. QED
          BY <4>1 DEF GenesisInv, given
      <3>4. CASE EndAlloc \/ TruncatedAlloc
        BY <3>4 DEF EndAlloc, TruncatedAlloc, Reject, GenesisInv, given
      <3>. QED
        BY <2>2, <3>1, <3>2, <3>3, <3>4 DEF Check
    <2>. QED
      BY <2>1, <2>2 DEF PipelineNext, Convert, pipelineVars
  <1>. QED
    BY <1>1, <1>2, PipelineInvariant, PTL DEF PipelineSpec

\* No allocation goes into the L2 genesis that is not the merge of the base
\* genesis and the state L1 was frozen in.
THEOREM SignedOffHolds == PipelineSpec => []SignedOffIsMerge
  <1>1. ASSUME PipelineInv, GenesisInv PROVE SignedOffIsMerge
    <2>. SUFFICES ASSUME step = "verified" PROVE SignedOffIsMerge
      BY DEF SignedOffIsMerge
    <2>1. outputFile = "complete" /\ pc = "done"
      BY <1>1 DEF PipelineInv, EntriesReadInv, IInv, MergeInv
    <2>2. {alloc[i] : i \in DOMAIN alloc} = Merged(base, RecordsOf(l1), pruneEmpty)
      <3>1. {alloc[i] : i \in DOMAIN alloc} = Promise!Merged(base, RecordsRead, pruneEmpty)
        BY <1>1, <2>1, WholeMergeWritten DEF PipelineInv
      <3>. QED
        BY <1>1, <2>1, <3>1, SamePromise, ReadIsL1
    <2>3. {AllocPair(alloc[i]) : i \in DOMAIN alloc}
            = {AllocPair(m) : m \in Merged(base, RecordsOf(l1), pruneEmpty)}
      <3>1. {AllocPair(alloc[i]) : i \in DOMAIN alloc}
              = {AllocPair(m) : m \in {alloc[i] : i \in DOMAIN alloc}}
        OBVIOUS
      <3>. QED
        BY <2>2, <3>1
    <2>4. \A i, j \in DOMAIN alloc : alloc[i].addr = alloc[j].addr => i = j
      <3>1. /\ DOMAIN entries = DOMAIN alloc
            /\ \A i \in DOMAIN entries : entries[i] = alloc[i]
        BY <1>1 DEF PipelineInv, EntriesReadInv, IInv, TypeOK, CheckInv, CheckTypes
      <3>2. \A i, j \in DOMAIN entries : entries[i].addr = entries[j].addr => i = j
        BY <1>1 DEF PipelineInv, GivenInv, CheckInv, VerifiedInv, EntriesInv, Read
      <3>. QED
        BY <3>1, <3>2
    <2>. QED
      BY <1>1, <2>1, <2>3, <2>4 DEF SignedOffIsMerge, GenesisInv
  <1>. QED
    BY <1>1, PipelineInvariant, GenesisInvariant, PTL

-----------------------------------------------------------------------------
(* An honest dump passes *)

\* Once the output is open, the code of each base entry could be read.
ReadableBase ==
  pc \notin {"start", "failed"} => \A a \in DOMAIN base : base[a].code # BadCode

\* From an honest dump no address is written twice.
WrittenOnce ==
  HonestDump => \A i, j \in DOMAIN alloc : alloc[i].addr = alloc[j].addr => i = j

\* The checker follows an honest dump line by line, without a complaint.
LinesPass ==
  HonestDump /\ BalancesFit /\ step = "dump" =>
    /\ ~problem
    /\ header = IF checked = 0 THEN NoRoot ELSE RootOf(l1)
    /\ prevKey = IF checked <= 1 THEN -1 ELSE RecordKey(dumpFile[checked])

\* And then what the converter has made of it, entry by entry.
EntriesPass == HonestDump /\ BalancesFit /\ pc = "done" /\ step = "alloc" => ~problem

HonestInv == ReadableBase /\ WrittenOnce /\ LinesPass /\ EntriesPass

\* Both readers see an account of L1 in each line of an honest dump after the
\* header.
LEMMA HonestLine ==
  ASSUME GivenInv, HonestDump, NEW i \in 2..Len(dumpFile)
  PROVE  LET line == dumpFile[i]
             a == RecordAddress(line)
         IN  /\ line \in DumpLine /\ line.type = "record" /\ Clean(line)
             /\ [addr |-> a, account |-> line.account] \in RecordsOf(l1)
             /\ a \in DOMAIN l1 /\ a \in Addr /\ line.account = l1[a]
             /\ RecordKey(line) = KeyOf[a]
             /\ LineSeen(line) \in Line /\ IsAccountRecord(LineSeen(line))
             /\ RecordOf(LineSeen(line)) = [addr |-> a, account |-> line.account]
  <1>. DEFINE line == dumpFile[i]
              a == RecordAddress(line)
  <1>1. line \in DumpLine /\ LineSeen(line) \in Line
    BY FileTyped
  <1>2. line.type = "record" /\ ~BadKey(line) /\ ~Altered(line)
    BY DEF HonestDump
  <1>3. [addr |-> a, account |-> line.account] \in RecordsOf(l1)
    BY DEF HonestDump
  <1>4. a \in DOMAIN l1 /\ line.account = l1[a]
    BY <1>3 DEF RecordsOf
  <1>5. DOMAIN l1 \subseteq Addr
    BY MigrationPipelineAssumption DEF GivenInv
  <1>6. a # NoAddr
    BY <1>4, <1>5, DumpCheckAssumption
  <1>7. Clean(line)
    BY <1>2, <1>6 DEF Clean
  <1>8. RecordKey(line) = KeyOf[a]
    BY <1>2, <1>6, <1>1 DEF RecordKey, RecordAddress, BadKey
  <1>9. IsAccountRecord(LineSeen(line))
        /\ RecordOf(LineSeen(line)) = [addr |-> a, account |-> line.account]
    BY <1>1, <1>2, <1>7, CleanRecordSeen
  <1>. QED
    BY <1>1, <1>2, <1>3, <1>4, <1>5, <1>7, <1>8, <1>9

\* No two lines have the same account.
LEMMA HonestLinesDiffer ==
  ASSUME GivenInv, HonestDump, NEW i \in 2..Len(dumpFile), NEW j \in 2..Len(dumpFile), i < j
  PROVE  RecordAddress(dumpFile[i]) # RecordAddress(dumpFile[j])
  <1>1. RecordKey(dumpFile[i]) < RecordKey(dumpFile[j])
    BY DEF HonestDump
  <1>2. /\ RecordKey(dumpFile[i]) = KeyOf[RecordAddress(dumpFile[i])]
        /\ RecordKey(dumpFile[j]) = KeyOf[RecordAddress(dumpFile[j])]
        /\ RecordAddress(dumpFile[i]) \in Addr /\ RecordAddress(dumpFile[j]) \in Addr
    BY HonestLine
  <1>3. KeyOf[RecordAddress(dumpFile[i])] \in Nat
    BY <1>2, DumpCheckAssumption
  <1>. QED
    BY <1>1, <1>2, <1>3

\* What has been read of an honest dump.
LEMMA HonestRead ==
  ASSUME PipelineInv, HonestDump
  PROVE  /\ Len(dump) \in Nat /\ Len(dumpFile) \in Nat /\ Len(dump) <= Len(dumpFile)
         /\ RecordsRead = {RecordOf(LineSeen(dumpFile[i])) : i \in 2..Len(dump)}
         /\ Len(dump) = Len(dumpFile) => RecordsRead = RecordsOf(l1)
  <1>1. /\ Len(dump) \in Nat /\ DOMAIN dump = 1..Len(dump)
        /\ Len(dumpFile) \in Nat /\ Len(dump) <= Len(dumpFile)
        /\ \A i \in 1..Len(dump) : dump[i] = LineSeen(dumpFile[i])
    <2>1. dump \in Seq(Line) /\ Len(dumpFile) \in Nat
      BY FileTyped DEF PipelineInv, IInv, TypeOK
    <2>2. Len(dump) <= Len(dumpFile) /\ \A i \in DOMAIN dump : dump[i] = LineSeen(dumpFile[i])
      BY DEF PipelineInv, ConvertedInv
    <2>. QED
      BY <2>1, <2>2
  <1>2. \A i \in 2..Len(dump) : IsAccountRecord(LineSeen(dumpFile[i]))
    <2>1. 2..Len(dump) \subseteq 2..Len(dumpFile)
      BY <1>1
    <2>2. \A i \in 2..Len(dumpFile) : IsAccountRecord(LineSeen(dumpFile[i]))
      BY HonestLine DEF PipelineInv
    <2>. QED
      BY <2>1, <2>2
  <1>3. ~IsAccountRecord(LineSeen(dumpFile[1]))
    <2>1. LineSeen(dumpFile[1]) = [type |-> "other"]
      BY DEF HonestDump, LineSeen
    <2>. QED
      BY <2>1 DEF IsAccountRecord
  <1>4. {j \in DOMAIN dump : IsAccountRecord(dump[j])} = 2..Len(dump)
    BY <1>1, <1>2, <1>3
  <1>5. RecordsRead = {RecordOf(dump[i]) : i \in 2..Len(dump)}
    BY <1>4 DEF RecordsRead, RecordOf
  <1>6. RecordsRead = {RecordOf(LineSeen(dumpFile[i])) : i \in 2..Len(dump)}
    BY <1>1, <1>5
  <1>7. ASSUME Len(dump) = Len(dumpFile) PROVE RecordsRead = RecordsOf(l1)
    <2>1. \A i \in 2..Len(dumpFile) :
            RecordOf(LineSeen(dumpFile[i]))
              = [addr |-> RecordAddress(dumpFile[i]), account |-> dumpFile[i].account]
      BY HonestLine DEF PipelineInv
    <2>2. {RecordOf(LineSeen(dumpFile[i])) : i \in 2..Len(dumpFile)}
            = {[addr |-> RecordAddress(dumpFile[i]), account |-> dumpFile[i].account] :
                 i \in 2..Len(dumpFile)}
      BY <2>1
    <2>3. RecordsRead = {RecordOf(LineSeen(dumpFile[i])) : i \in 2..Len(dumpFile)}
      BY <1>6, <1>7
    <2>. QED
      BY <2>2, <2>3 DEF HonestDump
  <1>. QED
    BY <1>1, <1>6, <1>7

\* Each pair written is that of an account that was read, or an appended one.
LEMMA WrittenAddresses ==
  ASSUME IInv, NEW i \in DOMAIN alloc
  PROVE  /\ alloc[i].addr \in TakenOver \cup appended
         /\ alloc[i] \in Pair
  <1>1. alloc[i] \in {[addr |-> r.addr, entry |-> Promise!EntryFor(base, r)] : r \in KeptRecords}
                       \cup {[addr |-> a, entry |-> base[a]] : a \in appended}
    BY DEF IInv, MergeInv
  <1>2. alloc[i] \in Pair
    BY DEF IInv, TypeOK
  <1>. QED
    BY <1>1, <1>2 DEF TakenOver

\* The account of the next line of an honest dump is none of those read.
LEMMA NextIsNew ==
  ASSUME PipelineInv, HonestDump, Len(dump) + 1 \in 2..Len(dumpFile)
  PROVE  RecordAddress(dumpFile[Len(dump) + 1]) \notin TakenOver
  <1>. DEFINE n == Len(dump) + 1
  <1>1. SUFFICES ASSUME NEW r \in RecordsRead, r.addr = RecordAddress(dumpFile[n]) PROVE FALSE
    BY DEF TakenOver, KeptRecords, Promise!Kept
  <1>2. Len(dump) \in Nat /\ Len(dumpFile) \in Nat
    BY HonestRead
  <1>3. PICK i \in 2..Len(dump) : r = RecordOf(LineSeen(dumpFile[i]))
    BY HonestRead
  <1>4. i \in 2..Len(dumpFile) /\ n \in 2..Len(dumpFile) /\ i < n
    BY <1>2, <1>3
  <1>5. r.addr = RecordAddress(dumpFile[i])
    <2>1. RecordOf(LineSeen(dumpFile[i]))
            = [addr |-> RecordAddress(dumpFile[i]), account |-> dumpFile[i].account]
      BY <1>4, HonestLine DEF PipelineInv
    <2>. QED
      BY <1>3, <2>1
  <1>. QED
    BY <1>1, <1>4, <1>5, HonestLinesDiffer DEF PipelineInv

\* The converter refuses no account of an honest dump that can be merged.
LEMMA HonestNotRejected ==
  ASSUME PipelineInv, HonestDump, Mergeable(base, RecordsOf(l1), pruneEmpty), pc = "reading",
         Len(dump) + 1 \in 2..Len(dumpFile)
  PROVE  LET line == LineSeen(dumpFile[Len(dump) + 1])
         IN  ~Rejected(ResolveRecordAddress(line), line.account)
  <1>. DEFINE raw == dumpFile[Len(dump) + 1]
              line == LineSeen(raw)
              a == ResolveRecordAddress(line)
              d == line.account
  <1>1. /\ [addr |-> a, account |-> d] \in RecordsOf(l1)
        /\ a = RecordAddress(raw) /\ a \in Addr
    <2>1. /\ RecordOf(line) = [addr |-> RecordAddress(raw), account |-> raw.account]
          /\ [addr |-> RecordAddress(raw), account |-> raw.account] \in RecordsOf(l1)
          /\ RecordAddress(raw) \in Addr
      BY HonestLine DEF PipelineInv
    <2>2. a = RecordAddress(raw) /\ d = raw.account
      BY <2>1 DEF RecordOf
    <2>. QED
      BY <2>1, <2>2
  <1>2. a \notin TakenOver
    BY <1>1, NextIsNew
  <1>3. a \in DOMAIN base => a \in pendingBaseAlloc
    BY <1>2 DEF PipelineInv, IInv, MergeInv
  <1>4. a \in ProtectedBaseCode => a \notin protectedWritten
    <2>. SUFFICES ASSUME a \in ProtectedBaseCode, a \in protectedWritten PROVE FALSE
      OBVIOUS
    <2>1. PICK i \in DOMAIN alloc : alloc[i].addr = a
      BY DEF PipelineInv, IInv, ProtectedInv, KeptOnce, Writes
    <2>2. appended = {}
      BY DEF PipelineInv, IInv, TypeOK
    <2>. QED
      BY <1>2, <2>1, <2>2, WrittenAddresses DEF PipelineInv
  <1>5. SUFFICES ASSUME ~Pruned(d), a \in ProtectedBaseCode
                 PROVE  ~CannotMerge(base[a], d)
                        /\ MergeIntoProtectedEntry(base[a], d).code = base[a].code
    <2>1. MustMerge(a) <=> a \in ProtectedBaseCode
      BY <1>3 DEF MustMerge, ProtectedBaseCode
    <2>2. ~Rejected(a, d)
      <3>. HIDE DEF a, d
      <3>. QED
        BY <1>4, <1>5, <2>1 DEF Rejected, WriteRejected
    <2>. QED
      BY <2>2
  <1>6. a \in Protected(base)
    BY <1>5 DEF ProtectedBaseCode, Protected
  <1>7. [addr |-> a, account |-> d] \in Kept(RecordsOf(l1), pruneEmpty)
    BY <1>1, <1>5 DEF Kept, Pruned
  <1>8. ~CannotMerge(base[a], d)
    BY <1>6, <1>7 DEF Mergeable
  <1>9. base[a] \in BaseEntry
    BY <1>5, BaseTyped DEF PipelineInv, IInv, TypeOK
  <1>10. MergeIntoProtectedEntry(base[a], d).code = base[a].code
    BY <1>9 DEF MergeIntoProtectedEntry, BaseEntry
  <1>. QED
    BY <1>8, <1>10

\* Of the mergeable ones none ends the conversion.
LEMMA HonestConverted ==
  ASSUME PipelineInv, HonestDump, l1 # <<>>, Mergeable(base, RecordsOf(l1), pruneEmpty)
  PROVE  ~Refuses
  <1>1. /\ Len(dump) \in Nat /\ Len(dumpFile) \in Nat
        /\ Len(dump) = Len(dumpFile) => RecordsRead = RecordsOf(l1)
    BY HonestRead
  <1>2. ASSUME Len(dump) < Len(dumpFile) PROVE ~RejectLine(LineSeen(dumpFile[Len(dump) + 1]))
    <2>. DEFINE line == LineSeen(dumpFile[Len(dump) + 1])
    <2>1. Len(dump) + 1 \in 1..Len(dumpFile)
      BY <1>1, <1>2
    <2>2. SUFFICES ASSUME pc = "reading" PROVE ~RejectLine(line)
      BY DEF RejectLine
    <2>3. CASE Len(dump) + 1 = 1
      <3>1. line = [type |-> "other"]
        BY <2>3 DEF HonestDump, LineSeen
      <3>. HIDE DEF line
      <3>. QED
        BY <3>1 DEF RejectLine, IsOrphan, IsAccountRecord
    <2>4. CASE Len(dump) + 1 # 1
      <3>1. Len(dump) + 1 \in 2..Len(dumpFile)
        BY <1>1, <2>1, <2>4
      <3>2. IsAccountRecord(line)
        BY <3>1, HonestLine DEF PipelineInv
      <3>3. ~Rejected(ResolveRecordAddress(line), line.account)
        BY <2>2, <3>1, HonestNotRejected
      <3>. HIDE DEF line
      <3>. QED
        BY <3>2, <3>3 DEF RejectLine, IsAccountRecord
    <2>. QED
      BY <2>3, <2>4
  <1>3. ASSUME Len(dump) = Len(dumpFile), EmptyDump PROVE FALSE
    <2>1. RecordsRead = RecordsOf(l1)
      BY <1>1, <1>3
    <2>2. RecordsRead = {}
      BY <1>3 DEF EmptyDump, PipelineInv, IInv, MergeInv
    <2>3. DOMAIN l1 = {}
      BY <2>1, <2>2 DEF RecordsOf
    <2>4. l1 \in [DOMAIN l1 -> Account]
      BY MigrationPipelineAssumption DEF PipelineInv, GivenInv
    <2>5. l1 = <<>>
      BY <2>3, <2>4
    <2>. QED
      BY <2>5
  <1>. QED
    BY <1>2, <1>3 DEF Refuses

\* A pair at an address that has none leaves the addresses distinct.
LEMMA WriteOnce ==
  ASSUME TypeOK, NEW a \in Addr, NEW entry \in BaseEntry, WriteAllocPair(a, entry),
         \A i \in DOMAIN alloc : alloc[i].addr # a,
         \A i, j \in DOMAIN alloc : alloc[i].addr = alloc[j].addr => i = j
  PROVE  \A i, j \in DOMAIN alloc' : alloc'[i].addr = alloc'[j].addr => i = j
  <1>1. /\ DOMAIN alloc = 1..Len(alloc) /\ Len(alloc) \in Nat
        /\ DOMAIN alloc' = 1..(Len(alloc) + 1)
        /\ \A i \in DOMAIN alloc : alloc'[i] = alloc[i]
        /\ alloc'[Len(alloc) + 1].addr = a
    <2>1. alloc'[Len(alloc) + 1] = [addr |-> a, entry |-> entry]
      BY WriteAppends
    <2>2. alloc'[Len(alloc) + 1].addr = a
      BY <2>1
    <2>. QED
      BY <2>2, WriteAppends
  <1>2. \A i \in DOMAIN alloc' : i \in DOMAIN alloc \/ i = Len(alloc) + 1
    BY <1>1
  <1>. QED
    BY <1>1, <1>2

LEMMA SameHonest ==
  ASSUME UNCHANGED <<l1, dumpFile, base, pruneEmpty>>
  PROVE  (HonestDump' <=> HonestDump) /\ (BalancesFit' <=> BalancesFit)
  BY DEF HonestDump, BalancesFit, Merged, Kept, RecordsOf, RootOf, RecordAddress, RecordKey, BadKey,
         Altered

LEMMA ConvertWritesOnce ==
  ASSUME PipelineInv, WrittenOnce, Convert
  PROVE  WrittenOnce'
  <1>1. UNCHANGED <<l1, dumpFile>> /\ UNCHANGED base
    BY ConvertKeepsLines DEF Convert, PipelineInv
  <1>2. HonestDump' <=> HonestDump
    BY <1>1 DEF HonestDump, RecordsOf, RootOf, RecordAddress, RecordKey, BadKey, Altered
  <1>. SUFFICES ASSUME HonestDump
                PROVE  \A i, j \in DOMAIN alloc' : alloc'[i].addr = alloc'[j].addr => i = j
    BY <1>2 DEF WrittenOnce
  <1>3. \A i, j \in DOMAIN alloc : alloc[i].addr = alloc[j].addr => i = j
    BY DEF WrittenOnce
  <1>4. TypeOK
    BY DEF PipelineInv, IInv
  <1>5. CASE alloc' = alloc
    BY <1>3, <1>5
  <1>6. ASSUME ConvertLine, alloc' # alloc
        PROVE  \A i, j \in DOMAIN alloc' : alloc'[i].addr = alloc'[j].addr => i = j
    <2>. DEFINE raw == dumpFile[Len(dump) + 1]
                line == LineSeen(raw)
                a == ResolveRecordAddress(line)
    <2>1. Len(dump) \in Nat /\ Len(dumpFile) \in Nat /\ Len(dump) + 1 \in 1..Len(dumpFile)
      BY <1>6, HonestRead DEF ConvertLine
    <2>2. IsAccountRecord(line) /\ pc = "reading" /\ (MergeRecord(line) \/ WriteRecord(line))
      BY <1>6 DEF ConvertLine, SkipLine, PruneRecord, MergeRecord, WriteRecord, RejectLine, Fail,
                  writing, Converted
    <2>3. Len(dump) + 1 # 1
      <3>. SUFFICES ASSUME Len(dump) + 1 = 1 PROVE FALSE
        OBVIOUS
      <3>1. line = [type |-> "other"]
        BY DEF HonestDump, LineSeen
      <3>. QED
        BY <2>2, <3>1 DEF IsAccountRecord
    <2>4. Len(dump) + 1 \in 2..Len(dumpFile)
      BY <2>1, <2>3
    <2>5. a = RecordAddress(raw) /\ line \in Line
      <3>1. RecordOf(line) = [addr |-> RecordAddress(raw), account |-> raw.account]
            /\ line \in Line
        BY <2>4, HonestLine DEF PipelineInv
      <3>. QED
        BY <3>1 DEF RecordOf
    <2>6. a \in Addr /\ line.account \in Account
      BY <2>2, <2>5, RecordOfLine
    <2>7. \A i \in DOMAIN alloc : alloc[i].addr # a
      <3>1. a \notin TakenOver
        BY <2>4, <2>5, NextIsNew
      <3>2. appended = {}
        BY <1>4, <2>2 DEF TypeOK
      <3>. QED
        BY <3>1, <3>2, WrittenAddresses DEF PipelineInv
    <2>8. \E entry \in BaseEntry : WriteAllocPair(a, entry)
      <3>1. CASE MergeRecord(line)
        <4>1. WriteAllocPair(a, MergeIntoProtectedEntry(base[a], line.account)) /\ MustMerge(a)
          BY <3>1 DEF MergeRecord
        <4>2. base[a] \in BaseEntry
          BY <1>4, <4>1, BaseTyped DEF MustMerge, TypeOK
        <4>. QED
          BY <2>6, <4>1, <4>2, MergeKeepsContract
      <3>2. CASE WriteRecord(line)
        <4>1. WriteAllocPair(a, line.account)
          BY <3>2 DEF WriteRecord
        <4>. QED
          BY <2>6, <4>1, AccountIsEntry
      <3>. QED
        BY <2>2, <3>1, <3>2
    <2>. QED
      BY <1>3, <1>4, <2>6, <2>7, <2>8, WriteOnce
  <1>7. ASSUME NEW a \in Addr, AppendBaseEntry(a)
        PROVE  \A i, j \in DOMAIN alloc' : alloc'[i].addr = alloc'[j].addr => i = j
    <2>1. a \in pendingBaseAlloc /\ a \notin appended /\ WriteAllocPair(a, base[a])
      BY <1>7 DEF AppendBaseEntry
    <2>2. a \notin TakenOver /\ a \in DOMAIN base
      BY <2>1 DEF PipelineInv, IInv, MergeInv
    <2>3. base[a] \in BaseEntry
      BY <1>4, <2>2, BaseTyped DEF TypeOK
    <2>4. \A i \in DOMAIN alloc : alloc[i].addr # a
      BY <2>1, <2>2, WrittenAddresses DEF PipelineInv
    <2>. QED
      BY <1>3, <1>4, <2>1, <2>3, <2>4, WriteOnce
  <1>. QED
    BY <1>5, <1>6, <1>7
    DEF Convert, OpenFiles, UnreadableBase, OpenOutput, InputError, EndOfDump, EmptyDump, EndOutput,
        OutputFinished, OutputError, Fail, writing

LEMMA ConvertKeepsHonest ==
  ASSUME PipelineInv, HonestInv, Convert
  PROVE  HonestInv'
  <1>1. /\ Next
        /\ pc \notin {"done", "crashed", "failed"} \/ outputFile = "opening"
        /\ UNCHANGED <<checkVars, l1, dumpFile, checked>>
    BY ConvertIsStep DEF PipelineInv
  <1>2. UNCHANGED base
    BY ConvertKeepsLines DEF PipelineInv
  <1>3. UNCHANGED pruneEmpty
    BY DEF Convert, ConvertLine, SkipLine, PruneRecord, MergeRecord, WriteRecord, RejectLine,
           OpenFiles, UnreadableBase, OpenOutput, InputError, EndOfDump, EmptyDump,
           AppendBaseEntry, EndOutput, OutputFinished, OutputError, Fail, Converted, input
  <1>4. UNCHANGED <<step, problem, header, prevKey, checked>>
    BY <1>1 DEF checkVars, dumpState
  <1>5. (HonestDump' <=> HonestDump) /\ (BalancesFit' <=> BalancesFit)
    BY <1>1, <1>2, <1>3, SameHonest
  <1>6. step = "dump"
    BY <1>1 DEF PipelineInv, EntriesReadInv, CheckInv, CheckTypes, CheckTypeOK
  <1>7. ReadableBase'
    BY <1>2
    DEF HonestInv, ReadableBase, Convert, ConvertLine, SkipLine, PruneRecord, MergeRecord,
        WriteRecord, RejectLine, OpenFiles, UnreadableBase, OpenOutput, InputError, EndOfDump,
        EmptyDump, AppendBaseEntry, EndOutput, OutputFinished, OutputError, Fail, Converted
  <1>8. WrittenOnce'
    BY ConvertWritesOnce DEF HonestInv
  <1>9. LinesPass'
    BY <1>1, <1>4, <1>5 DEF HonestInv, LinesPass, RootOf, RecordKey
  <1>10. EntriesPass'
    BY <1>4, <1>6 DEF EntriesPass
  <1>. QED
    BY <1>7, <1>8, <1>9, <1>10 DEF HonestInv

-----------------------------------------------------------------------------
(* The checker of an honest dump *)

\* A balance of L1 that fits, alone and merged.
LEMMA HonestBalances ==
  ASSUME PipelineInv, BalancesFit, NEW a \in DOMAIN l1
  PROVE  l1[a] \in Account /\ l1[a].balance < Word
  <1>. DEFINE r == [addr |-> a, account |-> l1[a]]
              d == l1[a]
  <1>1. d \in Account /\ d.balance \in Nat
    BY MigrationPipelineAssumption DEF PipelineInv, GivenInv, Account
  <1>2. CASE r \notin Kept(RecordsOf(l1), pruneEmpty)
    <2>1. d.balance = 0
      BY <1>2 DEF Kept, RecordsOf, IsEmptyAllocEntry
    <2>. QED
      BY <1>1, <2>1, DumpCheckAssumption
  <1>3. CASE r \in Kept(RecordsOf(l1), pruneEmpty)
    <2>1. EntryFor(base, r).balance < Word
      <3>1. [addr |-> a, entry |-> EntryFor(base, r)] \in Merged(base, RecordsOf(l1), pruneEmpty)
        BY <1>3 DEF Merged
      <3>. QED
        BY <3>1 DEF BalancesFit
    <2>2. CASE a \in Protected(base)
      <3>1. base[a] \in BaseEntry
        BY <2>2, BaseTyped DEF Protected, PipelineInv, IInv, TypeOK
      <3>2. EntryFor(base, r) = MergeIntoProtectedEntry(base[a], d)
        BY <2>2 DEF EntryFor
      <3>3. EntryFor(base, r).balance = base[a].balance + d.balance /\ base[a].balance \in Nat
        BY <1>1, <3>1, <3>2, MergeKeepsContract DEF BaseEntry
      <3>. QED
        BY <1>1, <2>1, <3>3, DumpCheckAssumption
    <2>3. CASE a \notin Protected(base)
      BY <1>1, <2>1, <2>3 DEF EntryFor
    <2>. QED
      BY <2>2, <2>3
  <1>. QED
    BY <1>1, <1>2, <1>3

\* The next line of an honest dump is read.
LEMMA HonestLineChecked ==
  ASSUME PipelineInv, HonestInv, HonestDump, BalancesFit, CheckDumpLine,
         UNCHANGED <<l1, dumpFile, base, pruneEmpty>>
  PROVE  LinesPass' /\ step' = "dump"
  <1>. DEFINE n == checked + 1
              line == dumpFile[n]
  <1>1. /\ checked \in Nat /\ Len(dumpFile) \in Nat /\ n \in 1..Len(dumpFile) /\ checked' = n
        /\ ReadHeader(line) \/ ReadRecord(line) \/ BadLine(line)
    <2>1. checked \in Nat /\ Len(dumpFile) \in Nat
      <3>1. Len(dumpFile) \in Nat /\ checked \in 0..Len(dumpFile)
        BY FileTyped DEF PipelineInv, CheckedInv
      <3>. QED
        BY <3>1
    <2>. QED
      BY <2>1 DEF CheckDumpLine
  <1>2. /\ step = "dump" /\ ~problem
        /\ header = IF checked = 0 THEN NoRoot ELSE RootOf(l1)
        /\ prevKey = IF checked <= 1 THEN -1 ELSE RecordKey(dumpFile[checked])
    BY <1>1 DEF HonestInv, LinesPass, ReadHeader, ReadRecord, BadLine
  <1>3. RootOf(l1) # NoRoot
    BY MigrationPipelineAssumption DEF PipelineInv, GivenInv
  <1>4. CASE checked = 0
    <2>1. line.type = "header" /\ line.root = RootOf(l1) /\ header = NoRoot
      BY <1>2, <1>4 DEF HonestDump
    <2>2. ReadHeader(line)
      BY <1>1, <2>1 DEF ReadRecord, ReadableRecord, BadLine
    <2>3. header' = RootOf(l1) /\ UNCHANGED <<step, prevKey, problem>>
      BY <2>1, <2>2 DEF ReadHeader
    <2>. QED
      BY <1>1, <1>2, <1>4, <2>3 DEF LinesPass, RootOf
  <1>5. CASE checked # 0
    <2>1. n \in 2..Len(dumpFile) /\ checked \in 1..Len(dumpFile)
      BY <1>1, <1>5
    <2>2. /\ line \in DumpLine /\ line.type = "record" /\ Clean(line)
          /\ RecordAddress(line) \in DOMAIN l1 /\ line.account = l1[RecordAddress(line)]
          /\ RecordKey(line) = KeyOf[RecordAddress(line)] /\ RecordAddress(line) \in Addr
      BY <2>1, HonestLine DEF PipelineInv
    <2>3. RecordKey(line) > prevKey
      <3>1. CASE checked = 1
        BY <1>2, <2>2, <3>1, DumpCheckAssumption
      <3>2. CASE checked # 1
        <4>1. checked \in 2..Len(dumpFile) /\ n \in 2..Len(dumpFile) /\ checked < n /\ ~(checked <= 1)
          BY <1>1, <2>1, <3>2
        <4>2. RecordKey(dumpFile[checked]) < RecordKey(line)
          BY <4>1 DEF HonestDump
        <4>3. prevKey = RecordKey(dumpFile[checked])
          BY <1>2, <4>1
        <4>4. RecordKey(dumpFile[checked]) \in Nat /\ RecordKey(line) \in Nat
          <5>1. /\ RecordAddress(dumpFile[checked]) \in Addr
                /\ RecordKey(dumpFile[checked]) = KeyOf[RecordAddress(dumpFile[checked])]
            BY <4>1, HonestLine DEF PipelineInv
          <5>. QED
            BY <2>2, <5>1, DumpCheckAssumption
        <4>. QED
          BY <4>2, <4>3, <4>4
      <3>. QED
        BY <3>1, <3>2
    <2>4. line.account.balance < Word
      BY <2>2, HonestBalances
    <2>5. header = RootOf(l1)
      BY <1>2, <1>5
    <2>6. ReadableRecord(line)
      BY <1>3, <2>2, <2>3, <2>4, <2>5 DEF ReadableRecord, Clean
    <2>7. ReadRecord(line)
      BY <1>1, <2>2, <2>6 DEF ReadHeader, BadLine
    <2>8. /\ prevKey' = RecordKey(line) /\ problem' = (problem \/ Altered(line) \/ RecordAddress(line) = NoAddr)
          /\ UNCHANGED <<step, header>>
      BY <2>7 DEF ReadRecord
    <2>9. ~problem'
      BY <1>2, <2>2, <2>8 DEF Clean
    <2>10. prevKey' = RecordKey(dumpFile'[n])
      BY <2>8
    <2>11. ~(n <= 1) /\ n # 0
      BY <1>1, <1>5
    <2>12. RecordKey(dumpFile[checked])' = RecordKey(dumpFile'[n])
      BY <1>1 DEF RecordKey
    <2>13. RootOf(l1)' = RootOf(l1)
      BY DEF RootOf
    <2>. HIDE DEF n
    <2>. QED
      BY <1>1, <1>2, <2>5, <2>8, <2>9, <2>10, <2>11, <2>12, <2>13 DEF LinesPass
  <1>. QED
    BY <1>4, <1>5

LEMMA SameRecords ==
  ASSUME NEW s, NEW t, RecordsOf(s) = RecordsOf(t)
  PROVE  DOMAIN s = DOMAIN t /\ \A a \in DOMAIN t : s[a] = t[a]
  <1>1. \A a \in DOMAIN s : [addr |-> a, account |-> s[a]] \in RecordsOf(t)
    BY DEF RecordsOf
  <1>2. \A a \in DOMAIN t : [addr |-> a, account |-> t[a]] \in RecordsOf(s)
    BY DEF RecordsOf
  <1>. QED
    BY <1>1, <1>2 DEF RecordsOf

\* The table at the end of an honest dump is L1.
LEMMA HonestTable ==
  ASSUME PipelineInv, HonestDump, checked = Len(dumpFile), RecordsOf(byAddress) = CheckedRecords
  PROVE  DOMAIN byAddress = DOMAIN l1 /\ \A a \in DOMAIN l1 : byAddress[a] = l1[a]
  <1>1. Len(dumpFile) \in Nat /\ Len(dumpFile) # 0
    BY FileTyped DEF PipelineInv, HonestDump
  <1>2. dumpFile[1].type = "header" /\ \A i \in 2..Len(dumpFile) : dumpFile[i].type = "record"
    BY DEF HonestDump
  <1>3. {j \in 1..checked : dumpFile[j].type = "record"} = 2..Len(dumpFile)
    BY <1>1, <1>2
  <1>4. CheckedRecords = RecordsOf(l1)
    BY <1>3 DEF CheckedRecords, HonestDump
  <1>. QED
    BY <1>4, SameRecords

\* At the end of it the dump holds, and so does the base genesis.
LEMMA HonestDumpHolds ==
  ASSUME PipelineInv, HonestInv, HonestDump, BalancesFit, pc = "done", ~genesis.twice,
         checked = Len(dumpFile), EndDump
  PROVE  step' = "alloc" /\ ~problem'
  <1>1. step = "dump" /\ problem' = problem
    BY DEF EndDump
  <1>2. Len(dumpFile) \in Nat /\ Len(dumpFile) # 0
    BY FileTyped DEF PipelineInv, HonestDump
  <1>3. ~problem /\ header = RootOf(l1)
    BY <1>1, <1>2 DEF HonestInv, LinesPass
  <1>4. header # NoRoot /\ header = expectedRoot
    BY <1>3, MigrationPipelineAssumption DEF PipelineInv, GivenInv
  <1>5. RecordsOf(byAddress) = CheckedRecords
    BY <1>1, <1>3 DEF PipelineInv, CheckedInv
  <1>7. trie = header /\ DOMAIN l1 # {}
    <2>1. trie = RootOf(byAddress)
      BY <1>1, <1>3 DEF PipelineInv, CheckInv, RootInv
    <2>2. DOMAIN byAddress = DOMAIN l1 /\ \A a \in DOMAIN l1 : byAddress[a] = l1[a]
      BY <1>5, HonestTable
    <2>3. RecordsRead # {}
      BY DEF PipelineInv, IInv, MergeInv
    <2>4. RecordsRead = RecordsOf(l1)
      BY HonestRead DEF PipelineInv, ConvertedInv
    <2>5. RootOf(byAddress) = RootOf(l1)
      BY <2>2 DEF RootOf
    <2>. QED
      BY <1>3, <2>1, <2>3, <2>4, <2>5 DEF RecordsOf
  <1>8. trie # {}
    BY <1>3, <1>7 DEF RootOf
  <1>9. DumpHolds
    BY <1>3, <1>4, <1>7, <1>8 DEF DumpHolds
  <1>10. ~BadGenesis
    <2>1. \A a \in DOMAIN base : base[a].code # BadCode /\ base[a].balance < Word
                                 /\ base[a].balance \in Nat
      BY BaseTyped DEF HonestInv, ReadableBase, BalancesFit, PipelineInv, IInv, TypeOK, BaseEntry
    <2>2. genesis.alloc = base
      BY DEF PipelineInv, GivenInv
    <2>. QED
      BY <2>1, <2>2, DumpCheckAssumption DEF BadGenesis, Unreadable
  <1>11. withAlloc
    BY DEF PipelineInv, GivenInv
  <1>. QED
    BY <1>1, <1>3, <1>9, <1>10, <1>11 DEF EndDump

\* What is known while the allocation of an honest dump is checked.
Compared == HonestDump /\ BalancesFit /\ pc = "done" /\ step = "alloc"

\* Base, table and allocation, in terms of L1.
LEMMA HonestAlloc ==
  ASSUME PipelineInv, Compared
  PROVE  /\ {alloc[i] : i \in DOMAIN alloc} = Merged(base, RecordsOf(byAddress), pruneEmpty)
         /\ Mergeable(base, RecordsOf(byAddress), pruneEmpty)
         /\ \A m \in Merged(base, RecordsOf(byAddress), pruneEmpty) : m.entry.balance < Word
         /\ \A a \in DOMAIN byAddress : byAddress[a] \in Account /\ byAddress[a].storage \notin ZeroSlots
         /\ genesis.alloc = base
         /\ \A a \in DOMAIN base : base[a] \in BaseEntry /\ base[a].balance < Word
  <1>1. checked = Len(dumpFile) /\ RecordsOf(byAddress) = CheckedRecords
    BY DEF Compared, PipelineInv, CheckedInv
  <1>2. DOMAIN byAddress = DOMAIN l1 /\ \A a \in DOMAIN l1 : byAddress[a] = l1[a]
    BY <1>1, HonestTable DEF Compared
  <1>3. RecordsOf(byAddress) = RecordsOf(l1)
    BY <1>2 DEF RecordsOf
  <1>4. RecordsRead = RecordsOf(l1)
    BY HonestRead DEF Compared, PipelineInv, ConvertedInv
  <1>5. /\ {alloc[i] : i \in DOMAIN alloc} = Merged(base, RecordsOf(byAddress), pruneEmpty)
        /\ Mergeable(base, RecordsOf(byAddress), pruneEmpty)
    BY <1>3, <1>4, WholeMergeWritten, SamePromise DEF PipelineInv, Compared
  <1>6. \A a \in DOMAIN byAddress : byAddress[a] \in Account /\ byAddress[a].storage \notin ZeroSlots
    BY <1>2, MigrationPipelineAssumption DEF PipelineInv, GivenInv
  <1>7. \A a \in DOMAIN base : base[a] \in BaseEntry
    BY BaseTyped DEF PipelineInv, IInv, TypeOK
  <1>. QED
    BY <1>3, <1>5, <1>6, <1>7 DEF Compared, BalancesFit, PipelineInv, GivenInv

\* The pair of an account that was kept.
LEMMA KeptExplained ==
  ASSUME PipelineInv, HonestInv, Compared, NEW r \in Kept(RecordsOf(byAddress), pruneEmpty)
  PROVE  LET pair == [addr |-> r.addr, entry |-> EntryFor(base, r)]
         IN  Explained(pair.addr, Created(pair)) /\ ~Wraps(pair) /\ ~Unreadable(pair.entry)
  <1>. DEFINE a == r.addr
              d == r.account
              e == EntryFor(base, r)
              got == AllocAccount(e)
              pair == [addr |-> a, entry |-> e]
  <1>1. a \in DOMAIN byAddress /\ byAddress[a] = d /\ r = [addr |-> a, account |-> d]
    BY DEF Kept, RecordsOf
  <1>2. d \in Account /\ d.storage \notin ZeroSlots /\ d.balance \in Nat
    BY <1>1, HonestAlloc DEF Account
  <1>3. e.balance < Word
    <2>1. pair \in Merged(base, RecordsOf(byAddress), pruneEmpty)
      BY DEF Merged
    <2>. QED
      BY <2>1, HonestAlloc
  <1>4. genesis.alloc = base
    BY HonestAlloc
  <1>5. CASE a \in Protected(base)
    <2>. DEFINE b == base[a]
                ba == BaseAccount(a)
    <2>1. b \in BaseEntry /\ a \in DOMAIN base /\ b.code # BadCode
      BY <1>5, HonestAlloc DEF Protected, HonestInv, ReadableBase, Compared
    <2>2. ~CannotMerge(b, d)
      BY <1>1, <1>5, HonestAlloc DEF Mergeable
    <2>3. e = [b EXCEPT !.balance = b.balance + d.balance] /\ b.balance \in Nat
      BY <1>5, <2>1 DEF EntryFor, MergeIntoProtectedEntry, BaseEntry
    <2>4. e.balance = b.balance + d.balance /\ e.code = b.code
      BY <2>1, <2>3 DEF BaseEntry
    <2>5. ba = AllocAccount(b) /\ ba \in BaseEntry /\ ba.balance = b.balance /\ ba.code = b.code
      BY <1>4, <2>1, AllocAccountTyped DEF BaseAccount, AllocAccount, BaseEntry
    <2>6. (ba.balance + d.balance) % Word = ba.balance + d.balance
      BY <1>2, <1>3, <2>3, <2>4, <2>5, Modulo
    <2>7. got = [ba EXCEPT !.balance = ba.balance + d.balance]
      BY <2>1, <2>3, <2>5 DEF AllocAccount, BaseEntry
    <2>8. IsProtectedMerge(got, d, ba)
      <3>. HIDE DEF b, ba, got, d
      <3>. QED
        BY <2>2, <2>5, <2>6, <2>7 DEF IsProtectedMerge, CannotMerge
    <2>9. ProtectedMerged(a, got)
      BY <1>1, <1>4, <1>5, <2>8 DEF ProtectedMerged, InDump, ProtectedBase, InBase, Protected
    <2>10. ~(byAddress[a].balance + ba.balance >= Word)
      BY <1>1, <1>2, <1>3, <2>3, <2>4, <2>5, DumpCheckAssumption
    <2>11. ~Unreadable(e)
      <3>1. ~(e.balance >= Word)
        BY <1>2, <1>3, <2>3, <2>4, DumpCheckAssumption
      <3>. QED
        BY <2>1, <2>4, <3>1 DEF Unreadable
    <2>. HIDE DEF got
    <2>. QED
      BY <2>9, <2>10, <2>11 DEF Explained, RetainsBase, Wraps, Created, got
  <1>6. CASE a \notin Protected(base)
    <2>1. e = d
      BY <1>6 DEF EntryFor
    <2>2. got = d
      BY <1>2, <2>1 DEF AllocAccount, Account
    <2>3. ~ProtectedBase(a)
      BY <1>4, <1>6 DEF ProtectedBase, InBase, Protected
    <2>4. FromDump(a, got)
      BY <1>1, <2>2, <2>3 DEF FromDump, InDump
    <2>5. ~Wraps(pair)
      BY <2>3 DEF Wraps, ProtectedMerged
    <2>6. ~Unreadable(e)
      BY <1>2, <1>3, <2>1, AccountsAssumption, DumpCheckAssumption DEF Unreadable, Account
    <2>. HIDE DEF got
    <2>. QED
      BY <2>4, <2>5, <2>6 DEF Explained, Created, got
  <1>. QED
    BY <1>5, <1>6

\* The pair of a base entry that no account has taken over.
LEMMA RestExplained ==
  ASSUME PipelineInv, HonestInv, Compared,
         NEW a \in DOMAIN base \ {r.addr : r \in Kept(RecordsOf(byAddress), pruneEmpty)}
  PROVE  LET pair == [addr |-> a, entry |-> base[a]]
         IN  Explained(pair.addr, Created(pair)) /\ ~Wraps(pair) /\ ~Unreadable(pair.entry)
  <1>. DEFINE b == base[a]
              got == AllocAccount(b)
              pair == [addr |-> a, entry |-> b]
  <1>1. b \in BaseEntry /\ b.balance \in Nat /\ b.balance < Word /\ genesis.alloc = base
    BY HonestAlloc DEF BaseEntry
  <1>2. b.code # BadCode
    BY DEF HonestInv, ReadableBase, Compared
  <1>3. ~Unreadable(b)
    BY <1>1, <1>2, DumpCheckAssumption DEF Unreadable
  <1>4. BaseAccount(a) = got /\ got.balance = b.balance /\ InBase(a)
    BY <1>1, AllocAccountTyped DEF BaseAccount, InBase
  <1>5. InDump(a) => IsEmptyAllocEntry(byAddress[a])
    <2>. SUFFICES ASSUME a \in DOMAIN byAddress, ~IsEmptyAllocEntry(byAddress[a]) PROVE FALSE
      BY DEF InDump
    <2>1. [addr |-> a, account |-> byAddress[a]] \in Kept(RecordsOf(byAddress), pruneEmpty)
      BY DEF Kept, RecordsOf
    <2>. QED
      BY <2>1
  <1>6. KeptOverEmpty(a, got) \/ Carried(a, got)
    BY <1>4, <1>5 DEF KeptOverEmpty, Carried
  <1>7. ~Wraps(pair)
    <2>. SUFFICES ASSUME Wraps(pair) PROVE FALSE
      OBVIOUS
    <2>1. InDump(a) /\ byAddress[a].balance + BaseAccount(a).balance >= Word
      BY DEF Wraps, ProtectedMerged
    <2>2. byAddress[a].balance = 0
      BY <1>5, <2>1 DEF IsEmptyAllocEntry
    <2>. QED
      BY <1>1, <1>4, <2>1, <2>2, DumpCheckAssumption
  <1>. HIDE DEF got
  <1>. QED
    BY <1>3, <1>6, <1>7 DEF Explained, RetainsBase, Created, got

\* Each entry of the allocation passes.
LEMMA HonestEntry ==
  ASSUME PipelineInv, HonestInv, Compared, NEW i \in DOMAIN alloc
  PROVE  /\ Explained(alloc[i].addr, Created(alloc[i])) /\ ~Wraps(alloc[i])
         /\ ~Unreadable(alloc[i].entry)
  <1>1. alloc[i] \in Merged(base, RecordsOf(byAddress), pruneEmpty)
    BY HonestAlloc
  <1>2. \/ \E r \in Kept(RecordsOf(byAddress), pruneEmpty) :
             alloc[i] = [addr |-> r.addr, entry |-> EntryFor(base, r)]
        \/ \E a \in DOMAIN base \ {r.addr : r \in Kept(RecordsOf(byAddress), pruneEmpty)} :
             alloc[i] = [addr |-> a, entry |-> base[a]]
    BY <1>1 DEF Merged
  <1>. QED
    BY <1>2, KeptExplained, RestExplained

\* An entry is read without a complaint: its address is a new one.
LEMMA HonestEntryChecked ==
  ASSUME PipelineInv, HonestInv, Compared, CheckAllocEntry
  PROVE  step' = "alloc" /\ ~problem'
  <1>. DEFINE n == Len(entries) + 1
              pair == alloc[n]
  <1>1. /\ entries \in Seq(AllocEntry) /\ Len(entries) \in Nat /\ DOMAIN entries = 1..Len(entries)
        /\ DOMAIN alloc = 1..Len(alloc) /\ Len(alloc) \in Nat
        /\ \A i \in DOMAIN entries : entries[i] = alloc[i]
        /\ seen = {entries[i].addr : i \in DOMAIN entries}
    BY DEF PipelineInv, EntriesReadInv, IInv, TypeOK, CheckInv, CheckTypes, CheckTypeOK
  <1>2. Len(entries) < Len(alloc) /\ (ReadEntry(pair) \/ BadEntry(pair))
    BY DEF CheckAllocEntry
  <1>3. n \in DOMAIN alloc
    BY <1>1, <1>2
  <1>4. Explained(pair.addr, Created(pair)) /\ ~Unreadable(pair.entry)
    BY <1>3, HonestEntry
  <1>5. pair.addr \notin seen
    <2>. SUFFICES ASSUME NEW i \in DOMAIN entries, entries[i].addr = pair.addr PROVE FALSE
      BY <1>1
    <2>1. i \in DOMAIN alloc /\ alloc[i].addr = pair.addr /\ i # n
      BY <1>1, <1>2
    <2>. QED
      BY <1>3, <2>1 DEF HonestInv, WrittenOnce, Compared
  <1>6. ~problem
    BY DEF HonestInv, EntriesPass, Compared
  <1>. HIDE DEF pair
  <1>7. ReadEntry(pair)
    BY <1>2, <1>4 DEF BadEntry
  <1>. QED
    BY <1>4, <1>5, <1>6, <1>7 DEF ReadEntry, Created, Compared

\* At the end of the allocation nothing is missing, and the sums agree.
LEMMA HonestAllocHolds ==
  ASSUME PipelineInv, HonestInv, Compared, Len(entries) = Len(alloc), EndAlloc
  PROVE  step' = "verified"
  <1>1. /\ DOMAIN entries = DOMAIN alloc /\ \A i \in DOMAIN entries : entries[i] = alloc[i]
        /\ seen = {entries[i].addr : i \in DOMAIN entries}
    BY DEF PipelineInv, EntriesReadInv, IInv, TypeOK, CheckInv, CheckTypes, CheckTypeOK
  <1>2. seen = {m.addr : m \in Merged(base, RecordsOf(byAddress), pruneEmpty)}
    <2>1. seen = {alloc[i].addr : i \in DOMAIN alloc}
      BY <1>1
    <2>2. {alloc[i].addr : i \in DOMAIN alloc} = {m.addr : m \in {alloc[i] : i \in DOMAIN alloc}}
      OBVIOUS
    <2>. QED
      BY <2>1, <2>2, HonestAlloc
  <1>3. \A a \in DOMAIN byAddress : a \in seen \/ IsEmptyAllocEntry(byAddress[a])
    <2>. SUFFICES ASSUME NEW a \in DOMAIN byAddress, ~IsEmptyAllocEntry(byAddress[a])
                  PROVE  a \in seen
      OBVIOUS
    <2>. DEFINE r == [addr |-> a, account |-> byAddress[a]]
                m == [addr |-> a, entry |-> EntryFor(base, r)]
    <2>1. r \in Kept(RecordsOf(byAddress), pruneEmpty)
      BY DEF Kept, RecordsOf
    <2>2. m \in Merged(base, RecordsOf(byAddress), pruneEmpty)
      BY <2>1 DEF Merged
    <2>. QED
      BY <1>2, <2>2
  <1>4. \A a \in DOMAIN base : a \in seen
    <2>. SUFFICES ASSUME NEW a \in DOMAIN base PROVE a \in seen
      OBVIOUS
    <2>1. CASE \E r \in Kept(RecordsOf(byAddress), pruneEmpty) : r.addr = a
      <3>1. PICK r \in Kept(RecordsOf(byAddress), pruneEmpty) : r.addr = a
        BY <2>1
      <3>2. [addr |-> a, entry |-> EntryFor(base, r)] \in Merged(base, RecordsOf(byAddress), pruneEmpty)
        BY <3>1 DEF Merged
      <3>. QED
        BY <1>2, <3>2
    <2>2. CASE ~\E r \in Kept(RecordsOf(byAddress), pruneEmpty) : r.addr = a
      <3>1. [addr |-> a, entry |-> base[a]] \in Merged(base, RecordsOf(byAddress), pruneEmpty)
        BY <2>2 DEF Merged
      <3>. QED
        BY <1>2, <3>1
    <2>. QED
      BY <2>1, <2>2
  <1>5. NothingMissing
    BY <1>3, <1>4, HonestAlloc DEF NothingMissing
  <1>6. ~problem
    BY DEF HonestInv, EntriesPass, Compared
  <1>7. SumsAgree
    <2>1. PICK F : SumOfDump(F)
      BY DEF PipelineInv, CheckInv, SumInv, Compared
    <2>2. AllocSums(F)
      BY <1>6, <2>1 DEF PipelineInv, CheckInv, AllocInv, Read, Compared
    <2>3. ~\E i \in DOMAIN entries : Wraps(entries[i])
      BY <1>1, HonestEntry
    <2>4. allocSum = F[SeenInDump] + retainedSum
      BY <2>2, <2>3 DEF AllocSums
    <2>5. F[SeenInDump] = F[DOMAIN byAddress]
      <3>1. /\ SeenInDump \in SUBSET DOMAIN byAddress /\ SeenInDump \subseteq DOMAIN byAddress
            /\ \A a \in DOMAIN byAddress \ SeenInDump : byAddress[a].balance = 0
        BY <1>3 DEF SeenInDump, IsEmptyAllocEntry
      <3>. QED
        BY <2>1, <3>1 DEF SumOfDump, Monotone
    <2>6. F[DOMAIN byAddress] = dumpSum
      BY <2>1 DEF SumOfDump
    <2>. QED
      BY <2>4, <2>5, <2>6 DEF SumsAgree
  <1>. QED
    BY <1>5, <1>6, <1>7 DEF EndAlloc

\* No step of the checker fails.
LEMMA HonestChecked ==
  ASSUME PipelineInv, HonestInv, Check, HonestDump, BalancesFit, pc = "done", ~genesis.twice
  PROVE  step' # "failed"
  <1>1. UNCHANGED <<vars, l1, dumpFile>> /\ outputFile # "partial"
    BY DEF Check, PipelineInv, IInv, MergeInv
  <1>2. UNCHANGED <<l1, dumpFile, base, pruneEmpty>>
    BY <1>1 DEF vars, input
  <1>3. CASE CheckDumpLine
    BY <1>2, <1>3, HonestLineChecked
  <1>4. CASE checked = Len(dumpFile) /\ EndDump
    BY <1>4, HonestDumpHolds
  <1>5. CASE CheckAllocEntry
    <2>1. Compared
      BY <1>5 DEF CheckAllocEntry, ReadEntry, BadEntry, Compared
    <2>. QED
      BY <1>5, <2>1, HonestEntryChecked
  <1>6. CASE Len(entries) = Len(alloc) /\ EndAlloc
    <2>1. Compared
      BY <1>6 DEF EndAlloc, Compared
    <2>. QED
      BY <1>6, <2>1, HonestAllocHolds
  <1>. QED
    BY <1>1, <1>3, <1>4, <1>5, <1>6 DEF Check

LEMMA CheckKeepsHonest ==
  ASSUME PipelineInv, HonestInv, Check
  PROVE  HonestInv'
  <1>1. UNCHANGED <<vars, l1, dumpFile>>
    BY DEF Check
  <1>2. UNCHANGED <<l1, dumpFile, base, pruneEmpty, pc, alloc>>
    BY <1>1 DEF vars, input, writing
  <1>3. (HonestDump' <=> HonestDump) /\ (BalancesFit' <=> BalancesFit)
    BY <1>2, SameHonest
  <1>4. ReadableBase' /\ WrittenOnce'
    BY <1>2, <1>3 DEF HonestInv, ReadableBase, WrittenOnce
  <1>5. LinesPass'
    <2>1. CASE ~(HonestDump /\ BalancesFit)
      BY <1>3, <2>1 DEF LinesPass
    <2>2. CASE HonestDump /\ BalancesFit /\ CheckDumpLine
      BY <1>2, <2>2, HonestLineChecked
    <2>3. CASE ~CheckDumpLine
      BY <2>3
      DEF LinesPass, Check, EndDump, CheckAllocEntry, ReadEntry, BadEntry, EndAlloc, TruncatedAlloc,
          Reject
    <2>. QED
      BY <2>1, <2>2, <2>3
  <1>6. EntriesPass'
    <2>. SUFFICES ASSUME HonestDump, BalancesFit, pc = "done", step' = "alloc"
                  PROVE  ~problem'
      BY <1>2, <1>3 DEF EntriesPass
    <2>1. CASE CheckDumpLine
      BY <1>2, <2>1, HonestLineChecked
    <2>2. CASE checked = Len(dumpFile) /\ EndDump
      BY <2>2 DEF EndDump, DumpHolds, PipelineInv, GivenInv
    <2>3. CASE CheckAllocEntry
      <3>1. Compared
        BY <2>3 DEF CheckAllocEntry, ReadEntry, BadEntry, Compared
      <3>. QED
        BY <2>3, <3>1, HonestEntryChecked
    <2>4. CASE EndAlloc \/ TruncatedAlloc
      BY <2>4 DEF EndAlloc, TruncatedAlloc, Reject
    <2>. QED
      BY <2>1, <2>2, <2>3, <2>4 DEF Check
  <1>. QED
    BY <1>4, <1>5, <1>6 DEF HonestInv

LEMMA HonestInvariant == PipelineSpec => [](PipelineInv /\ HonestInv)
  <1>1. PipelineInit => HonestInv
    <2>. SUFFICES ASSUME PipelineInit PROVE HonestInv
      OBVIOUS
    <2>1. /\ pc = "start" /\ alloc = <<>> /\ step = "dump" /\ checked = 0 /\ ~problem
          /\ header = NoRoot /\ prevKey = -1
      BY DEF PipelineInit, Init, CheckInit
    <2>. QED
      BY <2>1 DEF HonestInv, ReadableBase, WrittenOnce, LinesPass, EntriesPass
  <1>2. PipelineInv /\ HonestInv /\ [PipelineNext]_pipelineVars => HonestInv'
    <2>1. ASSUME PipelineInv, HonestInv, UNCHANGED pipelineVars PROVE HonestInv'
      <3>1. UNCHANGED <<vars, checkVars, l1, dumpFile, checked>>
        BY <2>1 DEF pipelineVars
      <3>2. UNCHANGED <<l1, dumpFile, base, pruneEmpty, pc, alloc, step, problem, header, prevKey, checked>>
        BY <3>1 DEF vars, input, writing, checkVars, dumpState
      <3>3. (HonestDump' <=> HonestDump) /\ (BalancesFit' <=> BalancesFit)
        BY <3>2, SameHonest
      <3>. QED
        BY <2>1, <3>2, <3>3
        DEF HonestInv, ReadableBase, WrittenOnce, LinesPass, EntriesPass, RootOf, RecordKey
    <2>. QED
      BY <2>1, ConvertKeepsHonest, CheckKeepsHonest DEF PipelineNext
  <1>3. PipelineInv /\ [PipelineNext]_pipelineVars => PipelineInv'
    BY ConvertKeeps, CheckKeeps, PipelineSame DEF PipelineNext
  <1>. QED
    BY <1>1, <1>2, <1>3, PipelineInitially, PTL DEF PipelineSpec

\* From an honest dump the converter refuses no account that can be merged,
\* and the checker nothing that the converter has written, whatever the state
\* of L1 and the base genesis.
THEOREM HonestDumpsPass == PipelineSpec => NoFalseAlarm
  <1>. DEFINE Alarmless ==
         /\ HonestDump /\ l1 # <<>> /\ Mergeable(base, RecordsOf(l1), pruneEmpty)
              => ~Refuses
         /\ HonestDump /\ pc = "done" /\ ~genesis.twice /\ BalancesFit
              => step' # "failed"
  <1>1. ASSUME PipelineInv, HonestInv, PipelineNext PROVE Alarmless
    <2>1. CASE Convert
      <3>1. pc # "done"
        <4>1. pc # "done" \/ outputFile = "opening"
          BY <1>1, <2>1, ConvertIsStep DEF PipelineInv
        <4>. QED
          BY <1>1, <4>1 DEF PipelineInv, IInv, MergeInv
      <3>. QED
        BY <1>1, <2>1, <3>1, HonestConverted
    <2>2. CASE Check
      BY <1>1, <2>2, HonestConverted, HonestChecked
    <2>. QED
      BY <1>1, <2>1, <2>2 DEF PipelineNext
  <1>2. PipelineInv /\ HonestInv /\ [PipelineNext]_pipelineVars => [Alarmless]_pipelineVars
    BY <1>1
  <1>3. [][Alarmless]_pipelineVars => NoFalseAlarm
    BY DEF NoFalseAlarm
  <1>. QED
    BY <1>2, <1>3, HonestInvariant, PTL DEF PipelineSpec
=============================================================================
