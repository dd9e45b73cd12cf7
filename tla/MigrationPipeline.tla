------------------------- MODULE MigrationPipeline -------------------------
(***************************************************************************)
(* The building of the L2 genesis state, end to end, as the runbook orders *)
(* it: geth writes a dump of the frozen L1, dump-to-alloc converts it,     *)
(* dumpcheck compares the dump with the snapshot's state root and the      *)
(* allocation with both.  Only a verified allocation is carried on.        *)
(*                                                                         *)
(* Converter and checker are those of DumpToAlloc and DumpCheck; here they *)
(* read the same files.                                                    *)
(***************************************************************************)
EXTENDS DumpToAlloc, DumpCheck

CONSTANTS
  L1States,    \* states of the frozen L1, functions from addresses to accounts
  DumpsOf(_)   \* the dump files geth may write of a state, faulty ones too

VARIABLES
  l1,        \* the state at the snapshot block
  dumpFile,  \* the dump both programs read
  checked    \* lines of it dumpcheck has read

pipelineVars == <<vars, checkVars, l1, dumpFile, checked>>

\* What the converter sees of a line: it trusts the code and the storage
\* written, and does not look at the hashes.
LineSeen(r) ==
  LET account == [r.account EXCEPT !.code = r.code, !.storage = r.storage]
  IN  CASE r.type = "header" -> [type |-> "other"]
        [] r.type = "junk"   -> [type |-> "malformed"]
        [] r.type = "record" /\ r.addr # NoAddr ->
             [type |-> "account", addr |-> r.addr, account |-> account]
        [] OTHER ->
             [type |-> "keyOnly", zeroKey |-> r.key = KeyOf[ZeroAddress], account |-> account]

\* The L1 state is a map from addresses to accounts, and holds no zero words.
ASSUME MigrationPipelineAssumption ==
  \A s \in L1States :
    /\ s \in [DOMAIN s -> Account] /\ DOMAIN s \subseteq Addr
    /\ \A a \in DOMAIN s : s[a].storage \notin ZeroSlots
    /\ RootOf(s) # NoRoot
    /\ \A file \in DumpsOf(s) :
         file \in Seq(DumpLine) /\ \A i \in DOMAIN file : LineSeen(file[i]) \in Line

PipelineInit ==
  /\ l1 \in L1States
  /\ dumpFile \in DumpsOf(l1)
  /\ checked = 0
  /\ Init
  /\ CheckInit
  /\ base = genesis.alloc
  /\ expectedRoot = RootOf(l1)
  /\ withAlloc

ConvertLine ==
  /\ Len(dump) < Len(dumpFile)
  /\ LET line == LineSeen(dumpFile[Len(dump) + 1])
     IN  SkipLine(line) \/ PruneRecord(line) \/ MergeRecord(line)
           \/ WriteRecord(line) \/ RejectLine(line)

Convert ==
  /\ \/ OpenFiles \/ UnreadableBase \/ OpenOutput
     \/ ConvertLine \/ InputError
     \/ Len(dump) = Len(dumpFile) /\ (EndOfDump \/ EmptyDump)
     \/ \E a \in Addr : AppendBaseEntry(a)
     \/ EndOutput \/ OutputFinished \/ OutputError
  /\ UNCHANGED <<checkVars, l1, dumpFile, checked>>

CheckDumpLine ==
  /\ checked < Len(dumpFile)
  /\ checked' = checked + 1
  /\ LET line == dumpFile[checked + 1]
     IN  ReadHeader(line) \/ ReadRecord(line) \/ BadLine(line)

CheckAllocEntry ==
  /\ Len(entries) < Len(alloc)
  /\ LET pair == alloc[Len(entries) + 1] IN ReadEntry(pair) \/ BadEntry(pair)

\* dumpcheck runs on whatever the converter has left; a partial file ends
\* anywhere, and is empty when it was opened after the clean-up.
Check ==
  /\ outputFile \in {"partial", "complete"}
  /\ pc \in {"done", "crashed", "failed"}
  /\ \/ CheckDumpLine
     \/ checked = Len(dumpFile) /\ EndDump /\ UNCHANGED checked
     \/ pc # "failed" /\ CheckAllocEntry /\ UNCHANGED checked
     \/ Len(entries) = Len(alloc) /\ outputFile = "complete" /\ EndAlloc /\ UNCHANGED checked
     \/ outputFile = "partial" /\ TruncatedAlloc /\ UNCHANGED checked
  /\ UNCHANGED <<vars, l1, dumpFile>>

PipelineNext == Convert \/ Check

PipelineSpec == PipelineInit /\ [][PipelineNext]_pipelineVars

-----------------------------------------------------------------------------
(* Properties *)

\* What goes into the L2 genesis is the merge of the base genesis and the
\* state L1 was frozen in, whatever geth wrote and however the conversion
\* ended (runbook steps 4 and 5: no step 6 without two clean dumpcheck runs).
\* A base genesis that spells an address twice, of which the converter keeps
\* one entry without a word, is not signed off.
SignedOffIsMerge ==
  step = "verified" =>
    /\ outputFile = "complete" /\ ~genesis.twice
    /\ {AllocPair(alloc[i]) : i \in DOMAIN alloc}
         = {AllocPair(m) : m \in Merged(base, RecordsOf(l1), pruneEmpty)}
    /\ \A i, j \in DOMAIN alloc : alloc[i].addr = alloc[j].addr => i = j

\* geth has written each account of the state, in order, after the header.
HonestDump ==
  /\ dumpFile # <<>>
  /\ dumpFile[1].type = "header" /\ dumpFile[1].root = RootOf(l1)
  /\ \A i \in 2..Len(dumpFile) : /\ dumpFile[i].type = "record"
                                 /\ ~BadKey(dumpFile[i])
                                 /\ ~Altered(dumpFile[i])
  /\ \A i, j \in 2..Len(dumpFile) : i < j => RecordKey(dumpFile[i]) < RecordKey(dumpFile[j])
  /\ {[addr |-> RecordAddress(dumpFile[i]), account |-> dumpFile[i].account] :
        i \in 2..Len(dumpFile)} = RecordsOf(l1)

\* Each balance of the base genesis and each merged one fits in 256 bits.
\* dumpcheck reads the whole base genesis: it refuses a balance that does not
\* fit even where a dump account replaces the entry.
BalancesFit ==
  /\ \A a \in DOMAIN base : base[a].balance < Word
  /\ \A m \in Merged(base, RecordsOf(l1), pruneEmpty) : m.entry.balance < Word

\* The converter ends the run because of what the dump holds.
Refuses ==
  \/ Len(dump) < Len(dumpFile) /\ RejectLine(LineSeen(dumpFile[Len(dump) + 1]))
  \/ Len(dump) = Len(dumpFile) /\ EmptyDump

\* No false alarm: converter and checker agree on what may be merged.  From an
\* honest dump the converter only refuses accounts that cannot be merged, and
\* what it has written the checker accepts.
NoFalseAlarm ==
  [][/\ HonestDump /\ l1 # <<>> /\ Mergeable(base, RecordsOf(l1), pruneEmpty)
        => ~Refuses
     /\ HonestDump /\ pc = "done" /\ ~genesis.twice /\ BalancesFit
        => step' # "failed"]_pipelineVars
=============================================================================
