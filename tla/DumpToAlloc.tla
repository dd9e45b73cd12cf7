---------------------------- MODULE DumpToAlloc ----------------------------
(***************************************************************************)
(* scripts/dump-to-alloc.mjs: streams a geth JSONL dump into a genesis     *)
(* allocation merged with the base genesis.                                *)
(*                                                                         *)
(* One action per readline or output-stream event and per outcome of a     *)
(* line.  The entries of the base genesis that remain are appended one by  *)
(* one in any order: the order of JSON keys means nothing to the readers.  *)
(* Counters and lists that only feed the closing report are kept when the  *)
(* runbook asks the operator to compute with them.                         *)
(***************************************************************************)
EXTENDS Accounts, Integers, Sequences, FiniteSets

CONSTANTS
  L1Accounts,  \* the accounts a dump record may carry
  Bases,       \* base genesis allocations, as the Map loadGenesisAlloc builds
  MaxLines     \* bound: lines of the dump

ASSUME DumpToAllocAssumption ==
  /\ L1Accounts \subseteq Account
  /\ \A B \in Bases : /\ DOMAIN B \subseteq Addr /\ IsFiniteSet(DOMAIN B)
                      /\ \A a \in DOMAIN B : B[a] \in BaseEntry
  /\ MaxLines \in Nat

VARIABLES
  pruneEmpty,          \* args.pruneEmpty
  base,                \* the base genesis allocation
  pc,                  \* where main() stands
  dump,                \* the lines converted so far
  pendingBaseAlloc,    \* base addresses no dump account has taken over
  appended,            \* of these, the ones already written at the tail
  alloc,               \* the pairs written, in order
  protectedWritten,
  replacedBaseEntries, \* addresses, as a set: one base entry is replaced once
  protectedMerges,
  dumpAccounts, prunedAccounts,
  dumpBalanceSum, allocBalanceSum,
  outputFile           \* "absent", "opening" (the open is asynchronous),
                       \* "partial" or "complete"

input == <<pruneEmpty, base>>
counters == <<dumpAccounts, prunedAccounts, dumpBalanceSum>>
writing == <<pendingBaseAlloc, appended, alloc, protectedWritten,
             replacedBaseEntries, protectedMerges, allocBalanceSum>>
vars == <<input, pc, dump, writing, counters, outputFile>>

-----------------------------------------------------------------------------
(* Lines of a dump *)

\* The header and other records without account fields, blank lines and JSON
\* that is no object; what no conversion can read; an account with its
\* address; and an account with a trie key only, the zero address's or not.
Line ==
  [type : {"other", "malformed"}]
    \cup [type : {"account"}, addr : Addr, account : L1Accounts]
    \cup [type : {"keyOnly"}, zeroKey : BOOLEAN, account : L1Accounts]

\* A missing preimage: nothing says whose account this is.
IsOrphan(line) == line.type = "keyOnly" /\ ~line.zeroKey

IsAccountRecord(line) == line.type \in {"account", "keyOnly"} /\ ~IsOrphan(line)

ResolveRecordAddress(line) ==
  IF line.type = "account" THEN line.addr ELSE ZeroAddress

-----------------------------------------------------------------------------
(* The conversion of one record *)

ProtectedBaseCode == {a \in DOMAIN base : IsProtectedBaseEntry(base[a])}

Pruned(d) == pruneEmpty /\ IsEmptyAllocEntry(d)

\* The mutated form treats every base entry as a protected one.
MustMerge_AnyBaseEntry(a) == a \in pendingBaseAlloc

MustMerge(a) == a \in pendingBaseAlloc /\ a \in ProtectedBaseCode

\* The mutated form lets a protected address be written twice.
WriteRejected_Twice(a, entry) ==
  a \in ProtectedBaseCode /\ entry.code # base[a].code

\* writeAllocPair throws: a second entry for a protected address, or one
\* that would take its code away.
WriteRejected(a, entry) ==
  /\ a \in ProtectedBaseCode
  /\ a \in protectedWritten \/ entry.code # base[a].code

Rejected(a, d) ==
  /\ ~Pruned(d)
  /\ IF MustMerge(a)
     THEN \/ CannotMerge(base[a], d)
          \/ WriteRejected(a, MergeIntoProtectedEntry(base[a], d))
     ELSE WriteRejected(a, d)

WriteAllocPair(a, entry) ==
  /\ alloc' = Append(alloc, [addr |-> a, entry |-> entry])
  /\ allocBalanceSum' = allocBalanceSum + entry.balance
  /\ protectedWritten' =
       IF a \in ProtectedBaseCode THEN protectedWritten \cup {a} ELSE protectedWritten

CountRecord(d) ==
  /\ dumpAccounts' = dumpAccounts + 1
  /\ dumpBalanceSum' = dumpBalanceSum + d.balance

Init ==
  /\ pruneEmpty \in BOOLEAN
  /\ base \in Bases
  /\ pc = "start"
  /\ dump = <<>>
  /\ pendingBaseAlloc = DOMAIN base
  /\ appended = {}
  /\ alloc = <<>>
  /\ protectedWritten = {}
  /\ replacedBaseEntries = {}
  /\ protectedMerges = {}
  /\ dumpAccounts = 0
  /\ prunedAccounts = 0
  /\ dumpBalanceSum = 0
  /\ allocBalanceSum = 0
  /\ outputFile = "absent"

-----------------------------------------------------------------------------
(* Actions *)

\* main().catch: exit with an error and delete the output, if it is there.  An
\* open that the file system has not done yet is not called back.
Fail ==
  /\ pc' = "failed"
  /\ outputFile' = IF outputFile = "opening" THEN "opening" ELSE "absent"
  /\ UNCHANGED <<input, dump, writing, counters>>

\* Read the base genesis and note the code of its protected entries, which
\* throws on unreadable code; then have the output and the input opened.
OpenFiles ==
  /\ pc = "start"
  /\ \A a \in DOMAIN base : base[a].code # BadCode
  /\ pc' = "reading"
  /\ outputFile' = "opening"
  /\ UNCHANGED <<input, dump, writing, counters>>

\* partialOutputPath is not set yet.
UnreadableBase ==
  /\ pc = "start"
  /\ \E a \in DOMAIN base : base[a].code = BadCode
  /\ pc' = "failed"
  /\ UNCHANGED <<input, dump, writing, counters, outputFile>>

\* The file system creates the file, or empties it, in a thread of its own.
OpenOutput ==
  /\ outputFile = "opening"
  /\ outputFile' = "partial"
  /\ UNCHANGED <<input, pc, dump, writing, counters>>

\* A line arrives, within the bound, and is converted without an error.
Converted(line) ==
  /\ pc = "reading"
  /\ Len(dump) < MaxLines
  /\ dump' = Append(dump, line)
  /\ UNCHANGED <<input, pc, appended, outputFile>>

SkipLine(line) ==
  /\ Converted(line)
  /\ line.type = "other"
  /\ UNCHANGED <<pendingBaseAlloc, alloc, protectedWritten, replacedBaseEntries,
                 protectedMerges, allocBalanceSum, counters>>

\* Mutated form: the base entry is taken over before the account is pruned.
PruneRecord_TakesOver(line) ==
  /\ Converted(line)
  /\ IsAccountRecord(line)
  /\ Pruned(line.account)
  /\ CountRecord(line.account)
  /\ prunedAccounts' = prunedAccounts + 1
  /\ pendingBaseAlloc' = pendingBaseAlloc \ {ResolveRecordAddress(line)}
  /\ UNCHANGED <<alloc, protectedWritten, replacedBaseEntries,
                 protectedMerges, allocBalanceSum>>

\* An empty account leaves the base entry for its address where it is.
PruneRecord(line) ==
  /\ Converted(line)
  /\ IsAccountRecord(line)
  /\ Pruned(line.account)
  /\ CountRecord(line.account)
  /\ prunedAccounts' = prunedAccounts + 1
  /\ UNCHANGED <<pendingBaseAlloc, alloc, protectedWritten, replacedBaseEntries,
                 protectedMerges, allocBalanceSum>>

\* A protected base entry keeps its contract; the L1 balance is added to it.
MergeRecord(line) ==
  LET a == ResolveRecordAddress(line)
      d == line.account
  IN  /\ Converted(line)
      /\ IsAccountRecord(line)
      /\ ~Pruned(d)
      /\ MustMerge(a)
      /\ ~Rejected(a, d)
      /\ CountRecord(d)
      /\ pendingBaseAlloc' = pendingBaseAlloc \ {a}
      /\ protectedMerges' = protectedMerges \cup {a}
      /\ WriteAllocPair(a, MergeIntoProtectedEntry(base[a], d))
      /\ UNCHANGED <<prunedAccounts, replacedBaseEntries>>

\* Mutated forms: the base entry a dump account takes over stays pending; its
\* replacement is not reported.
WriteRecord_KeepPending(line) ==
  LET a == ResolveRecordAddress(line)
      d == line.account
  IN  /\ Converted(line)
      /\ IsAccountRecord(line)
      /\ ~Pruned(d)
      /\ ~MustMerge(a)
      /\ ~Rejected(a, d)
      /\ CountRecord(d)
      /\ replacedBaseEntries' = replacedBaseEntries \cup ({a} \cap pendingBaseAlloc)
      /\ WriteAllocPair(a, d)
      /\ UNCHANGED <<prunedAccounts, protectedMerges, pendingBaseAlloc>>

WriteRecord_Unreported(line) ==
  LET a == ResolveRecordAddress(line)
      d == line.account
  IN  /\ Converted(line)
      /\ IsAccountRecord(line)
      /\ ~Pruned(d)
      /\ ~MustMerge(a)
      /\ ~Rejected(a, d)
      /\ CountRecord(d)
      /\ pendingBaseAlloc' = pendingBaseAlloc \ {a}
      /\ WriteAllocPair(a, d)
      /\ UNCHANGED <<prunedAccounts, protectedMerges, replacedBaseEntries>>

\* A dump account at an address of its own, or one that replaces a base entry
\* holding no contract.
WriteRecord(line) ==
  LET a == ResolveRecordAddress(line)
      d == line.account
  IN  /\ Converted(line)
      /\ IsAccountRecord(line)
      /\ ~Pruned(d)
      /\ ~MustMerge(a)
      /\ ~Rejected(a, d)
      /\ CountRecord(d)
      /\ replacedBaseEntries' = replacedBaseEntries \cup ({a} \cap pendingBaseAlloc)
      /\ pendingBaseAlloc' = pendingBaseAlloc \ {a}
      /\ WriteAllocPair(a, d)
      /\ UNCHANGED <<prunedAccounts, protectedMerges>>

\* The first line that cannot be converted ends the run.  Later lines that
\* readline has already read are ignored; what the run has counted is never
\* read again.
RejectLine(line) ==
  /\ pc = "reading"
  /\ Len(dump) < MaxLines
  /\ \/ line.type = "malformed"
     \/ IsOrphan(line)
     \/ IsAccountRecord(line) /\ Rejected(ResolveRecordAddress(line), line.account)
  /\ Fail

\* The dump cannot be read any further.
InputError ==
  /\ pc = "reading"
  /\ Fail

\* The end of a dump without accounts is an error; otherwise the remaining
\* base entries follow.
EndOfDump ==
  /\ pc = "reading"
  /\ dumpAccounts > 0
  /\ pc' = "appending"
  /\ UNCHANGED <<input, dump, writing, counters, outputFile>>

EmptyDump ==
  /\ pc = "reading"
  /\ dumpAccounts = 0
  /\ Fail

AppendBaseEntry(a) ==
  /\ pc = "appending"
  /\ a \in pendingBaseAlloc \ appended
  /\ ~WriteRejected(a, base[a])
  /\ appended' = appended \cup {a}
  /\ WriteAllocPair(a, base[a])
  /\ UNCHANGED <<input, pc, dump, pendingBaseAlloc, replacedBaseEntries,
                 protectedMerges, counters, outputFile>>

\* Mutated form: waits for entries that dump accounts have taken over.
EndOutput_WholeBase ==
  /\ pc = "appending"
  /\ appended = DOMAIN base
  /\ ProtectedBaseCode \subseteq protectedWritten
  /\ pc' = "ending"
  /\ UNCHANGED <<input, dump, writing, counters, outputFile>>

\* All entries are written; the closing check of the protected ones precedes
\* the end of the output stream.  That it never fails is ClosingChecksPass.
EndOutput ==
  /\ pc = "appending"
  /\ appended = pendingBaseAlloc
  /\ ProtectedBaseCode \subseteq protectedWritten
  /\ pc' = "ending"
  /\ UNCHANGED <<input, dump, writing, counters, outputFile>>

\* The stream has flushed everything: the file is no longer partial.
OutputFinished ==
  /\ pc = "ending"
  /\ outputFile = "partial"
  /\ pc' = "done"
  /\ outputFile' = "complete"
  /\ UNCHANGED <<input, dump, writing, counters>>

\* The output cannot be opened or written (no space left, an I/O error).  The
\* `error` listener exists only while the stream is being ended: before that
\* the event is an uncaught exception, and main().catch never runs.  The tail
\* is appended without a return to the event loop: no event falls into it.
OutputError ==
  /\ pc \in {"reading", "ending"}
  /\ pc' = IF pc = "ending" THEN "failed" ELSE "crashed"
  /\ outputFile' = IF pc = "ending" \/ outputFile = "opening" THEN "absent" ELSE outputFile
  /\ UNCHANGED <<input, dump, writing, counters>>

ReadLine ==
  \E line \in Line :
    SkipLine(line) \/ PruneRecord(line) \/ MergeRecord(line)
      \/ WriteRecord(line) \/ RejectLine(line)

Next ==
  \/ OpenFiles \/ UnreadableBase \/ OpenOutput
  \/ ReadLine \/ InputError
  \/ EndOfDump \/ EmptyDump
  \/ \E a \in Addr : AppendBaseEntry(a)
  \/ EndOutput \/ OutputFinished \/ OutputError

Spec == Init /\ [][Next]_vars

\* One sequential process whose files are finite: what it can do next, it
\* does, and the events of its streams arrive.
FairSpec == Spec /\ WF_vars(Next)

-----------------------------------------------------------------------------
(* Properties *)

Pair == [addr : Addr, entry : BaseEntry]

TypeOK ==
  /\ pruneEmpty \in BOOLEAN
  /\ base \in Bases
  /\ pc \in {"start", "reading", "appending", "ending", "done", "failed", "crashed"}
  /\ dump \in Seq(Line)
  /\ pendingBaseAlloc \subseteq DOMAIN base
  /\ appended \subseteq pendingBaseAlloc
  /\ pc \in {"start", "reading"} => appended = {}
  /\ alloc \in Seq(Pair)
  /\ protectedWritten \subseteq ProtectedBaseCode
  /\ replacedBaseEntries \subseteq DOMAIN base
  /\ protectedMerges \subseteq ProtectedBaseCode
  /\ dumpAccounts \in Nat /\ prunedAccounts \in Nat
  /\ dumpBalanceSum \in Nat /\ allocBalanceSum \in Nat
  /\ outputFile \in {"absent", "opening", "partial", "complete"}

Writes(a) == {i \in DOMAIN alloc : alloc[i].addr = a}

SameContract(e, b) == e.code = b.code /\ e.storage = b.storage /\ e.nonce = b.nonce

\* README "Known limitations" 2: every protected base address is in a
\* complete allocation exactly once, with the base genesis contract and no
\* less than the base balance, whatever the dump holds.
ProtectedContractsKept ==
  outputFile = "complete" =>
    \A a \in ProtectedBaseCode :
      \E i \in DOMAIN alloc :
        /\ Writes(a) = {i}
        /\ SameContract(alloc[i].entry, base[a])
        /\ alloc[i].entry.balance >= base[a].balance

\* No account is dropped silently: each record of the dump that is not pruned
\* has a pair at its address, and each base entry is either in the
\* allocation as it was or is reported as replaced or merged.
NothingDropped ==
  outputFile = "complete" =>
    /\ \A i \in DOMAIN dump :
         /\ IsAccountRecord(dump[i])
         /\ ~Pruned(dump[i].account)
         => Writes(ResolveRecordAddress(dump[i])) # {}
    /\ \A a \in DOMAIN base \ (replacedBaseEntries \cup protectedMerges) :
         \E i \in DOMAIN alloc : alloc[i] = [addr |-> a, entry |-> base[a]]

\* The entry count the runbook tells the operator to expect (runbook step 5):
\* base entries + dump accounts - pruned - replaced - merged.
EntryCount ==
  outputFile = "complete" =>
    Len(alloc) = Cardinality(DOMAIN base) + dumpAccounts - prunedAccounts
                   - Cardinality(replacedBaseEntries) - Cardinality(protectedMerges)

\* The base balances at a set of addresses, added up in any order.
BaseBalance[S \in SUBSET DOMAIN base] ==
  IF S = {} THEN 0
  ELSE LET a == CHOOSE a \in S : TRUE IN base[a].balance + BaseBalance[S \ {a}]

\* The native supply: what is written is the dump plus the base balances that
\* were not replaced, at every moment of the run and exactly (README: "exact
\* balance sums").
SupplyConserved ==
  allocBalanceSum =
    dumpBalanceSum + BaseBalance[DOMAIN base \ (replacedBaseEntries
                                                  \cup (pendingBaseAlloc \ appended))]

\* The checks that guard the tail (script, lines 394-401 and 551-553) never end
\* a run: what is left of the base genesis can be written, and with it every
\* protected contract has been.
ClosingChecksPass ==
  pc = "appending" =>
    /\ \A a \in pendingBaseAlloc \ appended : ~WriteRejected(a, base[a])
    /\ appended = pendingBaseAlloc => ProtectedBaseCode \subseteq protectedWritten

\* README "Behaviour worth knowing": a run that fails part-way deletes its
\* partial output file.  A run ended by an uncaught stream error fails too.
\* (What a run leaves that fails before its output is open, SignedOffIsMerge of
\* MigrationPipeline covers.)
PartialOutputDeleted == pc = "crashed" => outputFile # "partial"

\* Every run comes to an end.
RunEnds == <>(pc \in {"done", "failed", "crashed"})

\* The allocation is the merge of the base genesis and the set of records
\* read: neither the order of the dump nor that of the writes matters.
RecordsRead ==
  {[addr |-> ResolveRecordAddress(dump[i]), account |-> dump[i].account] :
     i \in {j \in DOMAIN dump : IsAccountRecord(dump[j])}}

Promise == INSTANCE StateMerge WITH
  records <- RecordsRead,
  outcome <- IF pc = "done" THEN "published"
             ELSE IF pc \in {"failed", "crashed"} THEN "abandoned" ELSE "open",
  published <- IF outputFile = "complete"
               THEN {alloc[i] : i \in DOMAIN alloc} ELSE {}

MergesAsPromised == Promise!PromiseSpec
=============================================================================
