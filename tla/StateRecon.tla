----------------------------- MODULE StateRecon -----------------------------
(***************************************************************************)
(* staterecon: walks every account of L1 with debug_accountRange, asks L2  *)
(* for the same accounts, and both chains for proofs of the contracts, in  *)
(* chunked batch calls; writes the results as CSV and closes with a        *)
(* summary.                                                                *)
(*                                                                         *)
(* An account is its position in the order of the walk; the order of the   *)
(* accounts inside a page does not matter.  What the chains hold is fixed: *)
(* both are read at a given block.  Values are only compared, so an        *)
(* account is described by the fields in which L2 differs from L1.         *)
(***************************************************************************)
EXTENDS Integers, Sequences, FiniteSets

CONSTANTS
  Count,        \* accounts of L1
  Kinds,        \* what an account may be, see Kind
  PageSize, BatchSize, RpcBatchSize,
  MaxFailures,  \* bound: batch calls with errors in one behaviour
  MaxRuns       \* bound: the run and its resumptions

BasicFields == {"balance", "nonce"}
ProofFields == {"code_hash", "storage_hash"}

\* preimage: L1 knows the address; contract: it has code on L1; differs: fields
\* in which L2 differs.
Kind == [preimage : BOOLEAN, contract : BOOLEAN, differs : SUBSET (BasicFields \cup ProofFields)]

ASSUME StateReconAssumption ==
  /\ Count \in Nat
  /\ Kinds \subseteq Kind
  /\ PageSize \in Nat \ {0} /\ BatchSize \in Nat \ {0} /\ RpcBatchSize \in Nat \ {0}
  /\ MaxFailures \in Nat /\ MaxRuns \in Nat

VARIABLES
  chain,      \* [1..Count -> Kinds], L1 beside L2
  pc,         \* "fetch", "collect", "compare", "summary", "done", "failed"
  first,      \* --account-range-start
  cursor,     \* where the current page starts
  pageEnd,    \* last account of the current page
  next,       \* where the next page starts, Empty after the last one
  taken,      \* last account put into a batch
  batch,
  final,      \* the batch is flushed after the last page
  toSend,     \* numbers of the requests not yet sent, by caller
  answers,    \* answers to the requests sent, by caller and number
  full,       \* the CSV file, one element for the rows of an account
  mismatch,   \* which elements of it the second CSV file repeats
  matched, mismatched, errors, accounts,   \* Summary
  printed,    \* `next` of the last "batch processed" line, NotPrinted before
  lost,       \* history: the walk ended at a page that was not the last
  repeated,   \* history: the first page was named as the one after itself
  archive,    \* history: accounts in the reports of interrupted runs
  failures, runs

\* A cursor is a position or the empty string, where the walk starts at the
\* first account, and which no page comes after.
Empty == 0
NotPrinted == -1

Position(c) == IF c = Empty THEN 1 ELSE c

walk == <<first, cursor, pageEnd, next, taken, lost, repeated>>
calls == <<toSend, answers, failures>>
report == <<full, mismatch, matched, mismatched, errors, accounts, printed>>
vars == <<chain, pc, walk, batch, final, calls, report, archive, runs>>

Caller == {"basics", "l1", "l2"}

NothingToSend == [c \in Caller |-> {}]

Init ==
  /\ chain \in [1..Count -> Kinds]
  /\ pc = "fetch"
  /\ first = Empty /\ cursor = Empty /\ pageEnd = 0 /\ next = Empty /\ taken = 0
  /\ batch = <<>> /\ final = FALSE
  /\ toSend = NothingToSend /\ answers = <<>>
  /\ full = <<>> /\ mismatch = {}
  /\ matched = 0 /\ mismatched = 0 /\ errors = 0 /\ accounts = 0
  /\ printed = NotPrinted
  /\ lost = FALSE /\ repeated = FALSE /\ archive = {} /\ failures = 0 /\ runs = 1

-----------------------------------------------------------------------------
(* Requests and the rows they lead to *)

\* The requests of a caller are numbered: two for each account of the batch,
\* its balance and its nonce, and a proof for each contract.
BasicRequests(b) == 1..2 * Len(b)

ProofRequests(b) == {i \in DOMAIN b : chain[b[i]].contract}

Requests(c, b) == IF c = "basics" THEN BasicRequests(b) ELSE ProofRequests(b)

Request == {"basics"} \X (1..2 * BatchSize) \cup {"l1", "l2"} \X (1..BatchSize)

Answered(c, n) == answers[<<c, n>>] = "ok"

Status(a, f, answered) ==
  IF ~answered THEN "error" ELSE IF f \in chain[a].differs THEN "mismatch" ELSE "match"

BasicStatus(i, f) ==
  Status(batch[i], f, Answered("basics", IF f = "balance" THEN 2 * i - 1 ELSE 2 * i))

\* Either proof may be missing.
ProofStatus(i, f) == Status(batch[i], f, \A side \in {"l1", "l2"} : Answered(side, i))

Compared(a) == BasicFields \cup (IF chain[a].contract THEN ProofFields ELSE {})

\* The rows of the i-th account of the batch.
Rows(i) ==
  [f \in Compared(batch[i]) |-> IF f \in BasicFields THEN BasicStatus(i, f) ELSE ProofStatus(i, f)]

\* Mutated form: the last field decides.
AggregateStatus_Last(rows) ==
  IF "storage_hash" \in DOMAIN rows THEN rows["storage_hash"] ELSE rows["nonce"]

\* An error outweighs a mismatch, a mismatch a match.
AggregateStatus(rows) ==
  IF \E f \in DOMAIN rows : rows[f] = "error" THEN "error"
  ELSE IF \E f \in DOMAIN rows : rows[f] = "mismatch" THEN "mismatch"
  ELSE "match"

Results == [i \in DOMAIN batch |-> [account |-> batch[i], rows |-> Rows(i)]]

\* The results that go to the mismatch file too, where they are in the other.
Flagged == {Len(full) + i : i \in {j \in DOMAIN batch : \E f \in DOMAIN Rows(j) : Rows(j)[f] # "match"}}

CountOf(status) == Cardinality({i \in DOMAIN batch : AggregateStatus(Rows(i)) = status})

-----------------------------------------------------------------------------
(* Actions *)

Fail ==
  /\ pc' = "failed"
  /\ UNCHANGED <<chain, walk, batch, final, calls, report, archive, runs>>

\* Every account of the page has an address.
Readable(last) == \A a \in Position(cursor)..last : chain[a].preimage

\* What the client may read from the answer as the next page's cursor: that
\* page, nothing (the cursor has a form it does not know), this page again.
NextCursors(last) == {IF last = Count THEN Empty ELSE last + 1, Empty, Position(cursor)}

IsLastPage(n, c) == n = Empty \/ n = c

\* A page: some accounts from the cursor on.
FetchPage ==
  /\ pc = "fetch"
  /\ \E last \in Position(cursor)..Count :
       /\ last < Position(cursor) + PageSize
       /\ Readable(last)
       /\ pageEnd' = last
       /\ next' \in NextCursors(last)
       /\ lost' = (lost \/ (last < Count /\ IsLastPage(next', cursor)))
  /\ repeated' = (repeated \/ (cursor = Empty /\ next' = Position(cursor)))
  /\ taken' = Position(cursor) - 1
  /\ pc' = "collect"
  /\ UNCHANGED <<chain, first, cursor, batch, final, calls, report, archive, runs>>

\* L1 does not answer, or the page holds an account without its address.
PageFails ==
  /\ pc = "fetch"
  /\ Fail

\* compareBatch: both proof fetchers start once the basics are there.
Compare(b) ==
  /\ pc' = "compare"
  /\ toSend' = [c \in Caller |-> Requests(c, b)]
  /\ answers' = <<>>
  /\ UNCHANGED failures

TakeAccount ==
  LET b == Append(batch, taken + 1)
  IN  /\ pc = "collect"
      /\ taken < pageEnd
      /\ taken' = taken + 1
      /\ batch' = b
      /\ IF Len(b) < BatchSize THEN UNCHANGED <<pc, calls>> ELSE Compare(b)
      /\ UNCHANGED <<chain, first, cursor, pageEnd, next, lost, repeated, final, report,
                     archive, runs>>

\* Mutated form: what is left of the batch after the last page is forgotten.
EndOfPage_DropRest ==
  /\ pc = "collect"
  /\ taken = pageEnd
  /\ IF IsLastPage(next, cursor)
     THEN pc' = "summary" /\ UNCHANGED cursor
     ELSE pc' = "fetch" /\ cursor' = next
  /\ UNCHANGED <<chain, first, pageEnd, next, taken, lost, repeated, batch, final, calls,
                 report, archive, runs>>

\* After the last page the rest of the batch is flushed.
EndOfPage ==
  /\ pc = "collect"
  /\ taken = pageEnd
  /\ IF IsLastPage(next, cursor)
     THEN /\ IF batch = <<>> THEN pc' = "summary" /\ UNCHANGED calls ELSE Compare(batch)
          /\ final' = TRUE
          /\ UNCHANGED cursor
     ELSE /\ pc' = "fetch"
          /\ cursor' = next
          /\ UNCHANGED <<final, calls>>
  /\ UNCHANGED <<chain, first, pageEnd, next, taken, lost, repeated, batch, report, archive,
                 runs>>

\* Mutated form: only whole chunks are sent.
Chunk_Whole(requests) ==
  {n \in requests : /\ Cardinality({m \in requests : m <= n}) <= RpcBatchSize
                    /\ Cardinality(requests) >= RpcBatchSize}

\* The next RpcBatchSize requests, or what is left.
Chunk(requests) == {n \in requests : Cardinality({m \in requests : m <= n}) <= RpcBatchSize}

\* doBatch: one chunk, in which requests may fail one by one or all together.
DoBatch(c) ==
  LET chunk == Chunk(toSend[c])
  IN  /\ pc = "compare"
      /\ toSend[c] # {}
      /\ c # "basics" => toSend["basics"] = {}
      /\ toSend' = [toSend EXCEPT ![c] = @ \ chunk]
      /\ \E failed \in SUBSET chunk :
           /\ answers' = [r \in DOMAIN answers \cup {c} \X chunk |->
                            IF r \notin {c} \X chunk THEN answers[r]
                            ELSE IF r[2] \in failed THEN "error" ELSE "ok"]
           /\ failures' = IF failed = {} THEN failures ELSE failures + 1
           /\ failures' <= MaxFailures
      /\ UNCHANGED <<chain, pc, walk, batch, final, report, archive, runs>>

\* Mutated forms: the batch is not emptied; it is not merged into the totals.
WriteRows_KeepBatch ==
  /\ pc = "compare"
  /\ toSend = NothingToSend
  /\ full' = full \o Results
  /\ mismatch' = mismatch \cup Flagged
  /\ accounts' = accounts + Len(batch)
  /\ matched' = matched + CountOf("match")
  /\ mismatched' = mismatched + CountOf("mismatch")
  /\ errors' = errors + CountOf("error")
  /\ printed' = IF final THEN Empty ELSE next
  /\ pc' = IF final THEN "summary" ELSE "collect"
  /\ answers' = <<>>
  /\ UNCHANGED <<chain, walk, batch, final, toSend, failures, archive, runs>>

WriteRows_NoErrors ==
  /\ pc = "compare"
  /\ toSend = NothingToSend
  /\ full' = full \o Results
  /\ mismatch' = mismatch \cup Flagged
  /\ accounts' = accounts + Len(batch)
  /\ matched' = matched + CountOf("match")
  /\ mismatched' = mismatched + CountOf("mismatch")
  /\ printed' = IF final THEN Empty ELSE next
  /\ batch' = <<>>
  /\ pc' = IF final THEN "summary" ELSE "collect"
  /\ answers' = <<>>
  /\ UNCHANGED <<chain, walk, final, toSend, failures, errors, archive, runs>>

\* All answers are in: the rows of the batch, the totals and the log line.
WriteRows ==
  /\ pc = "compare"
  /\ toSend = NothingToSend
  /\ full' = full \o Results
  /\ mismatch' = mismatch \cup Flagged
  /\ accounts' = accounts + Len(batch)
  /\ matched' = matched + CountOf("match")
  /\ mismatched' = mismatched + CountOf("mismatch")
  /\ errors' = errors + CountOf("error")
  /\ printed' = IF final THEN Empty ELSE next
  /\ batch' = <<>>
  /\ pc' = IF final THEN "summary" ELSE "collect"
  /\ answers' = <<>>
  /\ UNCHANGED <<chain, walk, final, toSend, failures, archive, runs>>

\* The files cannot be written: the batch is in neither of them, or in part.
WriteFails ==
  /\ pc \in {"compare", "summary"}
  /\ toSend = NothingToSend
  /\ Fail

WriteSummary ==
  /\ pc = "summary"
  /\ pc' = "done"
  /\ UNCHANGED <<chain, walk, batch, final, calls, report, archive, runs>>

\* The process is killed (bounded by the resumptions that may follow).
Interrupt ==
  /\ pc \notin {"done", "failed"}
  /\ runs < MaxRuns
  /\ Fail

\* The operator starts again where the log says the walk goes on, and keeps
\* the report of the interrupted run.
Resume ==
  /\ pc = "failed"
  /\ printed \notin {Empty, NotPrinted}
  /\ runs < MaxRuns
  /\ runs' = runs + 1
  /\ archive' = archive \cup {full[i].account : i \in DOMAIN full}
  /\ pc' = "fetch"
  /\ first' = printed /\ cursor' = printed /\ taken' = printed - 1 /\ pageEnd' = printed - 1
  /\ next' = Empty
  /\ batch' = <<>> /\ final' = FALSE
  /\ toSend' = NothingToSend /\ answers' = <<>>
  /\ full' = <<>> /\ mismatch' = {}
  /\ matched' = 0 /\ mismatched' = 0 /\ errors' = 0 /\ accounts' = 0
  /\ printed' = NotPrinted
  /\ UNCHANGED <<chain, lost, repeated, failures>>

RunStep ==
  \/ FetchPage \/ PageFails
  \/ TakeAccount \/ EndOfPage
  \/ \E c \in Caller : DoBatch(c)
  \/ WriteRows \/ WriteFails \/ WriteSummary

Next == RunStep \/ Interrupt \/ Resume

Spec == Init /\ [][Next]_vars

\* One process; each call to a chain is answered or given up after its
\* timeout.
FairSpec == Spec /\ WF_vars(RunStep)

-----------------------------------------------------------------------------
(* Properties *)

TypeOK ==
  /\ chain \in [1..Count -> Kinds]
  /\ pc \in {"fetch", "collect", "compare", "summary", "done", "failed"}
  /\ first \in 0..Count /\ cursor \in 0..Count
  /\ pageEnd \in 0..Count /\ taken \in (Position(first) - 1)..pageEnd
  /\ next \in 0..Count
  /\ \A i \in DOMAIN batch : batch[i] \in 1..Count
  /\ Len(batch) <= BatchSize
  /\ final \in BOOLEAN /\ lost \in BOOLEAN /\ repeated \in BOOLEAN
  /\ \A c \in Caller : {c} \X toSend[c] \subseteq Request
  /\ DOMAIN answers \subseteq Request
  /\ \A r \in DOMAIN answers : answers[r] \in {"ok", "error"}
  /\ printed \in {NotPrinted} \cup 0..Count
  /\ archive \subseteq 1..Count
  /\ failures \in 0..MaxFailures

\* The report of a completed walk lists each account from the start cursor on
\* exactly once, in whatever way pages and batches overlap.
EachAccountOnce ==
  pc = "done" /\ ~lost /\ ~repeated =>
    [i \in DOMAIN full |-> full[i].account]
      = [i \in 1..(Count + 1 - Position(first)) |-> Position(first) + i - 1]

\* The sign-off of docs/post-migration-verification.md, layer 1: no mismatch,
\* no error and the expected number of accounts mean that L2 agrees with L1
\* in each compared field of every account, even if a cursor could not be read.
\* (An account that is read twice may stand for one that is not read at all.)
CleanRunIsEqual ==
  pc = "done" /\ ~repeated /\ mismatched = 0 /\ errors = 0 /\ accounts = Count =>
    \A a \in 1..Count : chain[a].preimage /\ chain[a].differs \cap Compared(a) = {}

\* Summary and files say the same: all accounts are counted once, and the
\* mismatch file holds those that did not match.
SummaryAddsUp ==
  pc \in {"summary", "done"} =>
    /\ accounts = Len(full)
    /\ accounts = matched + mismatched + errors
    /\ Cardinality(mismatch) = mismatched + errors

\* A run comes to an end.
RunEnds == [](pc = "fetch" => <>(pc \in {"done", "failed"}))

\* "Use --account-range-start to resume an interrupted run"
\* (docs/post-migration-verification.md): the reports of the interrupted and
\* of the resumed run cover every account together.
ResumeCoversAll ==
  pc = "done" /\ ~lost /\ ~repeated => archive \cup {full[i].account : i \in DOMAIN full} = 1..Count
=============================================================================
