-------------------------- MODULE StateReconProofs --------------------------
(***************************************************************************)
(* What a report of staterecon says, for any number of accounts and any    *)
(* size of pages, batches and chunks, and whatever answers are missing.    *)
(***************************************************************************)
EXTENDS StateRecon, FiniteSetTheorems, TLAPS

-----------------------------------------------------------------------------
(* Types *)

Fields == BasicFields \cup ProofFields
Statuses == {"match", "mismatch", "error"}

Results1 == [account : 1..Count, rows : UNION {[F -> Statuses] : F \in SUBSET Fields}]

\* The batch is full only while it is compared.
TypeInv ==
  /\ TypeOK
  /\ batch \in Seq(1..Count)
  /\ full \in Seq(Results1)
  /\ toSend \in [Caller -> SUBSET Nat]
  /\ pc \in {"fetch", "collect"} => Len(batch) < BatchSize
  /\ Position(cursor) >= Position(first)

\* The walk: the next account to take is the first of the page to come; pages
\* are readable; after the last page nothing is left to take.
WalkInv ==
  /\ pc = "fetch" /\ ~repeated => taken = Position(cursor) - 1
  /\ pc \in {"collect", "compare"} =>
       /\ taken >= Position(cursor) - 1
       /\ Readable(pageEnd)
       /\ next \in NextCursors(pageEnd)
       /\ IsLastPage(next, cursor) => pageEnd = Count \/ lost
       /\ cursor = Empty /\ next = Position(cursor) => repeated
  /\ final => /\ pc \notin {"fetch", "collect"}
              /\ taken = pageEnd /\ IsLastPage(next, cursor)
  /\ pc \in {"summary", "done"} =>
       batch = <<>> /\ taken = pageEnd /\ (pageEnd = Count \/ lost)

\* Rows and batch together list the accounts taken, in order.
ListInv ==
  ~repeated =>
    /\ Len(full) + Len(batch) = taken - Position(first) + 1
    /\ \A i \in DOMAIN full : full[i].account = Position(first) + i - 1
    /\ \A i \in DOMAIN batch : batch[i] = Position(first) + Len(full) + i - 1

\* Every account read has an address; as long as nothing was counted as a
\* mismatch or an error, every account reported is the same on both chains.
Same(a) == chain[a].differs \cap Compared(a) = {}

CleanInv ==
  /\ \A i \in DOMAIN batch : chain[batch[i]].preimage
  /\ \A i \in DOMAIN full : chain[full[i].account].preimage
  /\ mismatched = 0 /\ errors = 0 => \A i \in DOMAIN full : Same(full[i].account)

\* The totals count the accounts of the CSV file.
CountInv ==
  /\ matched \in Nat /\ mismatched \in Nat /\ errors \in Nat
  /\ accounts = Len(full)
  /\ accounts = matched + mismatched + errors
  /\ mismatch \subseteq 1..Len(full)
  /\ Cardinality(mismatch) = mismatched + errors

ReportInv == TypeInv /\ WalkInv /\ ListInv /\ CleanInv /\ CountInv

LEMMA ElementsOf ==
  ASSUME NEW S, NEW s \in Seq(S)
  PROVE  DOMAIN s = 1..Len(s) /\ Len(s) \in Nat /\ \A i \in DOMAIN s : s[i] \in S
  OBVIOUS

LEMMA ElementsOfBoth ==
  ASSUME NEW S, NEW s \in Seq(S), NEW t \in Seq(S)
  PROVE  /\ Len(s \o t) = Len(s) + Len(t) /\ DOMAIN (s \o t) = 1..Len(s) + Len(t)
         /\ \A i \in 1..Len(s) : (s \o t)[i] = s[i]
         /\ \A i \in Len(s) + 1..Len(s) + Len(t) : (s \o t)[i] = t[i - Len(s)]
  OBVIOUS

LEMMA ConstantsTyped ==
  /\ Count \in Nat /\ BatchSize \in Nat \ {0} /\ PageSize \in Nat \ {0}
  /\ \A a \in 1..Count : chain \in [1..Count -> Kinds] =>
       /\ chain[a].preimage \in BOOLEAN /\ chain[a].contract \in BOOLEAN
       /\ chain[a].differs \subseteq Fields
  BY StateReconAssumption DEF Kind, Fields

\* A failure keeps everything but the program counter.
Untouched == UNCHANGED <<chain, walk, batch, final, calls, report, archive>>

LEMMA FailIsQuiet ==
  ASSUME Fail \/ PageFails \/ WriteFails \/ Interrupt \/ WriteSummary
  PROVE  Untouched /\ (pc' = "failed" \/ (pc = "summary" /\ pc' = "done"))
  BY DEF Fail, PageFails, WriteFails, Interrupt, WriteSummary, Untouched

LEMMA RowsTyped ==
  ASSUME TypeInv, NEW i \in DOMAIN batch
  PROVE  /\ Rows(i) \in [Compared(batch[i]) -> Statuses]
         /\ Compared(batch[i]) \in SUBSET Fields
         /\ batch[i] \in 1..Count
  <1>1. Compared(batch[i]) \in SUBSET Fields
    BY DEF Compared, Fields
  <1>2. \A a, f, answered : Status(a, f, answered) \in Statuses
    BY DEF Status, Statuses
  <1>3. \A f : BasicStatus(i, f) \in Statuses /\ ProofStatus(i, f) \in Statuses
    BY <1>2 DEF BasicStatus, ProofStatus
  <1>4. Rows(i) \in [Compared(batch[i]) -> Statuses]
    BY <1>3 DEF Rows
  <1>5. batch[i] \in 1..Count
    BY DEF TypeInv, TypeOK
  <1>. QED
    BY <1>1, <1>4, <1>5

LEMMA ResultsTyped ==
  ASSUME TypeInv
  PROVE  /\ Results \in Seq(Results1) /\ Len(Results) = Len(batch)
         /\ DOMAIN batch = 1..Len(batch) /\ Len(batch) \in Nat
         /\ \A i \in 1..Len(batch) : Results[i].account = batch[i]
  <1>1. DOMAIN batch = 1..Len(batch) /\ Len(batch) \in Nat
    BY DEF TypeInv
  <1>2. \A i \in 1..Len(batch) : [account |-> batch[i], rows |-> Rows(i)] \in Results1
    BY <1>1, RowsTyped DEF Results1
  <1>3. Results = [i \in 1..Len(batch) |-> [account |-> batch[i], rows |-> Rows(i)]]
    BY <1>1 DEF Results
  <1>4. Results \in Seq(Results1) /\ Len(Results) = Len(batch)
    BY <1>1, <1>2, <1>3
  <1>5. \A i \in 1..Len(batch) : Results[i].account = batch[i]
    BY <1>3
  <1>. QED
    BY <1>1, <1>4, <1>5

LEMMA TypeInitially == Init => TypeInv
  <1>. SUFFICES ASSUME Init PROVE TypeInv
    OBVIOUS
  <1>1. TypeOK
    <2>1. /\ first = 0 /\ cursor = 0 /\ pageEnd = 0 /\ next = 0 /\ taken = 0 /\ Position(first) = 1
          /\ batch = <<>> /\ Len(batch) = 0 /\ DOMAIN batch = {}
          /\ \A c \in Caller : toSend[c] = {}
          /\ answers = <<>> /\ DOMAIN answers = {} /\ archive = {} /\ failures = 0
      BY DEF Init, Position, Empty, NothingToSend
    <2>2. first \in 0..Count /\ cursor \in 0..Count /\ pageEnd \in 0..Count /\ next \in 0..Count
          /\ taken \in (Position(first) - 1)..pageEnd /\ Len(batch) <= BatchSize
          /\ failures \in 0..MaxFailures
      BY <2>1, StateReconAssumption
    <2>3. /\ \A c \in Caller : {c} \X toSend[c] \subseteq Request
          /\ DOMAIN answers \subseteq Request /\ archive \subseteq 1..Count
          /\ \A i \in DOMAIN batch : batch[i] \in 1..Count
          /\ \A r \in DOMAIN answers : answers[r] \in {"ok", "error"}
      BY <2>1
    <2>4. /\ chain \in [1..Count -> Kinds] /\ printed \in {NotPrinted} \cup 0..Count
          /\ pc = "fetch" /\ final \in BOOLEAN /\ lost \in BOOLEAN /\ repeated \in BOOLEAN
      BY DEF Init
    <2>. QED
      BY <2>2, <2>3, <2>4 DEF TypeOK
  <1>2. toSend \in [Caller -> SUBSET Nat]
    BY DEF Init, NothingToSend
  <1>. QED
    BY <1>1, <1>2, StateReconAssumption DEF Init, TypeInv, Position, Empty

\* The requests of a batch that is not too long.
LEMMA CompareTyped ==
  ASSUME NEW b \in Seq(1..Count), Len(b) <= BatchSize, Compare(b)
  PROVE  /\ toSend' \in [Caller -> SUBSET Nat]
         /\ \A c \in Caller : {c} \X toSend'[c] \subseteq Request
         /\ answers' = <<>> /\ DOMAIN answers' = {} /\ failures' = failures /\ pc' = "compare"
  <1>1. /\ Len(b) \in Nat /\ DOMAIN b = 1..Len(b) /\ BatchSize \in Nat
        /\ BasicRequests(b) \subseteq 1..2 * BatchSize /\ ProofRequests(b) \subseteq 1..BatchSize
    BY ConstantsTyped DEF BasicRequests, ProofRequests
  <1>2. toSend' = [c \in Caller |-> Requests(c, b)]
    BY DEF Compare
  <1>3. \A c \in Caller : Requests(c, b) \in SUBSET Nat /\ {c} \X Requests(c, b) \subseteq Request
    BY <1>1 DEF Caller, Requests, Request
  <1>. QED
    BY <1>2, <1>3 DEF Compare

LEMMA TypeNext == TypeInv /\ WalkInv /\ [Next]_vars => TypeInv'
  <1>. SUFFICES ASSUME TypeInv, WalkInv, [Next]_vars PROVE TypeInv'
    OBVIOUS
  <1>c. /\ Count \in Nat /\ BatchSize \in Nat \ {0}
        /\ chain \in [1..Count -> Kinds]
        /\ first \in 0..Count /\ cursor \in 0..Count /\ pageEnd \in 0..Count /\ next \in 0..Count
        /\ taken \in Int /\ taken <= pageEnd /\ taken >= Position(first) - 1
        /\ Position(first) \in Nat \ {0} /\ Position(cursor) \in Nat \ {0}
        /\ Position(cursor) >= Position(first)
    <2>1. Count \in Nat /\ BatchSize \in Nat \ {0}
      BY ConstantsTyped
    <2>2. first \in 0..Count /\ cursor \in 0..Count /\ pageEnd \in 0..Count /\ next \in 0..Count
      BY DEF TypeInv, TypeOK
    <2>3. Position(first) \in Nat \ {0} /\ Position(cursor) \in Nat \ {0}
      BY <2>1, <2>2 DEF Position, Empty
    <2>. QED
      BY <2>1, <2>2, <2>3 DEF TypeInv, TypeOK
  <1>1. CASE Untouched /\ pc' \in {pc, "failed", "done"}
    BY <1>1 DEF TypeInv, TypeOK, Untouched, walk, calls, report, Position
  <1>2. CASE FetchPage
    <2>1. PICK last \in Position(cursor)..Count :
            pageEnd' = last /\ next' \in NextCursors(last)
            /\ lost' = (lost \/ (last < Count /\ IsLastPage(next', cursor)))
      BY <1>2 DEF FetchPage
    <2>2. /\ taken' = Position(cursor) - 1 /\ pc = "fetch" /\ pc' = "collect"
          /\ repeated' = (repeated \/ (cursor = Empty /\ next' = Position(cursor)))
          /\ UNCHANGED <<chain, first, cursor, batch, final, calls, report, archive>>
      BY <1>2 DEF FetchPage
    <2>3. next' \in 0..Count
      BY <1>c, <2>1 DEF NextCursors, Empty
    <2>4. pageEnd' \in 0..Count /\ taken' \in (Position(first) - 1)..pageEnd'
      BY <1>c, <2>1, <2>2
    <2>5. lost' \in BOOLEAN /\ repeated' \in BOOLEAN
      BY <2>1, <2>2 DEF TypeInv, TypeOK
    <2>. QED
      BY <2>2, <2>3, <2>4, <2>5 DEF TypeInv, TypeOK, calls, report, Position
  <1>3. CASE TakeAccount
    <2>. DEFINE b == Append(batch, taken + 1)
    <2>1. /\ pc = "collect" /\ taken < pageEnd /\ taken' = taken + 1 /\ batch' = b
          /\ IF Len(b) < BatchSize THEN UNCHANGED <<pc, calls>> ELSE Compare(b)
          /\ UNCHANGED <<chain, first, cursor, pageEnd, next, lost, repeated, final, report, archive>>
      BY <1>3 DEF TakeAccount
    <2>2. /\ taken + 1 \in 1..Count /\ taken' \in (Position(first) - 1)..pageEnd
          /\ batch \in Seq(1..Count) /\ Len(batch) < BatchSize /\ Len(batch) \in Nat
      BY <1>c, <2>1 DEF TypeInv
    <2>3. b \in Seq(1..Count) /\ Len(b) <= BatchSize /\ \A i \in DOMAIN b : b[i] \in 1..Count
      <3>1. b \in Seq(1..Count) /\ Len(b) = Len(batch) + 1
        BY <2>2
      <3>2. Len(b) <= BatchSize
        BY <1>c, <2>2, <3>1
      <3>. HIDE DEF b
      <3>3. \A i \in DOMAIN b : b[i] \in 1..Count
        BY <3>1, ElementsOf
      <3>. QED
        BY <3>1, <3>2, <3>3
    <2>4. /\ toSend' \in [Caller -> SUBSET Nat]
          /\ \A c \in Caller : {c} \X toSend'[c] \subseteq Request
          /\ DOMAIN answers' \subseteq Request
          /\ \A r \in DOMAIN answers' : answers'[r] \in {"ok", "error"}
          /\ failures' \in 0..MaxFailures
          /\ pc' \in {"collect", "compare"} /\ (pc' = "collect" => Len(b) < BatchSize)
      BY <2>1, <2>3, CompareTyped DEF TypeInv, TypeOK, calls
    <2>. HIDE DEF b
    <2>. QED
      BY <2>1, <2>2, <2>3, <2>4 DEF TypeInv, TypeOK, report, Position
  <1>4. CASE EndOfPage
    <2>1. /\ pc = "collect" /\ taken = pageEnd
          /\ UNCHANGED <<chain, first, pageEnd, next, taken, lost, repeated, batch, report, archive>>
      BY <1>4 DEF EndOfPage
    <2>2. batch \in Seq(1..Count) /\ Len(batch) < BatchSize /\ Len(batch) <= BatchSize
      BY <1>c, <2>1 DEF TypeInv
    <2>3. CASE IsLastPage(next, cursor)
      <3>1. /\ IF batch = <<>> THEN pc' = "summary" /\ UNCHANGED calls ELSE Compare(batch)
            /\ final' = TRUE /\ UNCHANGED cursor
        BY <1>4, <2>3 DEF EndOfPage
      <3>2. /\ toSend' \in [Caller -> SUBSET Nat]
            /\ \A c \in Caller : {c} \X toSend'[c] \subseteq Request
            /\ DOMAIN answers' \subseteq Request
            /\ \A r \in DOMAIN answers' : answers'[r] \in {"ok", "error"}
            /\ failures' \in 0..MaxFailures
            /\ pc' \in {"summary", "compare"}
        BY <2>2, <3>1, CompareTyped DEF TypeInv, TypeOK, calls
      <3>. QED
        BY <2>1, <2>2, <3>1, <3>2 DEF TypeInv, TypeOK, report, Position
    <2>4. CASE ~IsLastPage(next, cursor)
      <3>1. pc' = "fetch" /\ cursor' = next /\ UNCHANGED <<final, calls>>
        BY <1>4, <2>4 DEF EndOfPage
      <3>2. Position(next) >= Position(first)
        BY <1>c, <2>1, <2>4 DEF WalkInv, NextCursors, IsLastPage, Position, Empty
      <3>. QED
        BY <2>1, <2>2, <3>1, <3>2 DEF TypeInv, TypeOK, report, calls, Position
    <2>. QED
      BY <2>3, <2>4
  <1>5. ASSUME NEW c \in Caller, DoBatch(c) PROVE TypeInv'
    <2>. DEFINE chunk == Chunk(toSend[c])
    <2>1. /\ pc = "compare" /\ toSend' = [toSend EXCEPT ![c] = @ \ chunk]
          /\ UNCHANGED <<chain, pc, walk, batch, final, report, archive>>
          /\ failures' \in {failures, failures + 1} /\ failures' <= MaxFailures
          /\ DOMAIN answers' = DOMAIN answers \cup {c} \X chunk
      BY <1>5 DEF DoBatch
    <2>2. chunk \subseteq toSend[c] /\ {c} \X toSend[c] \subseteq Request
      BY DEF Chunk, TypeInv, TypeOK
    <2>3. /\ toSend' \in [Caller -> SUBSET Nat]
          /\ \A k \in Caller : {k} \X toSend'[k] \subseteq Request
      BY <2>1 DEF TypeInv, TypeOK
    <2>4. DOMAIN answers' \subseteq Request
      BY <2>1, <2>2 DEF TypeInv, TypeOK
    <2>5. \A r \in DOMAIN answers' : answers'[r] \in {"ok", "error"}
      BY <1>5, <2>1 DEF DoBatch, TypeInv, TypeOK
    <2>6. failures' \in 0..MaxFailures
      BY <2>1, StateReconAssumption DEF TypeInv, TypeOK
    <2>. HIDE DEF chunk
    <2>. QED
      BY <2>1, <2>3, <2>4, <2>5, <2>6 DEF TypeInv, TypeOK, walk, report, Position
  <1>6. CASE WriteRows
    <2>1. /\ full' = full \o Results /\ batch' = <<>> /\ answers' = <<>>
          /\ printed' = (IF final THEN Empty ELSE next) /\ pc' \in {"summary", "collect"}
          /\ UNCHANGED <<chain, walk, final, toSend, failures, archive>>
      BY <1>6 DEF WriteRows
    <2>2. full' \in Seq(Results1)
      BY <2>1, ResultsTyped DEF TypeInv
    <2>3. printed' \in {NotPrinted} \cup 0..Count
      BY <1>c, <2>1 DEF Empty
    <2>4. batch' \in Seq(1..Count) /\ Len(batch') = 0 /\ DOMAIN batch' = {} /\ DOMAIN answers' = {}
      BY <2>1
    <2>5. UNCHANGED <<first, cursor, pageEnd, next, taken, lost, repeated>>
      BY <2>1 DEF walk
    <2>6. /\ chain' \in [1..Count -> Kinds] /\ toSend' \in [Caller -> SUBSET Nat]
          /\ \A c \in Caller : {c} \X toSend'[c] \subseteq Request
          /\ final' \in BOOLEAN /\ archive' \subseteq 1..Count /\ failures' \in 0..MaxFailures
      BY <2>1 DEF TypeInv, TypeOK
    <2>7. /\ first' \in 0..Count /\ cursor' \in 0..Count /\ pageEnd' \in 0..Count
          /\ next' \in 0..Count /\ lost' \in BOOLEAN /\ repeated' \in BOOLEAN
          /\ taken' \in (Position(first') - 1)..pageEnd' /\ Position(cursor') >= Position(first')
      BY <2>5 DEF TypeInv, TypeOK, Position
    <2>8. /\ \A i \in DOMAIN batch' : batch'[i] \in 1..Count
          /\ Len(batch') <= BatchSize /\ Len(batch') < BatchSize
      BY <1>c, <2>4
    <2>9. pc' \in {"fetch", "collect", "compare", "summary", "done", "failed"}
      BY <2>1
    <2>10. TypeOK'
      BY <2>3, <2>4, <2>6, <2>7, <2>8, <2>9 DEF TypeOK
    <2>. QED
      BY <2>2, <2>4, <2>6, <2>7, <2>8, <2>10 DEF TypeInv
  <1>7. CASE Resume
    <2>1. /\ printed \notin {Empty, NotPrinted} /\ pc' = "fetch"
          /\ archive' = archive \cup {full[i].account : i \in DOMAIN full}
          /\ first' = printed /\ cursor' = printed /\ taken' = printed - 1 /\ pageEnd' = printed - 1
          /\ next' = Empty /\ batch' = <<>> /\ final' = FALSE /\ toSend' = NothingToSend
          /\ answers' = <<>> /\ full' = <<>> /\ printed' = NotPrinted
          /\ UNCHANGED <<chain, lost, repeated, failures>>
      BY <1>7 DEF Resume
    <2>2. printed \in 1..Count
      BY <2>1, <1>c DEF TypeInv, TypeOK, Empty, NotPrinted
    <2>3. /\ first' \in 0..Count /\ cursor' \in 0..Count /\ pageEnd' \in 0..Count /\ next' \in 0..Count
          /\ Position(first') = printed /\ Position(cursor') = printed
          /\ taken' \in (Position(first') - 1)..pageEnd'
      BY <1>c, <2>1, <2>2 DEF Position, Empty
    <2>4. archive' \subseteq 1..Count
      <3>1. \A i \in DOMAIN full : full[i] \in Results1
        BY DEF TypeInv
      <3>2. \A i \in DOMAIN full : full[i].account \in 1..Count
        BY <3>1 DEF Results1
      <3>. QED
        BY <2>1, <3>2 DEF TypeInv, TypeOK
    <2>5. toSend' \in [Caller -> SUBSET Nat] /\ \A k \in Caller : toSend'[k] = {}
      BY <2>1 DEF NothingToSend
    <2>6. /\ batch' \in Seq(1..Count) /\ Len(batch') = 0 /\ DOMAIN batch' = {}
          /\ full' \in Seq(Results1) /\ DOMAIN answers' = {}
      BY <2>1
    <2>7. TypeOK'
      <3>1. /\ chain' \in [1..Count -> Kinds] /\ lost' \in BOOLEAN /\ repeated' \in BOOLEAN
            /\ failures' \in 0..MaxFailures
        BY <2>1 DEF TypeInv, TypeOK
      <3>2. /\ pc' = "fetch" /\ final' \in BOOLEAN /\ printed' \in {NotPrinted} \cup 0..Count
        BY <2>1
      <3>4. Len(batch') <= BatchSize
        BY <1>c, <2>6
      <3>3. /\ \A k \in Caller : {k} \X toSend'[k] \subseteq Request
            /\ \A i \in DOMAIN batch' : batch'[i] \in 1..Count
            /\ DOMAIN answers' \subseteq Request
            /\ \A r \in DOMAIN answers' : answers'[r] \in {"ok", "error"}
        BY <2>5, <2>6
      <3>. QED
        BY <2>3, <2>4, <3>1, <3>2, <3>3, <3>4 DEF TypeOK, Position
    <2>8. Position(cursor') >= Position(first') /\ Len(batch') < BatchSize
      BY <1>c, <2>2, <2>3, <2>6
    <2>. QED
      BY <2>1, <2>5, <2>6, <2>7, <2>8 DEF TypeInv, Position
  <1>8. CASE PageFails \/ WriteFails \/ WriteSummary \/ Interrupt
    BY <1>1, <1>8, FailIsQuiet
  <1>9. CASE UNCHANGED vars
    BY <1>1, <1>9 DEF vars, Untouched
  <1>. QED
    BY <1>2, <1>3, <1>4, <1>5, <1>6, <1>7, <1>8, <1>9 DEF Next, RunStep
-----------------------------------------------------------------------------
(* The walk *)

\* What a number in a step is: the positions of the walk.
LEMMA Positions ==
  ASSUME TypeInv
  PROVE  /\ Count \in Nat /\ first \in 0..Count /\ cursor \in 0..Count /\ next \in 0..Count
         /\ pageEnd \in 0..Count /\ taken \in Int /\ taken <= pageEnd
         /\ Position(first) - 1 <= taken
         /\ Position(first) \in Nat \ {0} /\ Position(cursor) \in Nat \ {0}
         /\ Position(cursor) >= Position(first)
  <1>1. Count \in Nat
    BY ConstantsTyped
  <1>2. first \in 0..Count /\ cursor \in 0..Count /\ next \in 0..Count /\ pageEnd \in 0..Count
    BY DEF TypeInv, TypeOK
  <1>3. Position(first) \in Nat \ {0} /\ Position(cursor) \in Nat \ {0}
    BY <1>1, <1>2 DEF Position, Empty
  <1>. QED
    BY <1>1, <1>2, <1>3 DEF TypeInv, TypeOK

LEMMA WalkNext == TypeInv /\ WalkInv /\ [Next]_vars => WalkInv'
  <1>. SUFFICES ASSUME TypeInv, WalkInv, [Next]_vars PROVE WalkInv'
    OBVIOUS
  <1>1. CASE Untouched /\ (pc' \in {pc, "failed"} \/ (pc = "summary" /\ pc' = "done"))
    BY <1>1 DEF WalkInv, Untouched, walk, Readable, NextCursors, IsLastPage, Position
  <1>2. CASE FetchPage
    <2>1. PICK last \in Position(cursor)..Count :
            /\ Readable(last) /\ pageEnd' = last /\ next' \in NextCursors(last)
            /\ lost' = (lost \/ (last < Count /\ IsLastPage(next', cursor)))
      BY <1>2 DEF FetchPage
    <2>2. /\ taken' = Position(cursor) - 1 /\ pc = "fetch" /\ pc' = "collect"
          /\ repeated' = (repeated \/ (cursor = Empty /\ next' = Position(cursor)))
          /\ UNCHANGED <<chain, cursor, final>>
      BY <1>2 DEF FetchPage
    <2>3. last < Count \/ last = Count
      BY <2>1, Positions
    <2>4. Readable(pageEnd)' /\ (next \in NextCursors(pageEnd))'
      BY <2>1, <2>2 DEF Readable, NextCursors, Position
    <2>5. IsLastPage(next, cursor)' => pageEnd' = Count \/ lost'
      BY <2>1, <2>2, <2>3 DEF IsLastPage
    <2>6. Position(cursor)' = Position(cursor) /\ taken' >= Position(cursor) - 1
      BY <2>2, Positions DEF Position
    <2>7. ~final'
      BY <2>2 DEF WalkInv
    <2>. QED
      BY <2>2, <2>4, <2>5, <2>6, <2>7 DEF WalkInv
  <1>3. CASE TakeAccount
    <2>1. /\ pc = "collect" /\ taken' = taken + 1 /\ pc' \in {"collect", "compare"}
          /\ UNCHANGED <<chain, cursor, pageEnd, next, lost, repeated, final>>
      BY <1>3 DEF TakeAccount, Compare
    <2>2. taken' >= Position(cursor) - 1
      BY <2>1, Positions DEF WalkInv
    <2>. QED
      BY <2>1, <2>2 DEF WalkInv, Readable, NextCursors, IsLastPage, Position
  <1>4. CASE EndOfPage
    <2>1. /\ pc = "collect" /\ taken = pageEnd
          /\ UNCHANGED <<chain, first, pageEnd, next, taken, lost, repeated, batch>>
      BY <1>4 DEF EndOfPage
    <2>2. CASE IsLastPage(next, cursor)
      <3>1. /\ (batch = <<>> /\ pc' = "summary") \/ pc' = "compare"
            /\ final' = TRUE /\ UNCHANGED cursor
        BY <1>4, <2>2 DEF EndOfPage, Compare
      <3>. QED
        BY <2>1, <2>2, <3>1 DEF WalkInv, Readable, NextCursors, IsLastPage, Position
    <2>3. CASE ~IsLastPage(next, cursor)
      <3>1. pc' = "fetch" /\ cursor' = next /\ UNCHANGED final
        BY <1>4, <2>3 DEF EndOfPage
      <3>2. ~repeated => next = pageEnd + 1 /\ next # Empty
        BY <2>1, <2>3 DEF WalkInv, NextCursors, IsLastPage, Position
      <3>3. ~repeated => taken = Position(next) - 1
        BY <2>1, <3>2, Positions DEF Position
      <3>. QED
        BY <2>1, <3>1, <3>3 DEF WalkInv, Position
    <2>. QED
      BY <2>2, <2>3
  <1>5. ASSUME NEW c \in Caller, DoBatch(c) PROVE WalkInv'
    BY <1>1, <1>5 DEF DoBatch, walk, WalkInv, Readable, NextCursors, IsLastPage, Position
  <1>6. CASE WriteRows
    <2>1. /\ pc = "compare" /\ batch' = <<>> /\ pc' = (IF final THEN "summary" ELSE "collect")
          /\ UNCHANGED <<chain, walk, final>>
      BY <1>6 DEF WriteRows
    <2>. QED
      BY <2>1 DEF WalkInv, walk, Readable, NextCursors, IsLastPage, Position
  <1>7. CASE Resume
    <2>1. /\ pc' = "fetch" /\ printed \notin {Empty, NotPrinted}
          /\ cursor' = printed /\ taken' = printed - 1 /\ final' = FALSE
      BY <1>7 DEF Resume
    <2>. QED
      BY <2>1 DEF WalkInv, Position
  <1>8. CASE PageFails \/ WriteFails \/ WriteSummary \/ Interrupt
    BY <1>1, <1>8, FailIsQuiet
  <1>9. CASE UNCHANGED vars
    BY <1>1, <1>9 DEF vars, Untouched
  <1>. QED
    BY <1>2, <1>3, <1>4, <1>5, <1>6, <1>7, <1>8, <1>9 DEF Next, RunStep

LEMMA ListNext == TypeInv /\ WalkInv /\ ListInv /\ [Next]_vars => ListInv'
  <1>. SUFFICES ASSUME TypeInv, WalkInv, ListInv, [Next]_vars PROVE ListInv'
    OBVIOUS
  <1>1. CASE UNCHANGED <<first, taken, repeated, batch, full>>
    BY <1>1 DEF ListInv, Position
  <1>2. CASE FetchPage
    <2>1. /\ pc = "fetch" /\ taken' = Position(cursor) - 1
          /\ repeated' = (repeated \/ (cursor = Empty /\ next' = Position(cursor)))
          /\ UNCHANGED <<first, batch, full>>
      BY <1>2 DEF FetchPage, report
    <2>2. ~repeated' => ~repeated /\ taken' = taken
      BY <2>1 DEF WalkInv
    <2>. QED
      BY <2>1, <2>2 DEF ListInv, Position
  <1>3. CASE TakeAccount
    <2>1. /\ taken' = taken + 1 /\ batch' = Append(batch, taken + 1)
          /\ UNCHANGED <<first, repeated, full>>
      BY <1>3 DEF TakeAccount, report
    <2>2. /\ batch \in Seq(1..Count) /\ full \in Seq(Results1)
          /\ Len(batch) \in Nat /\ Len(full) \in Nat /\ DOMAIN batch = 1..Len(batch)
      BY ElementsOf DEF TypeInv
    <2>3. /\ Len(batch') = Len(batch) + 1 /\ DOMAIN batch' = 1..Len(batch) + 1
          /\ batch'[Len(batch) + 1] = taken + 1
          /\ \A i \in 1..Len(batch) : batch'[i] = batch[i]
      BY <2>1, <2>2, Positions
    <2>. SUFFICES ASSUME ~repeated' PROVE /\ Len(full') + Len(batch') = taken' - Position(first') + 1
                                          /\ \A i \in DOMAIN full' : full'[i].account = Position(first') + i - 1
                                          /\ \A i \in DOMAIN batch' : batch'[i] = Position(first') + Len(full') + i - 1
      BY DEF ListInv, Position
    <2>4. /\ Len(full) + Len(batch) = taken - Position(first) + 1
          /\ \A i \in DOMAIN full : full[i].account = Position(first) + i - 1
          /\ \A i \in DOMAIN batch : batch[i] = Position(first) + Len(full) + i - 1
          /\ Position(first') = Position(first)
      BY <2>1 DEF ListInv, Position
    <2>6. /\ Len(full) + (Len(batch) + 1) = (taken + 1) - Position(first) + 1
          /\ taken + 1 = Position(first) + Len(full) + (Len(batch) + 1) - 1
      <3>. DEFINE n == Len(full)
                  m == Len(batch)
                  f == Position(first)
      <3>1. n \in Nat /\ m \in Nat /\ f \in Nat /\ taken \in Int /\ n + m = taken - f + 1
        BY <2>2, <2>4, Positions
      <3>. HIDE DEF n, m, f
      <3>2. n + (m + 1) = (taken + 1) - f + 1 /\ taken + 1 = f + n + (m + 1) - 1
        BY <3>1
      <3>. QED
        BY <3>2, Zenon DEF n, m, f
    <2>5. Len(full') + Len(batch') = taken' - Position(first') + 1
      BY <2>1, <2>3, <2>4, <2>6, Zenon
    <2>7. ASSUME NEW i \in DOMAIN batch' PROVE batch'[i] = Position(first) + Len(full) + i - 1
      <3>1. i \in 1..Len(batch) \/ i = Len(batch) + 1
        BY <2>2, <2>3
      <3>. QED
        BY <2>2, <2>3, <2>4, <2>6, <3>1
    <2>. QED
      BY <2>1, <2>4, <2>5, <2>7
  <1>4. CASE EndOfPage
    BY <1>1, <1>4 DEF EndOfPage, report
  <1>5. ASSUME NEW c \in Caller, DoBatch(c) PROVE ListInv'
    BY <1>1, <1>5 DEF DoBatch, walk, report
  <1>6. CASE WriteRows
    <2>1. /\ full' = full \o Results /\ batch' = <<>>
          /\ UNCHANGED <<first, taken, repeated>>
      BY <1>6 DEF WriteRows, walk
    <2>2. /\ full \in Seq(Results1) /\ Results \in Seq(Results1) /\ Len(Results) = Len(batch)
          /\ Len(full) \in Nat /\ Len(batch) \in Nat /\ DOMAIN batch = 1..Len(batch)
          /\ DOMAIN full = 1..Len(full)
          /\ \A i \in 1..Len(batch) : Results[i].account = batch[i]
      <3>1. full \in Seq(Results1) /\ batch \in Seq(1..Count)
        BY DEF TypeInv
      <3>2. Len(full) \in Nat /\ DOMAIN full = 1..Len(full)
        BY <3>1, ElementsOf
      <3>. QED
        BY <3>1, <3>2, ResultsTyped
    <2>3. /\ Len(full') = Len(full) + Len(batch) /\ DOMAIN full' = 1..Len(full) + Len(batch)
          /\ \A i \in 1..Len(full) : full'[i] = full[i]
          /\ \A i \in Len(full) + 1..Len(full) + Len(batch) : full'[i] = Results[i - Len(full)]
      BY <2>1, <2>2
    <2>4. Len(batch') = 0 /\ DOMAIN batch' = {}
      BY <2>1
    <2>. SUFFICES ASSUME ~repeated' PROVE /\ Len(full') + Len(batch') = taken' - Position(first') + 1
                                          /\ \A i \in DOMAIN full' : full'[i].account = Position(first') + i - 1
      BY <2>4 DEF ListInv, Position
    <2>5. /\ Len(full) + Len(batch) = taken - Position(first) + 1
          /\ \A i \in DOMAIN full : full[i].account = Position(first) + i - 1
          /\ \A i \in DOMAIN batch : batch[i] = Position(first) + Len(full) + i - 1
          /\ Position(first') = Position(first)
      BY <2>1 DEF ListInv, Position
    <2>6. ASSUME NEW i \in DOMAIN full' PROVE full'[i].account = Position(first) + i - 1
      <3>1. CASE i \in 1..Len(full)
        BY <2>2, <2>3, <2>5, <3>1
      <3>2. CASE i \in Len(full) + 1..Len(full) + Len(batch)
        <4>1. i - Len(full) \in 1..Len(batch)
          BY <2>2, <3>2
        <4>2. full'[i].account = Position(first) + Len(full) + (i - Len(full)) - 1
          BY <2>2, <2>3, <2>5, <3>2, <4>1
        <4>3. Position(first) \in Nat /\ i \in Nat /\ Len(full) \in Nat
          BY <2>2, <3>2, Positions
        <4>4. Position(first) + Len(full) + (i - Len(full)) - 1 = Position(first) + i - 1
          BY <4>3
        <4>. QED
          BY <4>2, <4>4
      <3>. QED
        BY <2>2, <2>3, <3>1, <3>2
    <2>7. Len(full') + Len(batch') = taken' - Position(first') + 1
      BY <2>1, <2>2, <2>3, <2>4, <2>5, Positions
    <2>. QED
      BY <2>5, <2>6, <2>7
  <1>7. CASE Resume
    <2>1. /\ printed \notin {Empty, NotPrinted} /\ batch' = <<>> /\ full' = <<>>
          /\ first' = printed /\ taken' = printed - 1
      BY <1>7 DEF Resume
    <2>2. printed \in Nat /\ Position(first') = printed
      BY <2>1, Positions DEF TypeInv, TypeOK, Position, Empty, NotPrinted
    <2>3. /\ Len(full') = 0 /\ Len(batch') = 0 /\ DOMAIN full' = {} /\ DOMAIN batch' = {}
          /\ taken' - Position(first') + 1 = 0
      BY <2>1, <2>2
    <2>. QED
      BY <2>3 DEF ListInv, Position
  <1>8. CASE PageFails \/ WriteFails \/ WriteSummary \/ Interrupt
    BY <1>1, <1>8, FailIsQuiet DEF Untouched, walk, report
  <1>9. CASE UNCHANGED vars
    BY <1>1, <1>9 DEF vars, walk, report
  <1>. QED
    BY <1>2, <1>3, <1>4, <1>5, <1>6, <1>7, <1>8, <1>9 DEF Next, RunStep
-----------------------------------------------------------------------------
(* The totals *)

\* The positions of the batch whose account has a given status.
WithStatus(status) == {i \in DOMAIN batch : AggregateStatus(Rows(i)) = status}

LEMMA SizeOfFirst ==
  ASSUME NEW n \in Nat
  PROVE  IsFiniteSet(1..n) /\ Cardinality(1..n) = n
  <1>1. 1 \in Int /\ n \in Int
    OBVIOUS
  <1>2. /\ IsFiniteSet(1..n)
        /\ Cardinality(1..n) = IF 1 > n THEN 0 ELSE n - 1 + 1
    BY <1>1, FS_Interval
  <1>. QED
    BY <1>2

LEMMA TotalsAdd ==
  ASSUME NEW a \in Nat, NEW b \in Nat, NEW c \in Nat, NEW d \in Nat, NEW e \in Nat, NEW f \in Nat
  PROVE  /\ a + d \in Nat /\ b + e \in Nat /\ c + f \in Nat
         /\ (a + b + c) + (d + e + f) = (a + d) + (b + e) + (c + f)
  OBVIOUS

\* The size of a union of sets that share nothing.
LEMMA SizeOfUnion ==
  ASSUME NEW S, IsFiniteSet(S), NEW T, IsFiniteSet(T), S \cap T = {}
  PROVE  /\ IsFiniteSet(S \cup T)
         /\ Cardinality(S) \in Nat /\ Cardinality(T) \in Nat
         /\ Cardinality(S \cup T) = Cardinality(S) + Cardinality(T)
  <1>1. Cardinality(S) \in Nat /\ Cardinality(T) \in Nat
    BY FS_CardinalityType
  <1>2. Cardinality(S \cap T) = 0
    BY FS_EmptySet
  <1>3. /\ IsFiniteSet(S \cup T)
        /\ Cardinality(S \cup T) = Cardinality(S) + Cardinality(T) - Cardinality(S \cap T)
    BY FS_Union
  <1>. QED
    BY <1>1, <1>2, <1>3

\* A set of positions keeps its size when it is moved.
LEMMA ShiftKeepsSize ==
  ASSUME NEW k \in Nat, NEW S \in SUBSET Nat, IsFiniteSet(S)
  PROVE  /\ IsFiniteSet({k + i : i \in S})
         /\ Cardinality({k + i : i \in S}) = Cardinality(S)
  <1>. DEFINE T == {k + i : i \in S}
              shift == [i \in S |-> k + i]
  <1>1. shift \in [S -> T]
    OBVIOUS
  <1>2. \A i, j \in S : shift[i] = shift[j] => i = j
    <2>1. \A i, j \in Nat : k + i = k + j => i = j
      OBVIOUS
    <2>. QED
      BY <2>1
  <1>3. \A t \in T : \E i \in S : shift[i] = t
    OBVIOUS
  <1>4. shift \in Bijection(S, T)
    BY <1>1, <1>2, <1>3 DEF Bijection, Injection, IsInjective, Surjection
  <1>5. ExistsBijection(S, T)
    BY <1>4 DEF ExistsBijection
  <1>. QED
    BY <1>5, FS_Bijection

\* An account that does not match is a mismatch or an error.
LEMMA StatusOfRows ==
  ASSUME TypeInv, NEW i \in DOMAIN batch
  PROVE  /\ AggregateStatus(Rows(i)) \in Statuses
         /\ AggregateStatus(Rows(i)) = "match" <=> \A f \in DOMAIN Rows(i) : Rows(i)[f] = "match"
  <1>. DEFINE rows == Rows(i)
  <1>1. \A f \in DOMAIN rows : rows[f] \in Statuses
    BY RowsTyped
  <1>. HIDE DEF rows
  <1>2. /\ AggregateStatus(rows) \in Statuses
        /\ AggregateStatus(rows) = "match" <=> \A f \in DOMAIN rows : rows[f] = "match"
    BY <1>1 DEF AggregateStatus, Statuses
  <1>. QED
    BY <1>2 DEF rows

\* Each account of the batch is counted once, under one status, and flagged
\* unless it matches.
LEMMA BatchCounted ==
  ASSUME TypeInv
  PROVE  /\ \A status \in Statuses : CountOf(status) \in Nat /\ IsFiniteSet(WithStatus(status))
         /\ CountOf("match") + CountOf("mismatch") + CountOf("error") = Len(batch)
         /\ IsFiniteSet(Flagged)
         /\ Cardinality(Flagged) = CountOf("mismatch") + CountOf("error")
         /\ Flagged \subseteq Len(full) + 1..Len(full) + Len(batch)
  <1>. DEFINE M == WithStatus("match")
              N == WithStatus("mismatch")
              E == WithStatus("error")
  <1>1. /\ DOMAIN batch = 1..Len(batch) /\ Len(batch) \in Nat /\ Len(full) \in Nat
        /\ IsFiniteSet(1..Len(batch)) /\ Cardinality(1..Len(batch)) = Len(batch)
    <2>1. batch \in Seq(1..Count) /\ full \in Seq(Results1)
      BY DEF TypeInv
    <2>2. DOMAIN batch = 1..Len(batch) /\ Len(batch) \in Nat /\ Len(full) \in Nat
      BY <2>1, ElementsOf
    <2>3. /\ IsFiniteSet(1..Len(batch))
          /\ Cardinality(1..Len(batch)) = Len(batch)
      BY <2>2, SizeOfFirst
    <2>. QED
      BY <2>2, <2>3
  <1>2. ASSUME NEW status PROVE /\ IsFiniteSet(WithStatus(status))
                                /\ CountOf(status) \in Nat
                                /\ CountOf(status) = Cardinality(WithStatus(status))
    <2>1. WithStatus(status) \in SUBSET (1..Len(batch))
      BY <1>1 DEF WithStatus
    <2>. QED
      BY <1>1, <2>1, FS_Subset, FS_CardinalityType DEF CountOf, WithStatus
  <1>3. M \cup (N \cup E) = 1..Len(batch) /\ M \cap (N \cup E) = {} /\ N \cap E = {}
    BY <1>1, StatusOfRows DEF WithStatus, Statuses
  <1>. HIDE DEF M, N, E
  <1>4. /\ IsFiniteSet(M) /\ IsFiniteSet(N) /\ IsFiniteSet(E)
        /\ Cardinality(M) = CountOf("match") /\ Cardinality(N) = CountOf("mismatch")
        /\ Cardinality(E) = CountOf("error")
    BY <1>2 DEF M, N, E
  <1>5. /\ IsFiniteSet(N \cup E)
        /\ Cardinality(N \cup E) = CountOf("mismatch") + CountOf("error")
    BY <1>3, <1>4, SizeOfUnion
  <1>6. CountOf("match") + CountOf("mismatch") + CountOf("error") = Len(batch)
    <2>1. Cardinality(M \cup (N \cup E)) = Cardinality(M) + Cardinality(N \cup E)
      BY <1>3, <1>4, <1>5, SizeOfUnion
    <2>2. Len(batch) = CountOf("match") + (CountOf("mismatch") + CountOf("error"))
      BY <1>1, <1>3, <1>4, <1>5, <2>1
    <2>3. CountOf("match") \in Nat /\ CountOf("mismatch") \in Nat /\ CountOf("error") \in Nat
      BY <1>2
    <2>. QED
      BY <1>1, <2>2, <2>3
  <1>7. Flagged = {Len(full) + i : i \in N \cup E}
    <2>1. N \cup E = {j \in DOMAIN batch : \E f \in DOMAIN Rows(j) : Rows(j)[f] # "match"}
      BY StatusOfRows DEF N, E, WithStatus, Statuses
    <2>. QED
      BY <2>1 DEF Flagged
  <1>8. N \cup E \in SUBSET (1..Len(batch))
    BY <1>3
  <1>9. Flagged \subseteq Len(full) + 1..Len(full) + Len(batch)
    BY <1>1, <1>7, <1>8
  <1>10. IsFiniteSet(Flagged) /\ Cardinality(Flagged) = Cardinality(N \cup E)
    <2>1. N \cup E \in SUBSET Nat
      BY <1>1, <1>8
    <2>. QED
      BY <1>1, <1>5, <1>7, <2>1, ShiftKeepsSize
  <1>. QED
    BY <1>2, <1>5, <1>6, <1>9, <1>10

LEMMA CountNext == TypeInv /\ CountInv /\ [Next]_vars => CountInv'
  <1>. SUFFICES ASSUME TypeInv, CountInv, [Next]_vars PROVE CountInv'
    OBVIOUS
  <1>1. CASE UNCHANGED report
    BY <1>1 DEF CountInv, report
  <1>2. CASE WriteRows
    <2>1. /\ full' = full \o Results /\ mismatch' = mismatch \cup Flagged
          /\ accounts' = accounts + Len(batch) /\ matched' = matched + CountOf("match")
          /\ mismatched' = mismatched + CountOf("mismatch") /\ errors' = errors + CountOf("error")
      BY <1>2 DEF WriteRows
    <2>2. /\ full \in Seq(Results1) /\ Results \in Seq(Results1) /\ Len(Results) = Len(batch)
          /\ Len(full) \in Nat /\ Len(batch) \in Nat
      <3>1. full \in Seq(Results1)
        BY DEF TypeInv
      <3>. QED
        BY <3>1, ElementsOf, ResultsTyped
    <2>3. Len(full') = Len(full) + Len(batch)
      <3>1. Len(full \o Results) = Len(full) + Len(Results)
        BY <2>2
      <3>. QED
        BY <2>1, <2>2, <3>1
    <2>4. /\ CountOf("match") \in Nat /\ CountOf("mismatch") \in Nat /\ CountOf("error") \in Nat
          /\ CountOf("match") + CountOf("mismatch") + CountOf("error") = Len(batch)
      BY BatchCounted DEF Statuses
    <2>5. IsFiniteSet(mismatch) /\ mismatch \subseteq 1..Len(full)
      BY <2>2, SizeOfFirst, FS_Subset DEF CountInv
    <2>6. mismatch \cap Flagged = {}
      <3>1. \A n \in 1..Len(full) : n \notin Len(full) + 1..Len(full) + Len(batch)
        BY <2>2
      <3>. QED
        BY <2>5, <3>1, BatchCounted
    <2>7. Cardinality(mismatch') = mismatched' + errors'
      <3>1. Cardinality(mismatch \cup Flagged) = Cardinality(mismatch) + Cardinality(Flagged)
        BY <2>5, <2>6, BatchCounted, SizeOfUnion
      <3>2. Cardinality(Flagged) = CountOf("mismatch") + CountOf("error")
        BY BatchCounted
      <3>3. /\ mismatched \in Nat /\ errors \in Nat
            /\ Cardinality(mismatch') = (mismatched + errors) + (CountOf("mismatch") + CountOf("error"))
        <4>1. /\ mismatched \in Nat /\ errors \in Nat
              /\ Cardinality(mismatch) = mismatched + errors
          BY DEF CountInv
        <4>2. mismatch' = mismatch \cup Flagged
          BY <2>1
        <4>. QED
          BY <3>1, <3>2, <4>1, <4>2, Zenon
      <3>4. /\ mismatched' = mismatched + CountOf("mismatch")
            /\ errors' = errors + CountOf("error")
            /\ CountOf("mismatch") \in Nat /\ CountOf("error") \in Nat
        BY <2>1, <2>4
      <3>. QED
        BY <3>3, <3>4
    <2>8. mismatch' \subseteq 1..Len(full')
      <3>1. /\ 1..Len(full) \subseteq 1..Len(full')
            /\ Len(full) + 1..Len(full) + Len(batch) \subseteq 1..Len(full')
        BY <2>2, <2>3
      <3>. QED
        BY <2>1, <2>5, <3>1, BatchCounted
    <2>9. /\ matched \in Nat /\ mismatched \in Nat /\ errors \in Nat
          /\ accounts = Len(full) /\ accounts = matched + mismatched + errors
      BY DEF CountInv
    <2>10. /\ matched' \in Nat /\ mismatched' \in Nat /\ errors' \in Nat
           /\ accounts' = Len(full')
      <3>1. accounts' = Len(full')
        BY <2>1, <2>3, <2>9
      <3>2. /\ matched + CountOf("match") \in Nat /\ mismatched + CountOf("mismatch") \in Nat
            /\ errors + CountOf("error") \in Nat
        BY <2>4, <2>9
      <3>. QED
        BY <2>1, <3>1, <3>2
    <2>11. accounts' = matched' + mismatched' + errors'
      <3>1. accounts' = (matched + mismatched + errors)
                          + (CountOf("match") + CountOf("mismatch") + CountOf("error"))
        BY <2>1, <2>4, <2>9
      <3>2. (matched + mismatched + errors) + (CountOf("match") + CountOf("mismatch") + CountOf("error"))
              = (matched + CountOf("match")) + (mismatched + CountOf("mismatch"))
                  + (errors + CountOf("error"))
        BY <2>4, <2>9, TotalsAdd
      <3>. QED
        BY <2>1, <3>1, <3>2
    <2>. QED
      BY <2>7, <2>8, <2>10, <2>11 DEF CountInv
  <1>3. CASE Resume
    <2>1. /\ full' = <<>> /\ mismatch' = {} /\ matched' = 0 /\ mismatched' = 0 /\ errors' = 0
          /\ accounts' = 0
      BY <1>3 DEF Resume
    <2>2. Len(full') = 0 /\ Cardinality(mismatch') = 0
      BY <2>1, FS_EmptySet
    <2>. QED
      BY <2>1, <2>2 DEF CountInv
  <1>4. CASE PageFails \/ WriteFails \/ WriteSummary \/ Interrupt
    BY <1>1, <1>4, FailIsQuiet DEF Untouched
  <1>5. CASE FetchPage \/ TakeAccount \/ EndOfPage
    BY <1>1, <1>5 DEF FetchPage, TakeAccount, EndOfPage
  <1>6. ASSUME NEW c \in Caller, DoBatch(c) PROVE CountInv'
    BY <1>1, <1>6 DEF DoBatch
  <1>7. CASE UNCHANGED vars
    BY <1>1, <1>7 DEF vars
  <1>. QED
    BY <1>2, <1>3, <1>4, <1>5, <1>6, <1>7 DEF Next, RunStep
-----------------------------------------------------------------------------
(* A clean report *)

LEMMA CleanNext == TypeInv /\ WalkInv /\ CountInv /\ CleanInv /\ [Next]_vars => CleanInv'
  <1>. SUFFICES ASSUME TypeInv, WalkInv, CountInv, CleanInv, [Next]_vars PROVE CleanInv'
    OBVIOUS
  <1>1. CASE UNCHANGED <<chain, batch, full, mismatched, errors>>
    BY <1>1 DEF CleanInv, Same, Compared
  <1>2. CASE TakeAccount
    <2>1. /\ pc = "collect" /\ taken < pageEnd /\ batch' = Append(batch, taken + 1)
          /\ UNCHANGED <<chain, full, mismatched, errors>>
      BY <1>2 DEF TakeAccount, report
    <2>2. batch \in Seq(1..Count)
      BY DEF TypeInv
    <2>3. taken + 1 \in Position(cursor)..pageEnd /\ taken + 1 \in 1..Count
      BY <2>1, Positions DEF WalkInv
    <2>4. chain[taken + 1].preimage
      BY <2>1, <2>3 DEF WalkInv, Readable
    <2>5. /\ DOMAIN batch = 1..Len(batch) /\ DOMAIN batch' = 1..Len(batch) + 1 /\ Len(batch) \in Nat
          /\ batch'[Len(batch) + 1] = taken + 1 /\ \A i \in 1..Len(batch) : batch'[i] = batch[i]
      BY <2>1, <2>2, <2>3
    <2>6. ASSUME NEW i \in DOMAIN batch' PROVE chain[batch'[i]].preimage
      <3>1. i \in 1..Len(batch) \/ i = Len(batch) + 1
        BY <2>5
      <3>. QED
        BY <2>4, <2>5, <3>1 DEF CleanInv
    <2>. QED
      BY <2>1, <2>6 DEF CleanInv, Same, Compared
  <1>3. CASE WriteRows
    <2>1. /\ full' = full \o Results /\ batch' = <<>>
          /\ mismatched' = mismatched + CountOf("mismatch") /\ errors' = errors + CountOf("error")
          /\ UNCHANGED chain
      BY <1>3 DEF WriteRows
    <2>2. /\ full \in Seq(Results1) /\ Results \in Seq(Results1) /\ Len(Results) = Len(batch)
          /\ Len(full) \in Nat /\ Len(batch) \in Nat /\ DOMAIN full = 1..Len(full)
          /\ DOMAIN batch = 1..Len(batch)
          /\ \A i \in 1..Len(batch) : Results[i].account = batch[i]
      <3>1. full \in Seq(Results1)
        BY DEF TypeInv
      <3>. QED
        BY <3>1, ElementsOf, ResultsTyped
    <2>3. /\ DOMAIN full' = 1..Len(full) + Len(batch)
          /\ \A i \in 1..Len(full) : full'[i] = full[i]
          /\ \A i \in Len(full) + 1..Len(full) + Len(batch) : full'[i] = Results[i - Len(full)]
      <3>. DEFINE both == full \o Results
      <3>0. full \in Seq(Results1) /\ Results \in Seq(Results1)
        BY <2>2
      <3>1. /\ DOMAIN both = 1..Len(full) + Len(Results)
            /\ \A i \in 1..Len(full) : both[i] = full[i]
            /\ \A i \in Len(full) + 1..Len(full) + Len(Results) : both[i] = Results[i - Len(full)]
        BY <3>0, ElementsOfBoth, Zenon
      <3>2. full' = both /\ Len(Results) = Len(batch)
        BY <2>1, <2>2
      <3>. HIDE DEF both
      <3>. QED
        BY <3>1, <3>2
    <2>4. ASSUME NEW i \in DOMAIN full'
          PROVE  \/ i \in DOMAIN full /\ full'[i] = full[i]
                 \/ \E j \in DOMAIN batch : full'[i].account = batch[j]
      <3>1. CASE i \in 1..Len(full)
        BY <2>2, <2>3, <3>1
      <3>2. CASE i \in Len(full) + 1..Len(full) + Len(batch)
        <4>1. i - Len(full) \in 1..Len(batch)
          BY <2>2, <3>2
        <4>. QED
          BY <2>2, <2>3, <3>2, <4>1
      <3>. QED
        BY <2>2, <2>3, <3>1, <3>2
    <2>5. \A i \in DOMAIN full' : chain'[full'[i].account].preimage
      BY <2>1, <2>4 DEF CleanInv
    <2>6. mismatched' = 0 /\ errors' = 0 => \A i \in DOMAIN full' : Same(full'[i].account)
      <3>. SUFFICES ASSUME mismatched' = 0, errors' = 0, NEW i \in DOMAIN full'
                    PROVE  Same(full'[i].account)
        OBVIOUS
      <3>1. /\ mismatched = 0 /\ errors = 0 /\ CountOf("mismatch") = 0 /\ CountOf("error") = 0
        <4>1. /\ mismatched \in Nat /\ errors \in Nat
              /\ CountOf("mismatch") \in Nat /\ CountOf("error") \in Nat
          BY BatchCounted DEF CountInv, Statuses
        <4>. QED
          BY <2>1, <4>1
      <3>2. WithStatus("mismatch") = {} /\ WithStatus("error") = {}
        BY <3>1, BatchCounted, FS_EmptySet DEF CountOf, WithStatus, Statuses
      <3>3. ASSUME NEW j \in DOMAIN batch PROVE Same(batch[j])
        <4>1. AggregateStatus(Rows(j)) = "match"
          BY <3>2, StatusOfRows DEF WithStatus, Statuses
        <4>2. \A f \in Compared(batch[j]) : Rows(j)[f] = "match"
          BY <4>1, StatusOfRows, RowsTyped
        <4>3. \A f \in Compared(batch[j]) : f \notin chain[batch[j]].differs
          BY <4>2 DEF Rows, BasicStatus, ProofStatus, Status
        <4>. QED
          BY <4>3 DEF Same
      <3>4. \A j \in DOMAIN full : Same(full[j].account)
        BY <3>1 DEF CleanInv
      <3>. QED
        BY <2>4, <3>3, <3>4
    <2>7. \A a : Same(a)' <=> Same(a)
      BY <2>1 DEF Same, Compared
    <2>. QED
      BY <2>1, <2>5, <2>6, <2>7 DEF CleanInv
  <1>4. CASE Resume
    BY <1>4 DEF Resume, CleanInv
  <1>5. CASE PageFails \/ WriteFails \/ WriteSummary \/ Interrupt
    BY <1>1, <1>5, FailIsQuiet DEF Untouched, report
  <1>6. CASE FetchPage \/ EndOfPage
    BY <1>1, <1>6 DEF FetchPage, EndOfPage, report
  <1>7. ASSUME NEW c \in Caller, DoBatch(c) PROVE CleanInv'
    BY <1>1, <1>7 DEF DoBatch, report
  <1>8. CASE UNCHANGED vars
    BY <1>1, <1>8 DEF vars, report
  <1>. QED
    BY <1>2, <1>3, <1>4, <1>5, <1>6, <1>7, <1>8 DEF Next, RunStep

-----------------------------------------------------------------------------
(* The theorems *)

THEOREM ReportInvariant == Spec => []ReportInv
  <1>1. Init => ReportInv
    <2>1. Init => TypeInv
      BY TypeInitially
    <2>2. Init => WalkInv /\ ListInv
      <3>. SUFFICES ASSUME Init PROVE WalkInv /\ ListInv
        OBVIOUS
      <3>1. /\ Position(first) = 1 /\ Position(cursor) = 1 /\ taken = 0 /\ Len(full) = 0
            /\ Len(batch) = 0 /\ DOMAIN full = {} /\ DOMAIN batch = {}
        BY DEF Init, Position, Empty
      <3>. QED
        BY <3>1 DEF Init, WalkInv, ListInv
    <2>3. Init => CleanInv /\ CountInv
      BY FS_EmptySet DEF Init, CleanInv, CountInv
    <2>. QED
      BY <2>1, <2>2, <2>3 DEF ReportInv
  <1>2. ReportInv /\ [Next]_vars => ReportInv'
    BY TypeNext, WalkNext, ListNext, CleanNext, CountNext DEF ReportInv
  <1>. QED
    BY <1>1, <1>2, PTL DEF Spec

\* A report is about accounts of L1, whatever the operator and the chains do.
THEOREM ReportTypeCorrect == Spec => []TypeOK
  <1>1. ReportInv => TypeOK
    BY DEF ReportInv, TypeInv
  <1>. QED
    BY <1>1, ReportInvariant, PTL

\* A completed walk lists each account from its first one on exactly once.
THEOREM ReportListsEachAccountOnce == Spec => []EachAccountOnce
  <1>1. ReportInv => EachAccountOnce
    <2>. SUFFICES ASSUME ReportInv, pc = "done", ~lost, ~repeated
                  PROVE  [i \in DOMAIN full |-> full[i].account]
                           = [i \in 1..(Count + 1 - Position(first)) |-> Position(first) + i - 1]
      BY DEF EachAccountOnce
    <2>1. batch = <<>> /\ taken = Count /\ Len(batch) = 0
      BY DEF ReportInv, WalkInv
    <2>2. /\ Len(full) + Len(batch) = taken - Position(first) + 1
          /\ \A i \in DOMAIN full : full[i].account = Position(first) + i - 1
      BY DEF ReportInv, ListInv
    <2>3. DOMAIN full = 1..Len(full) /\ Len(full) \in Nat
      BY ElementsOf DEF ReportInv, TypeInv
    <2>4. Len(full) = Count + 1 - Position(first)
      BY <2>1, <2>2, <2>3, Positions DEF ReportInv
    <2>. QED
      BY <2>2, <2>3, <2>4
  <1>. QED
    BY <1>1, ReportInvariant, PTL

\* A clean report with the number of accounts of L1 says that L2 is the same.
THEOREM CleanReportIsEqual == Spec => []CleanRunIsEqual
  <1>1. ReportInv => CleanRunIsEqual
    <2>. SUFFICES ASSUME ReportInv, pc = "done", ~repeated, mismatched = 0, errors = 0,
                         accounts = Count, NEW a \in 1..Count
                  PROVE  chain[a].preimage /\ Same(a)
      BY DEF CleanRunIsEqual, Same
    <2>1. /\ batch = <<>> /\ Len(batch) = 0 /\ Len(full) = Count
      BY DEF ReportInv, WalkInv, CountInv
    <2>2. /\ Len(full) + Len(batch) = taken - Position(first) + 1
          /\ \A i \in DOMAIN full : full[i].account = Position(first) + i - 1
      BY DEF ReportInv, ListInv
    <2>3. DOMAIN full = 1..Count
      BY <2>1, ElementsOf DEF ReportInv, TypeInv
    <2>4. Position(first) = 1
      BY <2>1, <2>2, Positions DEF ReportInv
    <2>5. a \in DOMAIN full /\ full[a].account = a
      BY <2>2, <2>3, <2>4
    <2>. QED
      BY <2>5 DEF ReportInv, CleanInv
  <1>. QED
    BY <1>1, ReportInvariant, PTL

\* The summary and the two files say the same.
THEOREM ReportAddsUp == Spec => []SummaryAddsUp
  <1>1. ReportInv => SummaryAddsUp
    BY DEF ReportInv, CountInv, SummaryAddsUp
  <1>. QED
    BY <1>1, ReportInvariant, PTL
=============================================================================
