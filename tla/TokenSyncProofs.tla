-------------------------- MODULE TokenSyncProofs --------------------------
(***************************************************************************)
(* What tokensync guarantees for any tokens, any number of overlapping and *)
(* repeated runs and any activity of the indexer, and for a supply of any  *)
(* length.                                                                 *)
(***************************************************************************)
EXTENDS TokenSync, WellFoundedInduction, TLAPS

-----------------------------------------------------------------------------
(* Type correctness *)

LEMMA InitTyped == Init => TypeOK
  BY DEF Init, TypeOK

\* A row a run writes is a row.
LEMMA NewRowTyped ==
  ASSUME TypeOK, NEW r \in Run
  PROVE  NewRow(r) \in Row
  BY DEF TypeOK, NewRow, Row

LEMMA RunTyped ==
  ASSUME TypeOK, NEW r \in Run, RunStep(r)
  PROVE  TypeOK'
  <1>1. CASE Start(r)
    BY <1>1 DEF TypeOK, Start, summary
  <1>2. ASSUME NEW t \in Token, Lookup(r, t) PROVE TypeOK'
    <2>. DEFINE decision == ResolveSyncAction(rows[t], force[r])
    <2>1. decision \in {"insert", "update", "skip"}
      BY DEF ResolveSyncAction
    <2>2. CASE decision = "skip"
      BY <1>2, <2>2 DEF Lookup, TypeOK
    <2>3. CASE decision # "skip"
      BY <1>2, <2>1, <2>3 DEF Lookup, TypeOK, TakeInHand
    <2>. QED
      BY <2>2, <2>3
  <1>3. CASE Fetch(r)
    BY <1>3 DEF TypeOK, Fetch, Answers, summary
  <1>4. CASE Insert(r)
    BY <1>4, NewRowTyped DEF TypeOK, Insert, Counted, StatementFails, summary
  <1>5. CASE Update(r)
    BY <1>5, NewRowTyped DEF TypeOK, Update, Counted, StatementFails, summary
  <1>6. CASE Fail(r)
    BY <1>6 DEF TypeOK, Fail, StatementFails, summary
  <1>7. CASE Finish(r)
    BY <1>7 DEF TypeOK, Finish, summary
  <1>. QED
    BY <1>1, <1>2, <1>3, <1>4, <1>5, <1>6, <1>7 DEF RunStep

LEMMA IndexerTyped ==
  ASSUME TypeOK, NEW t \in Token, IndexToken(t) \/ CountActivity(t)
  PROVE  TypeOK'
  <1>1. CASE IndexToken(t)
    BY <1>1 DEF TypeOK, IndexToken, Row, local, summary
  <1>2. CASE CountActivity(t)
    <2>1. rows[t] \in Row
      BY <1>2 DEF TypeOK, CountActivity
    <2>2. [rows[t] EXCEPT !.activity = @ + 1] \in Row
      BY <2>1 DEF Row
    <2>. QED
      BY <1>2, <2>2 DEF TypeOK, CountActivity, local, summary
  <1>. QED
    BY <1>1, <1>2

LEMMA NextTyped == TypeOK /\ [Next]_vars => TypeOK'
  <1>1. ASSUME TypeOK, UNCHANGED vars PROVE TypeOK'
    BY <1>1 DEF TypeOK, vars, local, summary
  <1>. QED
    BY <1>1, RunTyped, IndexerTyped DEF Next

\* Every variable keeps its type.
THEOREM TypeCorrect == Spec => []TypeOK
  BY InitTyped, NextTyped, PTL DEF Spec

-----------------------------------------------------------------------------
(* The inductive invariant *)

InHand(r) == pc[r] \in {"fetch", "insert", "update"}

Covered(r) == inserted[r] \cup updated[r] \cup skipped[r]

\* What a run about to write holds is for its target, and only a forced run
\* is about to update.
RecordInv(r) ==
  /\ pc[r] \in {"insert", "update"} => record[r] = current[r]
  /\ pc[r] \in {"insert", "update"} => pc[r] = action[r]
  /\ InHand(r) /\ action[r] = "update" => force[r] /\ rows[current[r]] # NoRow

\* Each target is waiting, in hand, or counted once.
CoverInv(r) ==
  /\ pc[r] # "failed" =>
       Token = todo[r] \cup Covered(r) \cup (IF InHand(r) THEN {current[r]} ELSE {})
  /\ InHand(r) => current[r] \notin todo[r] \cup Covered(r)
  /\ todo[r] \cap Covered(r) = {}
  /\ inserted[r] \cap updated[r] = {}
  /\ skipped[r] \cap (inserted[r] \cup updated[r]) = {}
  /\ pc[r] = "done" => todo[r] = {}

\* What is counted is in the table, and under --force shows legacy metadata or
\* activity of its own.
ShownInv(r) ==
  \A t \in Covered(r) :
    /\ rows[t] # NoRow
    /\ force[r] => rows[t].label # Chain \/ rows[t].activity > 0

IInv == /\ TypeOK
        /\ OwnMetadata
        /\ \A r \in Run : RecordInv(r) /\ CoverInv(r) /\ ShownInv(r)

LEMMA InitInvariant == Init => IInv
  <1>. SUFFICES ASSUME Init PROVE IInv
    OBVIOUS
  <1>1. TypeOK
    BY InitTyped
  <1>2. ASSUME NEW r \in Run PROVE RecordInv(r) /\ CoverInv(r) /\ ShownInv(r)
    BY <1>2 DEF Init, RecordInv, CoverInv, ShownInv, InHand, Covered
  <1>. QED
    BY <1>1, <1>2 DEF IInv, Init, OwnMetadata

\* How a step may change the table: a row that is there stays, and its label
\* changes to a token's only.
TableStep ==
  \A t \in Token :
    /\ rows[t] # NoRow => rows'[t] # NoRow
    /\ rows[t] # NoRow => \/ rows'[t].label = t
                          \/ /\ rows'[t].label = rows[t].label
                             /\ rows[t].activity > 0 => rows'[t].activity > 0
    /\ rows'[t] # NoRow /\ rows[t] = NoRow => rows'[t].label \in {t, Chain}

\* Runs that do not move are not disturbed.
LEMMA OthersUndisturbed ==
  ASSUME IInv, TableStep, NEW r \in Run,
         UNCHANGED <<force[r], pc[r], todo[r], current[r], action[r], record[r],
                     inserted[r], updated[r], skipped[r]>>
  PROVE  RecordInv(r)' /\ CoverInv(r)' /\ ShownInv(r)'
  <1>1. CoverInv(r)'
    BY DEF IInv, CoverInv, InHand, Covered
  <1>2. InHand(r) => current[r] \in Token
    BY DEF IInv, TypeOK, InHand
  <1>3. RecordInv(r)'
    BY <1>2 DEF IInv, RecordInv, InHand, TableStep
  <1>4. Covered(r)' = Covered(r) /\ Covered(r) \subseteq Token
    BY DEF Covered, IInv, TypeOK
  <1>5. ShownInv(r)'
    <2>. SUFFICES ASSUME NEW t \in Covered(r)
                  PROVE  /\ rows'[t] # NoRow
                         /\ force[r] => rows'[t].label # Chain \/ rows'[t].activity > 0
      BY <1>4 DEF ShownInv
    <2>1. /\ rows[t] # NoRow
          /\ force[r] => rows[t].label # Chain \/ rows[t].activity > 0
      BY DEF IInv, ShownInv
    <2>2. t \in Token /\ t # Chain
      BY <1>4, TokenSyncAssumption
    <2>. QED
      BY <2>1, <2>2 DEF TableStep
  <1>. QED
    BY <1>1, <1>3, <1>5

\* The table keeps showing each token's own metadata.
LEMMA MetadataStaysOwn ==
  ASSUME OwnMetadata, TableStep
  PROVE  OwnMetadata'
  BY DEF OwnMetadata, TableStep

\* A run writes the row of its target, with its target's label.
LEMMA WriteIsTableStep ==
  ASSUME IInv, NEW r \in Run, pc[r] \in {"insert", "update"},
         rows' = [rows EXCEPT ![current[r]] = NewRow(r)]
  PROVE  /\ TableStep
         /\ rows'[current[r]] # NoRow
         /\ rows'[current[r]].label = current[r] /\ current[r] # Chain
  <1>1. current[r] \in Token /\ record[r] = current[r] /\ rows \in [Token -> Row \cup {NoRow}]
    BY DEF IInv, TypeOK, RecordInv
  <1>2. NewRow(r) \in Row /\ NewRow(r).label = current[r]
    BY <1>1, NewRowTyped DEF IInv, NewRow
  <1>3. NewRow(r) # NoRow
    BY <1>2, RowAssumption
  <1>4. rows'[current[r]] = NewRow(r) /\ \A t \in Token : t # current[r] => rows'[t] = rows[t]
    BY <1>1
  <1>. QED
    BY <1>1, <1>2, <1>3, <1>4, TokenSyncAssumption DEF TableStep

LEMMA UnchangedIsTableStep ==
  ASSUME rows' = rows
  PROVE  TableStep
  BY DEF TableStep

-----------------------------------------------------------------------------
(* Every step of a run preserves it *)

\* The parts of the invariant that are the moving run's own.
OwnParts(r) == RecordInv(r) /\ CoverInv(r) /\ ShownInv(r)

LEMMA FailKeeps ==
  ASSUME IInv, TableStep, NEW r \in Run, StatementFails(r),
         UNCHANGED <<force, todo, current, action, record>>
  PROVE  OwnParts(r)'
  <1>1. pc'[r] = "failed" /\ Covered(r)' = Covered(r)
    BY DEF IInv, TypeOK, StatementFails, summary, Covered
  <1>2. RecordInv(r)' /\ CoverInv(r)'
    BY <1>1 DEF RecordInv, CoverInv, InHand, IInv, StatementFails, summary
  <1>3. ShownInv(r)'
    <2>. SUFFICES ASSUME NEW t \in Covered(r)
                  PROVE  /\ rows'[t] # NoRow
                         /\ force[r] => rows'[t].label # Chain \/ rows'[t].activity > 0
      BY <1>1 DEF ShownInv
    <2>1. /\ rows[t] # NoRow
          /\ force[r] => rows[t].label # Chain \/ rows[t].activity > 0
      BY DEF IInv, ShownInv
    <2>2. t \in Token /\ t # Chain
      BY TokenSyncAssumption DEF IInv, TypeOK, Covered
    <2>. QED
      BY <2>1, <2>2 DEF TableStep
  <1>. QED
    BY <1>2, <1>3 DEF OwnParts

LEMMA LookupKeeps ==
  ASSUME IInv, NEW r \in Run, NEW t \in Token, Lookup(r, t)
  PROVE  OwnParts(r)'
  <1>. DEFINE decision == ResolveSyncAction(rows[t], force[r])
  <1>0. RecordInv(r) /\ CoverInv(r) /\ ShownInv(r) /\ TypeOK
    BY DEF IInv
  <1>1. CASE decision = "skip"
    <2>1. /\ rows[t] # NoRow /\ (force[r] => rows[t].activity > 0)
          /\ pc[r] = "next" /\ t \in todo[r]
      BY <1>1 DEF Lookup, ResolveSyncAction
    <2>2. /\ UNCHANGED <<rows, force, pc, current, action, record, inserted, updated>>
          /\ todo'[r] = todo[r] \ {t}
          /\ skipped'[r] = skipped[r] \cup {t}
      BY <1>0, <1>1 DEF Lookup, TypeOK
    <2>3. RecordInv(r)' /\ CoverInv(r)'
      BY <1>0, <2>1, <2>2 DEF RecordInv, CoverInv, InHand, Covered
    <2>4. ShownInv(r)'
      BY <1>0, <2>1, <2>2 DEF ShownInv, Covered
    <2>. QED
      BY <2>3, <2>4 DEF OwnParts
  <1>2. CASE decision # "skip"
    <2>1. /\ pc[r] = "next" /\ t \in todo[r]
          /\ decision = "update" => force[r] /\ rows[t] # NoRow
      BY DEF Lookup, ResolveSyncAction
    <2>2. /\ UNCHANGED <<rows, force, record, inserted, updated, skipped>>
          /\ todo'[r] = todo[r] \ {t}
          /\ pc'[r] = "fetch" /\ current'[r] = t /\ action'[r] = decision
      BY <1>0, <1>2 DEF Lookup, TypeOK, TakeInHand
    <2>3. RecordInv(r)' /\ CoverInv(r)'
      BY <1>0, <2>1, <2>2 DEF RecordInv, CoverInv, InHand, Covered
    <2>4. ShownInv(r)'
      BY <1>0, <2>1, <2>2 DEF ShownInv, Covered
    <2>. QED
      BY <2>3, <2>4 DEF OwnParts
  <1>. QED
    BY <1>1, <1>2

LEMMA FetchKeeps ==
  ASSUME IInv, NEW r \in Run, Fetch(r)
  PROVE  OwnParts(r)'
  <1>0. RecordInv(r) /\ CoverInv(r) /\ ShownInv(r) /\ TypeOK
    BY DEF IInv
  <1>1. PICK p \in Answers(current[r]) :
          Accepts(current[r], p) /\ record' = [record EXCEPT ![r] = p.label]
    BY DEF Fetch
  <1>2. current[r] \in Token
    BY <1>0 DEF TypeOK, Fetch
  <1>3. p.label = current[r]
    BY <1>1, <1>2, TokenSyncAssumption DEF Answers, Accepts
  <1>4. /\ UNCHANGED <<rows, force, todo, current, action, inserted, updated, skipped>>
        /\ pc[r] = "fetch" /\ pc'[r] = action[r] /\ record'[r] = current[r]
        /\ action[r] \in {"insert", "update"}
    BY <1>0, <1>1, <1>3 DEF Fetch, TypeOK, summary
  <1>. QED
    BY <1>0, <1>4 DEF OwnParts, RecordInv, CoverInv, ShownInv, InHand, Covered

\* A statement that succeeds is counted, and its row is there.
LEMMA WrittenKeeps ==
  ASSUME IInv, NEW r \in Run, pc[r] \in {"insert", "update"},
         rows' = [rows EXCEPT ![current[r]] = NewRow(r)],
         UNCHANGED <<force, todo, current, action, record>>,
         pc'[r] = "next",
         Covered(r)' = Covered(r) \cup {current[r]},
         \/ inserted'[r] = inserted[r] \cup {current[r]} /\ UNCHANGED <<updated, skipped>>
         \/ updated'[r] = updated[r] \cup {current[r]} /\ UNCHANGED <<inserted, skipped>>
  PROVE  OwnParts(r)'
  <1>0. RecordInv(r) /\ CoverInv(r) /\ ShownInv(r) /\ TypeOK
    BY DEF IInv
  <1>1. /\ TableStep
        /\ rows'[current[r]] # NoRow
        /\ rows'[current[r]].label = current[r] /\ current[r] # Chain
    BY WriteIsTableStep
  <1>2. RecordInv(r)'
    BY DEF RecordInv, InHand
  <1>3. CoverInv(r)'
    BY <1>0 DEF CoverInv, InHand, Covered
  <1>4. ASSUME NEW t \in Covered(r)
        PROVE  /\ rows'[t] # NoRow
               /\ force[r] => rows'[t].label # Chain \/ rows'[t].activity > 0
    <2>1. /\ rows[t] # NoRow
          /\ force[r] => rows[t].label # Chain \/ rows[t].activity > 0
      BY <1>0 DEF ShownInv
    <2>2. t \in Token /\ t # Chain
      BY <1>0, TokenSyncAssumption DEF TypeOK, Covered
    <2>. QED
      BY <1>1, <2>1, <2>2 DEF TableStep
  <1>5. ShownInv(r)'
    BY <1>1, <1>4 DEF ShownInv
  <1>. QED
    BY <1>2, <1>3, <1>5 DEF OwnParts

LEMMA InsertKeeps ==
  ASSUME IInv, NEW r \in Run, Insert(r)
  PROVE  TableStep /\ OwnParts(r)'
  <1>0. TypeOK
    BY DEF IInv
  <1>1. CASE rows[current[r]] # NoRow
    BY <1>1, UnchangedIsTableStep, FailKeeps DEF Insert
  <1>2. CASE rows[current[r]] = NoRow
    <2>1. rows' = [rows EXCEPT ![current[r]] = NewRow(r)] /\ pc[r] = "insert"
      BY <1>2 DEF Insert
    <2>2. TableStep
      BY <2>1, WriteIsTableStep
    <2>3. CASE StatementFails(r)
      BY <2>2, <2>3, FailKeeps DEF Insert
    <2>4. CASE /\ pc' = [pc EXCEPT ![r] = "next"]
               /\ inserted' = Counted(r, inserted)
               /\ UNCHANGED <<updated, skipped>>
      <3>1. pc'[r] = "next" /\ inserted'[r] = inserted[r] \cup {current[r]}
        BY <1>0, <2>4 DEF TypeOK, Counted
      <3>2. Covered(r)' = Covered(r) \cup {current[r]}
        BY <2>4, <3>1 DEF Covered
      <3>. QED
        BY <2>1, <2>2, <2>4, <3>1, <3>2, WrittenKeeps DEF Insert
    <2>. QED
      BY <1>2, <2>3, <2>4 DEF Insert
  <1>. QED
    BY <1>1, <1>2

LEMMA UpdateKeeps ==
  ASSUME IInv, NEW r \in Run, Update(r)
  PROVE  TableStep /\ OwnParts(r)'
  <1>0. TypeOK
    BY DEF IInv
  <1>1. rows' = [rows EXCEPT ![current[r]] = NewRow(r)] /\ pc[r] = "update"
    BY DEF Update
  <1>2. TableStep
    BY <1>1, WriteIsTableStep
  <1>3. CASE StatementFails(r)
    BY <1>2, <1>3, FailKeeps DEF Update
  <1>4. CASE /\ pc' = [pc EXCEPT ![r] = "next"]
             /\ updated' = Counted(r, updated)
             /\ UNCHANGED <<inserted, skipped>>
    <2>1. pc'[r] = "next" /\ updated'[r] = updated[r] \cup {current[r]}
      BY <1>0, <1>4 DEF TypeOK, Counted
    <2>2. Covered(r)' = Covered(r) \cup {current[r]}
      BY <1>4, <2>1 DEF Covered
    <2>. QED
      BY <1>1, <1>2, <1>4, <2>1, <2>2, WrittenKeeps DEF Update
  <1>. QED
    BY <1>3, <1>4 DEF Update

\* A run touches nothing of another one.
LEMMA OnlyOwnState ==
  ASSUME TypeOK, NEW r \in Run, RunStep(r), NEW q \in Run, q # r
  PROVE  UNCHANGED <<force[q], pc[q], todo[q], current[q], action[q], record[q],
                     inserted[q], updated[q], skipped[q]>>
  <1>1. ASSUME NEW t \in Token, Lookup(r, t)
        PROVE  UNCHANGED <<force[q], pc[q], todo[q], current[q], action[q], record[q],
                           inserted[q], updated[q], skipped[q]>>
    BY <1>1 DEF Lookup, TakeInHand, TypeOK
  <1>2. CASE Insert(r) \/ Update(r) \/ Fail(r)
    BY <1>2 DEF Insert, Update, Fail, StatementFails, Counted, summary, TypeOK
  <1>3. CASE Start(r) \/ Fetch(r) \/ Finish(r)
    BY <1>3 DEF Start, Fetch, Finish, summary, TypeOK
  <1>. QED
    BY <1>1, <1>2, <1>3 DEF RunStep

LEMMA RunKeeps ==
  ASSUME IInv, NEW r \in Run, RunStep(r)
  PROVE  TableStep /\ OwnParts(r)'
  <1>0. RecordInv(r) /\ CoverInv(r) /\ ShownInv(r) /\ TypeOK
    BY DEF IInv
  <1>1. CASE Start(r)
    <2>1. /\ UNCHANGED <<rows, force, todo, current, action, record, inserted, updated, skipped>>
          /\ pc[r] = "idle" /\ pc'[r] = "next"
      BY <1>0, <1>1 DEF Start, TypeOK, summary
    <2>. QED
      BY <1>0, <2>1, UnchangedIsTableStep
         DEF OwnParts, RecordInv, CoverInv, ShownInv, InHand, Covered
  <1>2. ASSUME NEW t \in Token, Lookup(r, t) PROVE TableStep /\ OwnParts(r)'
    BY <1>2, LookupKeeps, UnchangedIsTableStep DEF Lookup
  <1>3. CASE Fetch(r)
    BY <1>3, FetchKeeps, UnchangedIsTableStep DEF Fetch
  <1>4. CASE Insert(r)
    BY <1>4, InsertKeeps
  <1>5. CASE Update(r)
    BY <1>5, UpdateKeeps
  <1>6. CASE Fail(r)
    BY <1>6, FailKeeps, UnchangedIsTableStep DEF Fail
  <1>7. CASE Finish(r)
    <2>1. /\ UNCHANGED <<rows, force, todo, current, action, record, inserted, updated, skipped>>
          /\ pc[r] = "next" /\ pc'[r] = "done" /\ todo[r] = {}
      BY <1>0, <1>7 DEF Finish, TypeOK, summary
    <2>. QED
      BY <1>0, <2>1, UnchangedIsTableStep
         DEF OwnParts, RecordInv, CoverInv, ShownInv, InHand, Covered
  <1>. QED
    BY <1>1, <1>2, <1>3, <1>4, <1>5, <1>6, <1>7 DEF RunStep

LEMMA IndexerIsTableStep ==
  ASSUME TypeOK, NEW t \in Token, IndexToken(t) \/ CountActivity(t)
  PROVE  TableStep
  <1>1. CASE IndexToken(t)
    BY <1>1 DEF IndexToken, TableStep, TypeOK
  <1>2. CASE CountActivity(t)
    <2>1. rows[t] \in Row /\ rows \in [Token -> Row \cup {NoRow}]
      BY <1>2 DEF TypeOK, CountActivity
    <2>2. /\ rows'[t] = [rows[t] EXCEPT !.activity = @ + 1]
          /\ \A u \in Token : u # t => rows'[u] = rows[u]
      BY <1>2, <2>1 DEF CountActivity
    <2>3. rows'[t] \in Row /\ rows'[t].label = rows[t].label /\ rows'[t].activity > 0
      BY <2>1, <2>2 DEF Row
    <2>. QED
      BY <1>2, <2>2, <2>3, RowAssumption DEF TableStep, CountActivity
  <1>. QED
    BY <1>1, <1>2

LEMMA NextKeeps == IInv /\ [Next]_vars => IInv'
  <1>. SUFFICES ASSUME IInv, [Next]_vars PROVE IInv'
    OBVIOUS
  <1>0. TypeOK /\ TypeOK'
    BY NextTyped DEF IInv
  <1>1. ASSUME NEW r \in Run, RunStep(r) PROVE IInv'
    <2>1. TableStep /\ OwnParts(r)'
      BY <1>1, RunKeeps
    <2>2. ASSUME NEW q \in Run, q # r PROVE OwnParts(q)'
      BY <1>0, <1>1, <2>1, <2>2, OnlyOwnState, OthersUndisturbed DEF OwnParts
    <2>3. OwnMetadata'
      BY <2>1, MetadataStaysOwn DEF IInv
    <2>. QED
      BY <1>0, <2>1, <2>2, <2>3 DEF IInv, OwnParts
  <1>2. ASSUME TableStep, UNCHANGED local PROVE IInv'
    <2>1. ASSUME NEW q \in Run PROVE OwnParts(q)'
      BY <1>2, OthersUndisturbed DEF OwnParts, local, summary
    <2>2. OwnMetadata'
      BY <1>2, MetadataStaysOwn DEF IInv
    <2>. QED
      BY <1>0, <2>1, <2>2 DEF IInv, OwnParts
  <1>3. ASSUME NEW t \in Token, IndexToken(t) \/ CountActivity(t) PROVE IInv'
    BY <1>0, <1>2, <1>3, IndexerIsTableStep DEF IndexToken, CountActivity
  <1>4. CASE UNCHANGED vars
    BY <1>2, <1>4, UnchangedIsTableStep DEF vars
  <1>. QED
    BY <1>1, <1>3, <1>4 DEF Next

LEMMA Invariance == Spec => []IInv
  BY InitInvariant, NextKeeps, PTL DEF Spec

-----------------------------------------------------------------------------
(* The theorems *)

\* No token ever shows the metadata of another one.
THEOREM MetadataIsOwn == Spec => []OwnMetadata
  <1>1. IInv => OwnMetadata
    BY DEF IInv
  <1>. QED
    BY <1>1, Invariance, PTL

\* A completed run covers every configured token exactly once.
THEOREM CompleteRunCovers == Spec => []CompleteRunCoversTokens
  <1>1. IInv => CompleteRunCoversTokens
    BY DEF IInv, CompleteRunCoversTokens, CoverInv, ShownInv, InHand, Covered
  <1>. QED
    BY <1>1, Invariance, PTL

\* A completed --force run leaves no unrepaired token without activity.
THEOREM ForcedRunLeavesNoGap == Spec => []ForcedRunRepairs
  <1>1. IInv => ForcedRunRepairs
    BY DEF IInv, ForcedRunRepairs, CoverInv, ShownInv, InHand, Covered
  <1>. QED
    BY <1>1, Invariance, PTL

\* A run without --force changes no row that exists.
THEOREM PlainRunsAreHarmless == Spec => PlainRunsOverwriteNothing
  <1>1. ASSUME IInv, [Next]_vars
        PROVE  [\A t \in Token, r \in Run :
                  rows[t] # NoRow /\ rows'[t] # rows[t] /\ pc'[r] # pc[r] => force[r]]_vars
    <2>. SUFFICES ASSUME NEW t \in Token, NEW r \in Run,
                         rows[t] # NoRow, rows'[t] # rows[t], pc'[r] # pc[r]
                  PROVE  force[r]
      OBVIOUS
    <2>0. TypeOK /\ RecordInv(r)
      BY <1>1 DEF IInv
    <2>1. PICK q \in Run : RunStep(q)
      BY <1>1 DEF Next, IndexToken, CountActivity, vars, local
    <2>2. q = r
      BY <2>0, <2>1, OnlyOwnState
    <2>3. Insert(r) \/ Update(r)
      BY <2>1, <2>2 DEF RunStep, Start, Lookup, Fetch, Fail, Finish
    <2>4. ~Insert(r)
      BY <2>0 DEF Insert, TypeOK
    <2>. QED
      BY <2>0, <2>3, <2>4 DEF Update, RecordInv, InHand
  <1>. QED
    BY <1>1, Invariance, PTL DEF Spec, PlainRunsOverwriteNothing

-----------------------------------------------------------------------------
(* Recursion over an interval *)

\* Induction: a set of numbers up to n that holds 0 and with each number below
\* n the next one holds all of them.
LEMMA NumbersUpTo ==
  ASSUME NEW n \in Nat, NEW S \in SUBSET (0..n), 0 \in S, \A i \in S : i < n => i + 1 \in S
  PROVE  S = 0..n
  <1>. DEFINE T == 0..n \ S
  <1>. SUFFICES ASSUME T # {} PROVE FALSE
    OBVIOUS
  <1>1. PICK m \in T : \A i \in T : ~(<<i, m>> \in OpToRel(<, Nat))
    <2>1. T \subseteq Nat /\ T # {}
      OBVIOUS
    <2>. HIDE DEF T
    <2>. QED
      BY <2>1, NatLessThanWellFounded, WFMin
  <1>2. ASSUME NEW i \in T PROVE ~(i < m)
    <2>1. i \in Nat /\ m \in Nat
      OBVIOUS
    <2>2. ~(<<i, m>> \in OpToRel(<, Nat))
      BY <1>1
    <2>. QED
      BY <2>1, <2>2 DEF OpToRel
  <1>3. m \in 0..n /\ m # 0 /\ m \notin S
    BY <1>1
  <1>4. m - 1 \in 0..n /\ m - 1 < m /\ m - 1 < n /\ (m - 1) + 1 = m
    BY <1>3
  <1>5. m - 1 \in S
    BY <1>2, <1>4
  <1>. QED
    BY <1>3, <1>4, <1>5

Steps(f, n, b, G) == f[0] = b /\ \A i \in 1..n : f[i] = G[<<i, f[i - 1]>>]

\* A recursion over 0..n has a solution.
LEMMA Recursion ==
  ASSUME NEW A, NEW n \in Nat, NEW b \in A, NEW G \in [(1..n) \X A -> A]
  PROVE  \E f \in [0..n -> A] : Steps(f, n, b, G)
  <1>. DEFINE Good == {m \in 0..n : \E f \in [0..n -> A] : Steps(f, m, b, G)}
  <1>1. 0 \in Good
    <2>. DEFINE f == [i \in 0..n |-> b]
    <2>1. f \in [0..n -> A] /\ f[0] = b /\ 1..0 = {} /\ 0 \in 0..n
      OBVIOUS
    <2>. HIDE DEF f
    <2>2. Steps(f, 0, b, G)
      BY <2>1 DEF Steps
    <2>. QED
      BY <2>1, <2>2
  <1>2. ASSUME NEW m \in Good, m < n PROVE m + 1 \in Good
    <2>1. m \in 0..n /\ m + 1 \in 0..n /\ m + 1 \in 1..n
      BY <1>2
    <2>2. PICK f \in [0..n -> A] : Steps(f, m, b, G)
      OBVIOUS
    <2>. DEFINE x == G[<<m + 1, f[m]>>]
                h == [f EXCEPT ![m + 1] = x]
    <2>3. x \in A
      <3>1. f[m] \in A
        BY <2>1, <2>2
      <3>. QED
        BY <2>1, <3>1
    <2>4. h \in [0..n -> A] /\ h[m + 1] = x /\ \A i \in 0..m : h[i] = f[i]
      <3>. HIDE DEF x
      <3>. QED
        BY <2>1, <2>2, <2>3
    <2>5. ASSUME NEW i \in 1..m + 1 PROVE h[i] = G[<<i, h[i - 1]>>]
      <3>. HIDE DEF h
      <3>1. CASE i = m + 1
        <4>1. i - 1 = m /\ h[i - 1] = f[m]
          BY <2>1, <2>4, <3>1
        <4>. QED
          BY <2>4, <3>1, <4>1
      <3>2. CASE i # m + 1
        <4>1. i \in 1..m /\ i \in 0..m /\ i - 1 \in 0..m
          BY <2>1, <3>2
        <4>2. f[i] = G[<<i, f[i - 1]>>]
          BY <2>2, <4>1 DEF Steps
        <4>. QED
          BY <2>4, <4>1, <4>2
      <3>. QED
        BY <3>1, <3>2
    <2>6. h[0] = b
      BY <2>1, <2>2, <2>4 DEF Steps
    <2>. HIDE DEF h
    <2>7. Steps(h, m + 1, b, G)
      BY <2>5, <2>6 DEF Steps
    <2>. QED
      BY <2>1, <2>4, <2>7
  <1>3. Good = 0..n
    <2>1. Good \in SUBSET (0..n)
      OBVIOUS
    <2>. HIDE DEF Good
    <2>. QED
      BY <1>1, <1>2, <2>1, NumbersUpTo
  <1>4. n \in 0..n
    OBVIOUS
  <1>5. n \in Good
    <2>. HIDE DEF Good
    <2>. QED
      BY <1>3, <1>4
  <1>. QED
    BY <1>5

StepsIn(A, f, n, b, G) ==
  f[0] = b /\ \A i \in 1..n : f[i - 1] \in A => f[i] = G[<<i, f[i - 1]>>]

\* What takes the steps of a recursion is its solution.
LEMMA SameSteps ==
  ASSUME NEW A, NEW n \in Nat, NEW b, NEW G, NEW g \in [0..n -> A], Steps(g, n, b, G),
         NEW f, StepsIn(A, f, n, b, G)
  PROVE  f[n] = g[n]
  <1>. DEFINE Good == {i \in 0..n : f[i] = g[i]}
  <1>1. 0 \in Good
    BY DEF Steps, StepsIn
  <1>2. ASSUME NEW i \in Good, i < n PROVE i + 1 \in Good
    <2>1. i \in 0..n /\ i + 1 \in 1..n /\ i + 1 \in 0..n /\ (i + 1) - 1 = i /\ f[i] = g[i]
      BY <1>2
    <2>2. g[i] \in A
      BY <2>1
    <2>3. f[i + 1] = G[<<i + 1, f[i]>>] /\ g[i + 1] = G[<<i + 1, g[i]>>]
      BY <2>1, <2>2 DEF Steps, StepsIn
    <2>. QED
      BY <2>1, <2>3
  <1>3. Good \in SUBSET (0..n)
    OBVIOUS
  <1>4. Good = 0..n
    <2>. HIDE DEF Good
    <2>. QED
      BY <1>1, <1>2, <1>3, NumbersUpTo
  <1>5. n \in Good
    <2>1. n \in 0..n
      OBVIOUS
    <2>. HIDE DEF Good
    <2>. QED
      BY <1>4, <2>1
  <1>. QED
    BY <1>5

-----------------------------------------------------------------------------
(* Numbers *)

LEMMA DigitsTyped ==
  ASSUME NEW s \in Seq(Digit)
  PROVE  s \in Seq(Nat)
  <1>1. Digit \subseteq Nat
    BY DEF Digit
  <1>2. \A S, T : S \subseteq T => Seq(S) \subseteq Seq(T)
    OBVIOUS
  <1>. QED
    BY <1>1, <1>2

LEMMA ReadTyped ==
  ASSUME NEW n \in Nat, NEW char \in Nat
  PROVE  Read(n, char) \in Nat
  BY DEF Read, Digit

\* The number of a text, as it grows character by character.
LEMMA NumberSteps ==
  ASSUME NEW text \in Seq(Nat)
  PROVE  \E f \in [0..Len(text) -> Nat] :
           /\ f[0] = 0 /\ Number(text) = f[Len(text)]
           /\ \A i \in 1..Len(text) : f[i] = Read(f[i - 1], text[i])
  <1>. DEFINE n == Len(text)
              G == [x \in (1..n) \X Nat |-> Read(x[2], text[x[1]])]
              Rec(f) == [i \in 0..n |-> IF i = 0 THEN 0 ELSE Read(f[i - 1], text[i])]
              read == CHOOSE f : f = Rec(f)
  <1>1. n \in Nat /\ \A i \in 1..n : text[i] \in Nat
    OBVIOUS
  <1>2. G \in [(1..n) \X Nat -> Nat]
    BY <1>1, ReadTyped
  <1>3. \A i \in 1..n : \A y \in Nat : G[<<i, y>>] = Read(y, text[i])
    OBVIOUS
  <1>4. Number(text) = read[n]
    BY DEF Number, n
  <1>. HIDE DEF n, G, read
  <1>5. PICK g \in [0..n -> Nat] : Steps(g, n, 0, G)
    BY <1>1, <1>2, Recursion
  <1>6. \A i \in 1..n : i - 1 \in 0..n /\ i \in 0..n /\ i # 0
    BY <1>1
  <1>7. \A i \in 1..n : g[i] = Read(g[i - 1], text[i])
    BY <1>3, <1>5, <1>6 DEF Steps
  <1>8. g = Rec(g)
    <2>1. \A i \in 0..n : i # 0 => i \in 1..n
      BY <1>1
    <2>2. \A i \in 0..n : g[i] = Rec(g)[i]
      BY <1>5, <1>7, <2>1 DEF Steps
    <2>. QED
      BY <1>5, <2>2
  <1>9. read = Rec(read)
    <2>. HIDE DEF Rec
    <2>. QED
      BY <1>8 DEF read
  <1>10. read[0] = 0
    <2>1. 0 \in 0..n
      BY <1>1
    <2>. QED
      BY <1>9, <2>1
  <1>11. ASSUME NEW i \in 1..n, read[i - 1] \in Nat PROVE read[i] = G[<<i, read[i - 1]>>]
    <2>1. read[i] = Rec(read)[i]
      BY <1>9
    <2>2. read[i] = Read(read[i - 1], text[i])
      BY <1>6, <2>1
    <2>. QED
      BY <1>3, <1>11, <2>2
  <1>12. read[n] = g[n]
    <2>. HIDE DEF Rec
    <2>1. StepsIn(Nat, read, n, 0, G)
      BY <1>10, <1>11 DEF StepsIn
    <2>. QED
      BY <1>1, <1>5, <2>1, SameSteps
  <1>13. g[0] = 0
    BY <1>5 DEF Steps
  <1>. QED
    BY <1>4, <1>7, <1>12, <1>13 DEF n

LEMMA NumberTyped ==
  ASSUME NEW text \in Seq(Nat)
  PROVE  Number(text) \in Nat
  <1>1. Len(text) \in 0..Len(text)
    OBVIOUS
  <1>. QED
    BY <1>1, NumberSteps

\* A power of ten is ten times the one before.
LEMMA TenToSteps ==
  ASSUME NEW n \in Nat
  PROVE  \E p \in [0..n -> Nat] :
           /\ p[0] = 1 /\ TenTo(n) = p[n]
           /\ \A i \in 1..n : p[i] = 10 * p[i - 1]
  <1>. DEFINE G == [x \in (1..n) \X Nat |-> 10 * x[2]]
              Rec(f) == [i \in 0..n |-> IF i = 0 THEN 1 ELSE 10 * f[i - 1]]
              power == CHOOSE f : f = Rec(f)
  <1>1. G \in [(1..n) \X Nat -> Nat] /\ \A i \in 1..n : \A y \in Nat : G[<<i, y>>] = 10 * y
    OBVIOUS
  <1>2. TenTo(n) = power[n]
    BY DEF TenTo
  <1>. HIDE DEF G, power
  <1>3. PICK g \in [0..n -> Nat] : Steps(g, n, 1, G)
    BY <1>1, Recursion
  <1>4. \A i \in 1..n : i - 1 \in 0..n /\ i \in 0..n /\ i # 0
    OBVIOUS
  <1>5. \A i \in 1..n : g[i] = 10 * g[i - 1]
    BY <1>1, <1>3, <1>4 DEF Steps
  <1>6. g = Rec(g)
    <2>1. \A i \in 0..n : i # 0 => i \in 1..n
      OBVIOUS
    <2>2. \A i \in 0..n : g[i] = Rec(g)[i]
      BY <1>3, <1>5, <2>1 DEF Steps
    <2>. QED
      BY <1>3, <2>2
  <1>7. power = Rec(power)
    <2>. HIDE DEF Rec
    <2>. QED
      BY <1>6 DEF power
  <1>8. power[0] = 1
    <2>1. 0 \in 0..n
      OBVIOUS
    <2>. QED
      BY <1>7, <2>1
  <1>9. ASSUME NEW i \in 1..n, power[i - 1] \in Nat PROVE power[i] = G[<<i, power[i - 1]>>]
    <2>1. power[i] = Rec(power)[i]
      BY <1>7
    <2>2. power[i] = 10 * power[i - 1]
      BY <1>4, <2>1
    <2>. QED
      BY <1>1, <1>9, <2>2
  <1>10. power[n] = g[n]
    <2>. HIDE DEF Rec
    <2>1. StepsIn(Nat, power, n, 1, G)
      BY <1>8, <1>9 DEF StepsIn
    <2>. QED
      BY <1>3, <2>1, SameSteps
  <1>11. g[0] = 1
    BY <1>3 DEF Steps
  <1>. QED
    BY <1>2, <1>5, <1>10, <1>11
LEMMA TenToZero == TenTo(0) = 1
  <1>1. 0 \in Nat
    OBVIOUS
  <1>. QED
    BY <1>1, TenToSteps

LEMMA TenToNext ==
  ASSUME NEW n \in Nat
  PROVE  TenTo(n) \in Nat /\ TenTo(n + 1) = 10 * TenTo(n)
  <1>1. PICK g \in [0..n -> Nat] :
          g[0] = 1 /\ TenTo(n) = g[n] /\ \A i \in 1..n : g[i] = 10 * g[i - 1]
    BY TenToSteps
  <1>2. PICK p \in [0..n + 1 -> Nat] :
          p[0] = 1 /\ TenTo(n + 1) = p[n + 1] /\ \A i \in 1..n + 1 : p[i] = 10 * p[i - 1]
    <2>1. n + 1 \in Nat
      OBVIOUS
    <2>. QED
      BY <2>1, TenToSteps
  <1>. DEFINE Good == {i \in 0..n : p[i] = g[i]}
  <1>3. 0 \in Good /\ Good \in SUBSET (0..n)
    BY <1>1, <1>2
  <1>4. ASSUME NEW i \in Good, i < n PROVE i + 1 \in Good
    <2>1. /\ i \in 0..n /\ i + 1 \in 1..n /\ i + 1 \in 1..n + 1 /\ i + 1 \in 0..n
          /\ (i + 1) - 1 = i /\ p[i] = g[i]
      BY <1>4
    <2>2. g[i + 1] = 10 * g[i] /\ p[i + 1] = 10 * p[i]
      BY <1>1, <1>2, <2>1
    <2>. QED
      BY <2>1, <2>2
  <1>5. n \in Good
    <2>1. n \in 0..n
      OBVIOUS
    <2>. HIDE DEF Good
    <2>. QED
      BY <1>3, <1>4, <2>1, NumbersUpTo
  <1>6. n + 1 \in 1..n + 1 /\ (n + 1) - 1 = n /\ n \in 0..n
    OBVIOUS
  <1>7. p[n + 1] = 10 * p[n] /\ p[n] = g[n] /\ g[n] \in Nat
    BY <1>1, <1>2, <1>5, <1>6
  <1>. QED
    BY <1>1, <1>2, <1>7

\* Powers of ten are positive, and the exponents of a product add up.
LEMMA TenToSum ==
  ASSUME NEW m \in Nat, NEW n \in Nat
  PROVE  TenTo(n) \in Nat \ {0} /\ TenTo(m + n) = TenTo(m) * TenTo(n)
  <1>. DEFINE Good == {i \in 0..n : TenTo(i) \in Nat \ {0} /\ TenTo(m + i) = TenTo(m) * TenTo(i)}
  <1>1. 0 \in Good
    <2>1. m + 0 = m /\ 0 \in 0..n /\ TenTo(m) \in Nat
      BY TenToNext
    <2>2. TenTo(m) * 1 = TenTo(m)
      BY <2>1
    <2>. QED
      BY <2>1, <2>2, TenToZero
  <1>2. ASSUME NEW i \in Good, i < n PROVE i + 1 \in Good
    <2>1. /\ i \in 0..n /\ i \in Nat /\ i + 1 \in 0..n /\ m + i \in Nat /\ m + (i + 1) = (m + i) + 1
          /\ TenTo(i) \in Nat \ {0} /\ TenTo(m + i) = TenTo(m) * TenTo(i)
      BY <1>2
    <2>2. TenTo(i + 1) = 10 * TenTo(i) /\ TenTo((m + i) + 1) = 10 * TenTo(m + i) /\ TenTo(m) \in Nat
      BY <2>1, TenToNext
    <2>3. \A a, b \in Nat : 10 * (a * b) = a * (10 * b)
      OBVIOUS
    <2>4. TenTo(m + (i + 1)) = TenTo(m) * TenTo(i + 1)
      <3>1. 10 * (TenTo(m) * TenTo(i)) = TenTo(m) * (10 * TenTo(i))
        BY <2>1, <2>2, <2>3
      <3>. QED
        BY <2>1, <2>2, <3>1
    <2>5. TenTo(i + 1) \in Nat \ {0}
      BY <2>1, <2>2
    <2>. QED
      BY <2>1, <2>4, <2>5
  <1>3. n \in Good
    <2>1. n \in 0..n /\ Good \in SUBSET (0..n)
      OBVIOUS
    <2>. HIDE DEF Good
    <2>. QED
      BY <1>1, <1>2, <2>1, NumbersUpTo
  <1>. QED
    BY <1>3

\* The number of a joined text goes on from that of its first part.
LEMMA JoinedSteps ==
  ASSUME NEW a \in Seq(Nat), NEW b \in Seq(Nat)
  PROVE  \E h \in [0..Len(b) -> Nat] :
           /\ h[0] = Number(a) /\ Number(a \o b) = h[Len(b)]
           /\ \A i \in 1..Len(b) : h[i] = Read(h[i - 1], b[i])
  <1>. DEFINE m == Len(a)
              n == Len(b)
              both == a \o b
  <1>1. /\ m \in Nat /\ n \in Nat /\ both \in Seq(Nat) /\ Len(both) = m + n
        /\ \A i \in 1..m : both[i] = a[i]
        /\ \A i \in 1..n : both[m + i] = b[i]
    OBVIOUS
  <1>2. PICK g \in [0..m -> Nat] :
          g[0] = 0 /\ Number(a) = g[m] /\ \A i \in 1..m : g[i] = Read(g[i - 1], a[i])
    BY NumberSteps
  <1>. HIDE DEF m, n, both
  <1>3. PICK f \in [0..m + n -> Nat] :
          f[0] = 0 /\ Number(both) = f[m + n] /\ \A i \in 1..m + n : f[i] = Read(f[i - 1], both[i])
    <2>1. PICK f \in [0..Len(both) -> Nat] :
            /\ f[0] = 0 /\ Number(both) = f[Len(both)]
            /\ \A i \in 1..Len(both) : f[i] = Read(f[i - 1], both[i])
      BY <1>1, NumberSteps
    <2>. QED
      BY <1>1, <2>1
  <1>. DEFINE Good == {i \in 0..m : f[i] = g[i]}
  <1>4. 0 \in Good /\ Good \in SUBSET (0..m)
    BY <1>1, <1>2, <1>3
  <1>5. ASSUME NEW i \in Good, i < m PROVE i + 1 \in Good
    <2>1. /\ i \in 0..m /\ i + 1 \in 1..m /\ i + 1 \in 1..m + n /\ i + 1 \in 0..m
          /\ (i + 1) - 1 = i /\ f[i] = g[i]
      BY <1>1, <1>5
    <2>2. g[i + 1] = Read(g[i], a[i + 1]) /\ f[i + 1] = Read(f[i], both[i + 1])
      BY <1>2, <1>3, <2>1
    <2>. QED
      BY <1>1, <2>1, <2>2
  <1>6. m \in Good
    <2>1. m \in 0..m
      BY <1>1
    <2>. HIDE DEF Good
    <2>. QED
      BY <1>1, <1>4, <1>5, <2>1, NumbersUpTo
  <1>. DEFINE h == [i \in 0..n |-> f[m + i]]
  <1>7. h \in [0..n -> Nat] /\ h[0] = Number(a) /\ Number(both) = h[n]
    <2>1. \A i \in 0..n : m + i \in 0..m + n
      BY <1>1
    <2>2. 0 \in 0..n /\ n \in 0..n /\ m + 0 = m /\ f[m] = g[m]
      BY <1>1, <1>6
    <2>. QED
      BY <1>2, <1>3, <2>1, <2>2
  <1>8. ASSUME NEW i \in 1..n PROVE h[i] = Read(h[i - 1], b[i])
    <2>1. i \in 0..n /\ i - 1 \in 0..n /\ m + i \in 1..m + n /\ (m + i) - 1 = m + (i - 1)
      BY <1>1
    <2>2. f[m + i] = Read(f[(m + i) - 1], both[m + i])
      BY <1>3, <2>1
    <2>3. both[m + i] = b[i]
      BY <1>1
    <2>. QED
      BY <2>1, <2>2, <2>3
  <1>. QED
    BY <1>7, <1>8 DEF n, both
\* A character that is no digit does not count.
LEMMA NumberOfOther ==
  ASSUME NEW a \in Seq(Nat), NEW char \in Nat \ Digit
  PROVE  Number(a \o <<char>>) = Number(a)
  <1>1. <<char>> \in Seq(Nat) /\ Len(<<char>>) = 1 /\ 1 \in 1..1 /\ <<char>>[1] = char /\ 1 - 1 = 0
    OBVIOUS
  <1>2. PICK h \in [0..1 -> Nat] :
          /\ h[0] = Number(a) /\ Number(a \o <<char>>) = h[1]
          /\ \A i \in 1..1 : h[i] = Read(h[i - 1], <<char>>[i])
    <2>1. PICK h \in [0..Len(<<char>>) -> Nat] :
            /\ h[0] = Number(a) /\ Number(a \o <<char>>) = h[Len(<<char>>)]
            /\ \A i \in 1..Len(<<char>>) : h[i] = Read(h[i - 1], <<char>>[i])
      BY <1>1, JoinedSteps
    <2>. QED
      BY <1>1, <2>1
  <1>3. h[1] = Read(h[0], char)
    BY <1>1, <1>2
  <1>. QED
    BY <1>2, <1>3 DEF Read

\* What a text is worth behind another one only depends on the other's number.
LEMMA SameNumber ==
  ASSUME NEW a \in Seq(Nat), NEW other \in Seq(Nat), Number(a) = Number(other), NEW b \in Seq(Nat)
  PROVE  Number(a \o b) = Number(other \o b)
  <1>. DEFINE n == Len(b)
  <1>1. PICK g \in [0..n -> Nat] :
          /\ g[0] = Number(a) /\ Number(a \o b) = g[n]
          /\ \A i \in 1..n : g[i] = Read(g[i - 1], b[i])
    BY JoinedSteps
  <1>2. PICK h \in [0..n -> Nat] :
          /\ h[0] = Number(other) /\ Number(other \o b) = h[n]
          /\ \A i \in 1..n : h[i] = Read(h[i - 1], b[i])
    BY JoinedSteps
  <1>3. n \in Nat
    OBVIOUS
  <1>. HIDE DEF n
  <1>. DEFINE Good == {i \in 0..n : g[i] = h[i]}
  <1>4. 0 \in Good /\ Good \in SUBSET (0..n)
    BY <1>1, <1>2, <1>3
  <1>5. ASSUME NEW i \in Good, i < n PROVE i + 1 \in Good
    <2>1. i \in 0..n /\ i + 1 \in 1..n /\ i + 1 \in 0..n /\ (i + 1) - 1 = i /\ g[i] = h[i]
      BY <1>3, <1>5
    <2>2. g[i + 1] = Read(g[i], b[i + 1]) /\ h[i + 1] = Read(h[i], b[i + 1])
      BY <1>1, <1>2, <2>1
    <2>. QED
      BY <2>1, <2>2
  <1>6. n \in Good
    <2>1. n \in 0..n
      BY <1>3
    <2>. HIDE DEF Good
    <2>. QED
      BY <1>3, <1>4, <1>5, <2>1, NumbersUpTo
  <1>. QED
    BY <1>1, <1>2, <1>6

\* The number of a text with digits behind it.
LEMMA NumberOfBoth ==
  ASSUME NEW a \in Seq(Nat), NEW b \in Seq(Digit)
  PROVE  Number(a \o b) = Number(a) * TenTo(Len(b)) + Number(b)
  <1>. DEFINE n == Len(b)
              N == Number(a)
  <1>1. n \in Nat /\ b \in Seq(Nat) /\ \A i \in 1..n : b[i] \in Digit
    BY DigitsTyped
  <1>2. PICK g \in [0..n -> Nat] :
          g[0] = 0 /\ Number(b) = g[n] /\ \A i \in 1..n : g[i] = Read(g[i - 1], b[i])
    BY <1>1, NumberSteps
  <1>3. PICK h \in [0..n -> Nat] :
          /\ h[0] = N /\ Number(a \o b) = h[n]
          /\ \A i \in 1..n : h[i] = Read(h[i - 1], b[i])
    BY <1>1, JoinedSteps
  <1>4. N \in Nat
    BY NumberTyped
  <1>. HIDE DEF n, N
  <1>. DEFINE Good == {i \in 0..n : h[i] = N * TenTo(i) + g[i]}
  <1>5. 0 \in Good /\ Good \in SUBSET (0..n)
    <2>1. 0 \in 0..n /\ N * 1 + 0 = N
      BY <1>1, <1>4
    <2>. QED
      BY <1>2, <1>3, <2>1, TenToZero
  <1>6. ASSUME NEW i \in Good, i < n PROVE i + 1 \in Good
    <2>. DEFINE c == b[i + 1]
                T == TenTo(i)
    <2>1. /\ i \in 0..n /\ i \in Nat /\ i + 1 \in 1..n /\ i + 1 \in 0..n /\ (i + 1) - 1 = i
          /\ h[i] = N * T + g[i]
      BY <1>1, <1>6
    <2>2. g[i + 1] = 10 * g[i] + c /\ h[i + 1] = 10 * h[i] + c
      BY <1>1, <1>2, <1>3, <2>1 DEF Read
    <2>3. TenTo(i + 1) = 10 * T /\ T \in Nat
      BY <2>1, TenToNext
    <2>4. g[i] \in Nat /\ c \in Nat
      <3>1. c \in 0..9
        BY <1>1, <2>1 DEF Digit
      <3>. HIDE DEF c
      <3>2. c \in Nat
        BY <3>1
      <3>. QED
        BY <2>1, <3>2
    <2>5. ASSUME NEW x \in Nat, NEW y \in Nat, NEW z \in Nat, NEW w \in Nat
          PROVE  10 * (x * y + z) + w = x * (10 * y) + (10 * z + w)
      <3>1. 10 * (x * y) = x * (10 * y) /\ x * y \in Nat
        OBVIOUS
      <3>. DEFINE p == x * y
                  q == x * (10 * y)
      <3>2. p \in Nat /\ 10 * p = q
        BY <3>1
      <3>. HIDE DEF p, q
      <3>3. 10 * (p + z) + w = q + (10 * z + w)
        BY <3>2
      <3>. QED
        BY <3>3 DEF p, q
    <2>. HIDE DEF c, T
    <2>6. 10 * (N * T + g[i]) + c = N * (10 * T) + (10 * g[i] + c)
      BY <1>4, <2>3, <2>4, <2>5
    <2>. QED
      BY <2>1, <2>2, <2>3, <2>6
  <1>7. n \in Good
    <2>1. n \in 0..n
      BY <1>1
    <2>. HIDE DEF Good
    <2>. QED
      BY <1>1, <1>5, <1>6, <2>1, NumbersUpTo
  <1>. QED
    BY <1>2, <1>3, <1>7 DEF n, N

\* n digits make a number below 10 to the n, and zero only if all are zeros.
LEMMA NumberBelow ==
  ASSUME NEW b \in Seq(Digit)
  PROVE  /\ Number(b) < TenTo(Len(b))
         /\ Number(b) = 0 <=> \A i \in 1..Len(b) : b[i] = 0
  <1>. DEFINE n == Len(b)
  <1>1. n \in Nat /\ b \in Seq(Nat) /\ \A i \in 1..n : b[i] \in Digit
    BY DigitsTyped
  <1>2. PICK g \in [0..n -> Nat] :
          g[0] = 0 /\ Number(b) = g[n] /\ \A i \in 1..n : g[i] = Read(g[i - 1], b[i])
    BY <1>1, NumberSteps
  <1>. HIDE DEF n
  <1>. DEFINE Good == {i \in 0..n : g[i] < TenTo(i) /\ (g[i] = 0 <=> \A j \in 1..i : b[j] = 0)}
  <1>3. 0 \in Good /\ Good \in SUBSET (0..n)
    <2>1. 0 \in 0..n /\ 1..0 = {} /\ 0 < 1
      BY <1>1
    <2>. QED
      BY <1>2, <2>1, TenToZero
  <1>4. ASSUME NEW i \in Good, i < n PROVE i + 1 \in Good
    <2>1. /\ i \in 0..n /\ i \in Nat /\ i + 1 \in 1..n /\ i + 1 \in 0..n /\ (i + 1) - 1 = i
          /\ g[i] < TenTo(i) /\ (g[i] = 0 <=> \A j \in 1..i : b[j] = 0)
      BY <1>1, <1>4
    <2>2. g[i + 1] = 10 * g[i] + b[i + 1]
      BY <1>1, <1>2, <2>1 DEF Read
    <2>3. TenTo(i + 1) = 10 * TenTo(i) /\ TenTo(i) \in Nat
      BY <2>1, TenToNext
    <2>4. g[i] \in Nat /\ b[i + 1] \in 0..9
      BY <1>1, <2>1 DEF Digit
    <2>5. g[i + 1] < TenTo(i + 1)
      <3>1. \A x, p \in Nat : \A y \in 0..9 : x < p => 10 * x + y < 10 * p
        OBVIOUS
      <3>. HIDE DEF Good
      <3>. QED
        BY <2>1, <2>2, <2>3, <2>4, <3>1
    <2>6. g[i + 1] = 0 <=> g[i] = 0 /\ b[i + 1] = 0
      <3>1. \A x \in Nat : \A y \in 0..9 : 10 * x + y = 0 <=> x = 0 /\ y = 0
        OBVIOUS
      <3>. HIDE DEF Good
      <3>. QED
        BY <2>2, <2>4, <3>1
    <2>7. /\ \A j \in 1..i + 1 : j = i + 1 \/ j \in 1..i
          /\ \A j \in 1..i : j \in 1..i + 1
          /\ i + 1 \in 1..i + 1
      BY <2>1
    <2>8. g[i + 1] = 0 <=> \A j \in 1..i + 1 : b[j] = 0
      BY <2>1, <2>6, <2>7
    <2>. QED
      BY <2>1, <2>5, <2>8
  <1>5. n \in Good
    <2>1. n \in 0..n
      BY <1>1
    <2>. HIDE DEF Good
    <2>. QED
      BY <1>1, <1>3, <1>4, <2>1, NumbersUpTo
  <1>. QED
    BY <1>2, <1>5 DEF n

\* Quotient and remainder.
LEMMA Remainder ==
  ASSUME NEW q \in Nat, NEW r \in Nat, NEW d \in Nat, r < d
  PROVE  (q * d + r) % d = r
  OBVIOUS
-----------------------------------------------------------------------------
(* The text of a supply *)

LEMMA Least ==
  ASSUME NEW S \in SUBSET Nat, S # {}
  PROVE  \E m \in S : \A i \in S : m <= i
  <1>1. PICK m \in S : \A i \in S : ~(<<i, m>> \in OpToRel(<, Nat))
    BY NatLessThanWellFounded, WFMin
  <1>2. ASSUME NEW i \in S PROVE m <= i
    <2>1. i \in Nat /\ m \in Nat
      OBVIOUS
    <2>2. ~(<<i, m>> \in OpToRel(<, Nat))
      BY <1>1
    <2>3. ~(i < m)
      BY <2>1, <2>2 DEF OpToRel
    <2>. QED
      BY <2>1, <2>3
  <1>. QED
    BY <1>2

\* The end of a text.
LEMMA WithoutFront ==
  ASSUME NEW S, NEW s \in Seq(S), NEW n \in 0..Len(s)
  PROVE  /\ Without(s, n) \in Seq(S) /\ Len(Without(s, n)) = Len(s) - n
         /\ \A i \in 1..Len(s) - n : Without(s, n)[i] = s[n + i]
  <1>. DEFINE m == Len(s)
              w == SubSeq(s, n + 1, m)
  <1>1. m \in Nat /\ n \in Nat /\ n <= m /\ \A i \in n + 1..m : s[i] \in S
    OBVIOUS
  <1>2. w = [i \in 1..m - n |-> s[n + i]]
    BY <1>1
  <1>3. \A i \in 1..m - n : s[n + i] \in S
    BY <1>1
  <1>4. m - n \in Nat
    BY <1>1
  <1>. HIDE DEF w
  <1>5. w \in Seq(S) /\ Len(w) = m - n /\ \A i \in 1..m - n : w[i] = s[n + i]
    BY <1>2, <1>3, <1>4
  <1>. QED
    BY <1>5 DEF Without, w

\* The beginning of a text.
LEMMA OnlyFront ==
  ASSUME NEW S, NEW s \in Seq(S), NEW n \in 0..Len(s)
  PROVE  /\ SubSeq(s, 1, n) \in Seq(S) /\ Len(SubSeq(s, 1, n)) = n
         /\ \A i \in 1..n : SubSeq(s, 1, n)[i] = s[i]
  OBVIOUS

LEMMA JoinedTexts ==
  ASSUME NEW S, NEW a \in Seq(S), NEW b \in Seq(S)
  PROVE  /\ a \o b \in Seq(S) /\ Len(a \o b) = Len(a) + Len(b)
         /\ \A i \in 1..Len(a) : (a \o b)[i] = a[i]
         /\ \A i \in 1..Len(b) : (a \o b)[Len(a) + i] = b[i]
  OBVIOUS

Associates(a, b, c) == a \o (b \o c) = (a \o b) \o c

LEMMA JoinAssociates ==
  ASSUME NEW S, NEW a \in Seq(S), NEW b \in Seq(S), NEW c \in Seq(S)
  PROVE  Associates(a, b, c)
  BY DEF Associates

\* A text is what its first n characters and the others make.
LEMMA CutInTwo ==
  ASSUME NEW S, NEW s \in Seq(S), NEW n \in 0..Len(s)
  PROVE  s = SubSeq(s, 1, n) \o Without(s, n)
  <1>. DEFINE a == SubSeq(s, 1, n)
              b == Without(s, n)
              m == Len(s)
              both == a \o b
  <1>1. m \in Nat /\ n \in Nat /\ n <= m
    OBVIOUS
  <1>2. a \in Seq(S) /\ Len(a) = n /\ \A i \in 1..n : a[i] = s[i]
    BY OnlyFront
  <1>3. b \in Seq(S) /\ Len(b) = m - n /\ \A i \in 1..m - n : b[i] = s[n + i]
    BY WithoutFront
  <1>. HIDE DEF a, b
  <1>4. /\ both \in Seq(S) /\ Len(both) = n + (m - n)
        /\ \A i \in 1..n : both[i] = a[i]
        /\ \A i \in 1..m - n : both[n + i] = b[i]
    <2>1. /\ both \in Seq(S) /\ Len(both) = Len(a) + Len(b)
          /\ \A i \in 1..Len(a) : both[i] = a[i]
          /\ \A i \in 1..Len(b) : both[Len(a) + i] = b[i]
      BY <1>2, <1>3, JoinedTexts
    <2>. HIDE DEF both
    <2>. QED
      BY <1>2, <1>3, <2>1
  <1>. HIDE DEF both, m
  <1>5. ASSUME NEW i \in 1..m PROVE both[i] = s[i]
    <2>1. CASE i <= n
      <3>1. i \in 1..n
        BY <1>1, <2>1
      <3>. QED
        BY <1>2, <1>4, <3>1
    <2>2. CASE ~(i <= n)
      <3>1. i - n \in 1..m - n /\ n + (i - n) = i
        BY <1>1, <2>2
      <3>. QED
        BY <1>3, <1>4, <3>1
    <2>. QED
      BY <2>1, <2>2
  <1>6. Len(both) = m /\ Len(s) = m
    BY <1>1, <1>4 DEF m
  <1>7. both = s
    BY <1>4, <1>5, <1>6
  <1>. QED
    BY <1>7 DEF both, a, b

IsSplit(t, w, f) ==
  /\ w \in Seq(Nat) /\ f \in Seq(Nat) /\ Len(w) \in Nat /\ Len(f) \in Nat
  /\ t = (w \o <<Dot>>) \o f /\ Len(t) = Len(w) + 1 + Len(f)
  /\ \A i \in 1..Len(w) : t[i] = w[i] /\ w[i] # Dot
  /\ t[Len(w) + 1] = Dot
  /\ \A i \in 1..Len(f) : t[Len(w) + 1 + i] = f[i]

\* The two parts of a supply with a dot.
LEMMA SplitAtDot ==
  ASSUME NEW t \in Seq(Nat), Dots(t) # {}
  PROVE  IsSplit(t, Whole(t), Fractional(t))
  <1>. DEFINE k == CHOOSE i \in Dots(t) : \A j \in Dots(t) : i <= j
              w == Whole(t)
              f == Fractional(t)
              n == Len(t)
  <1>1. n \in Nat /\ DOMAIN t = 1..n /\ \A i \in 1..n : t[i] \in Nat
    OBVIOUS
  <1>2. k \in Dots(t) /\ \A j \in Dots(t) : k <= j
    <2>1. Dots(t) \in SUBSET Nat
      BY <1>1 DEF Dots
    <2>. QED
      BY <2>1, Least
  <1>. HIDE DEF k
  <1>3. k \in 1..n /\ t[k] = Dot /\ \A i \in 1..n : i < k => t[i] # Dot
    BY <1>1, <1>2 DEF Dots
  <1>. HIDE DEF n
  <1>4. k - 1 \in 0..n /\ k \in 0..n /\ k - 1 \in Nat /\ k \in Nat /\ n - k \in Nat /\ (k - 1) + 1 = k
    BY <1>1, <1>3
  <1>5. w = SubSeq(t, 1, k - 1)
    BY DEF Whole, k
  <1>. HIDE DEF w
  <1>6. w \in Seq(Nat) /\ Len(w) = k - 1 /\ \A i \in 1..k - 1 : w[i] = t[i]
    BY <1>4, <1>5, OnlyFront DEF n
  <1>7. f = Without(t, k)
    BY <1>4, <1>6 DEF Fractional, w
  <1>. HIDE DEF f
  <1>8. f \in Seq(Nat) /\ Len(f) = n - k /\ \A i \in 1..n - k : f[i] = t[k + i]
    BY <1>4, <1>7, WithoutFront DEF n
  <1>9. t = (w \o <<Dot>>) \o f
    <2>. DEFINE a == SubSeq(t, 1, k)
    <2>1. t = a \o f
      BY <1>4, <1>7, CutInTwo DEF n
    <2>2. a \in Seq(Nat) /\ Len(a) = k /\ \A i \in 1..k : a[i] = t[i]
      BY <1>4, OnlyFront DEF n
    <2>. HIDE DEF a
    <2>. DEFINE b == w \o <<Dot>>
    <2>3. <<Dot>> \in Seq(Nat) /\ Len(<<Dot>>) = 1 /\ <<Dot>>[1] = Dot
      BY DEF Dot
    <2>4. b \in Seq(Nat) /\ Len(b) = k /\ (\A i \in 1..k - 1 : b[i] = w[i]) /\ b[k] = Dot
      <3>1. /\ b \in Seq(Nat) /\ Len(b) = Len(w) + 1
            /\ \A i \in 1..Len(w) : b[i] = w[i]
            /\ \A i \in 1..1 : b[Len(w) + i] = <<Dot>>[i]
        BY <1>6, <2>3, JoinedTexts
      <3>. HIDE DEF b
      <3>2. 1 \in 1..1
        OBVIOUS
      <3>3. b[Len(w) + 1] = Dot
        BY <2>3, <3>1, <3>2
      <3>. QED
        BY <1>4, <1>6, <3>1, <3>3
    <2>. HIDE DEF b
    <2>5. \A i \in 1..k : a[i] = b[i]
      <3>1. \A i \in 1..k : i = k \/ i \in 1..k - 1
        BY <1>4
      <3>. QED
        BY <1>3, <1>6, <2>2, <2>4, <3>1
    <2>6. a = b
      BY <2>2, <2>4, <2>5
    <2>. QED
      BY <2>1, <2>6 DEF b
  <1>10. n = Len(w) + 1 + Len(f)
    BY <1>1, <1>4, <1>6, <1>8
  <1>11. \A i \in 1..k - 1 : i \in 1..n /\ i < k
    BY <1>1, <1>4
  <1>12. /\ Len(w) \in Nat /\ Len(f) \in Nat /\ Len(w) + 1 = k
         /\ \A i \in 1..Len(w) : t[i] = w[i] /\ w[i] # Dot
         /\ \A i \in 1..Len(f) : t[k + i] = f[i]
    BY <1>3, <1>4, <1>6, <1>8, <1>11
  <1>. QED
    BY <1>3, <1>6, <1>8, <1>9, <1>10, <1>12 DEF IsSplit, w, f, n

\* A supply without a dot is whole.
LEMMA NothingToSplit ==
  ASSUME NEW t \in Seq(Nat), Dots(t) = {}
  PROVE  Whole(t) = t /\ Fractional(t) = <<>>
  <1>1. Whole(t) = t
    BY DEF Whole
  <1>2. SubSeq(t, (Len(t) + 1) + 1, Len(t)) = <<>>
    OBVIOUS
  <1>. QED
    BY <1>1, <1>2 DEF Fractional, Without
LEMMA DecimalDigits ==
  ASSUME NEW s \in Seq(Nat)
  PROVE  /\ IsDecimalDigits(s) <=> \A i \in 1..Len(s) : s[i] \in Digit
         /\ IsDecimalDigits(s) => s \in Seq(Digit) /\ Dots(s) = {}
  <1>1. DOMAIN s = 1..Len(s) /\ Len(s) \in Nat
    OBVIOUS
  <1>2. IsDecimalDigits(s) <=> \A i \in 1..Len(s) : s[i] \in Digit
    BY <1>1 DEF IsDecimalDigits, ToSet
  <1>3. ASSUME \A i \in 1..Len(s) : s[i] \in Digit PROVE s \in Seq(Digit)
    BY <1>3
  <1>4. ASSUME \A i \in 1..Len(s) : s[i] \in Digit PROVE Dots(s) = {}
    BY <1>1, <1>4 DEF Dots, Digit, Dot
  <1>. QED
    BY <1>2, <1>3, <1>4

NumeralParts(t, w, f) ==
  /\ w \in Seq(Digit) /\ f \in Seq(Digit)
  /\ DigitsBehindDot(t) = Len(f) /\ Number(t) = Number(w \o f)

\* A numeral is what the code takes for one, and its number that of the digits
\* before and behind the dot.
LEMMA Numerals ==
  ASSUME NEW t \in Seq(Nat), t # <<>>
  PROVE  LET w == Whole(t)
             f == Fractional(t)
         IN  /\ IsNumeral(t) <=> /\ IsDecimalDigits(w) /\ IsDecimalDigits(f)
                                 /\ ~(w = <<>> /\ f = <<>>)
             /\ IsNumeral(t) => NumeralParts(t, w, f)
  <1>. DEFINE w == Whole(t)
              f == Fractional(t)
              m == Len(w)
              k == Len(f)
  <1>1. DOMAIN t = 1..Len(t) /\ Len(t) \in Nat \ {0} /\ 1 \in DOMAIN t
    OBVIOUS
  <1>2. CASE Dots(t) = {}
    <2>1. w = t /\ f = <<>>
      BY <1>2, NothingToSplit
    <2>2. <<>> \in Seq(Nat) /\ <<>> \in Seq(Digit) /\ Len(<<>>) = 0 /\ t \o <<>> = t
      OBVIOUS
    <2>3. IsDecimalDigits(<<>>)
      BY <2>2 DEF IsDecimalDigits, ToSet
    <2>4. IsDecimalDigits(t) <=> \A i \in 1..Len(t) : t[i] \in Digit
      BY DecimalDigits
    <2>5. \A i \in 1..Len(t) : t[i] # Dot
      BY <1>1, <1>2 DEF Dots
    <2>6. IsNumeral(t) <=> \A i \in 1..Len(t) : t[i] \in Digit
      <3>1. Dots(t) # DOMAIN t
        BY <1>1, <1>2
      <3>. QED
        BY <1>1, <1>2, <2>5, <3>1 DEF IsNumeral
    <2>7. DigitsBehindDot(t) = 0
      BY <1>2 DEF DigitsBehindDot
    <2>8. IsDecimalDigits(t) => t \in Seq(Digit)
      BY DecimalDigits
    <2>. HIDE DEF w, f
    <2>. QED
      BY <2>1, <2>2, <2>3, <2>4, <2>6, <2>7, <2>8 DEF NumeralParts, w, f
  <1>3. CASE Dots(t) # {}
    <2>. HIDE DEF w, f
    <2>1. IsSplit(t, w, f)
      BY <1>3, SplitAtDot DEF w, f
    <2>2. /\ w \in Seq(Nat) /\ f \in Seq(Nat) /\ m \in Nat /\ k \in Nat
          /\ t = (w \o <<Dot>>) \o f /\ Len(t) = m + 1 + k
          /\ \A i \in 1..m : t[i] = w[i] /\ w[i] # Dot
          /\ t[m + 1] = Dot
          /\ \A i \in 1..k : t[m + 1 + i] = f[i]
      BY <2>1 DEF IsSplit
    <2>3. /\ IsDecimalDigits(w) <=> \A i \in 1..m : w[i] \in Digit
          /\ IsDecimalDigits(f) <=> \A i \in 1..k : f[i] \in Digit
          /\ IsDecimalDigits(w) => w \in Seq(Digit)
          /\ IsDecimalDigits(f) => f \in Seq(Digit)
      BY <2>2, DecimalDigits
    <2>4. (w = <<>> <=> m = 0) /\ (f = <<>> <=> k = 0)
      BY <2>2
    <2>. HIDE DEF m, k
    <2>5. /\ m + 1 \in DOMAIN t /\ m + 1 \in Dots(t)
          /\ \A i \in 1..m : i \in DOMAIN t /\ i # m + 1
          /\ \A i \in 1..k : m + 1 + i \in DOMAIN t /\ m + 1 + i # m + 1
          /\ \A i \in DOMAIN t : i \in 1..m \/ i = m + 1 \/ \E j \in 1..k : i = m + 1 + j
      <3>1. m + 1 \in DOMAIN t /\ m + 1 \in Dots(t)
        BY <1>1, <2>2 DEF Dots
      <3>2. /\ \A i \in 1..m : i \in DOMAIN t /\ i # m + 1
            /\ \A i \in 1..k : m + 1 + i \in DOMAIN t /\ m + 1 + i # m + 1
        BY <1>1, <2>2
      <3>3. ASSUME NEW i \in DOMAIN t, i \notin 1..m, i # m + 1
            PROVE  \E j \in 1..k : i = m + 1 + j
        <4>1. m \in Nat /\ k \in Nat /\ i \in 1..m + 1 + k
          BY <1>1, <2>2
        <4>2. i - (m + 1) \in 1..k /\ i = m + 1 + (i - (m + 1))
          BY <3>3, <4>1
        <4>. QED
          BY <4>2
      <3>. QED
        BY <3>1, <3>2, <3>3
    <2>6. ASSUME IsNumeral(t)
          PROVE  IsDecimalDigits(w) /\ IsDecimalDigits(f) /\ ~(w = <<>> /\ f = <<>>)
      <3>1. ASSUME NEW i \in DOMAIN t, i # m + 1 PROVE t[i] \in Digit
        <4>1. t[i] \in Digit \cup {Dot}
          BY <2>6 DEF IsNumeral
        <4>2. t[i] # Dot
          BY <2>5, <2>6, <3>1 DEF IsNumeral, Dots
        <4>. QED
          BY <4>1, <4>2
      <3>2. \A i \in 1..m : w[i] \in Digit
        BY <2>2, <2>5, <3>1
      <3>3. \A i \in 1..k : f[i] \in Digit
        BY <2>2, <2>5, <3>1
      <3>4. ASSUME m = 0, k = 0 PROVE FALSE
        <4>1. Dots(t) = {m + 1} /\ DOMAIN t = {m + 1}
          BY <1>1, <2>2, <2>5, <3>4 DEF Dots
        <4>. QED
          BY <2>6, <4>1 DEF IsNumeral
      <3>. QED
        BY <2>3, <2>4, <3>2, <3>3, <3>4
    <2>7. ASSUME IsDecimalDigits(w), IsDecimalDigits(f), ~(w = <<>> /\ f = <<>>)
          PROVE  IsNumeral(t) /\ NumeralParts(t, w, f)
      <3>1. /\ \A i \in 1..m : t[i] \in Digit
            /\ \A i \in 1..k : t[m + 1 + i] \in Digit
        BY <2>2, <2>3, <2>7
      <3>2. \A i \in DOMAIN t : t[i] \in Digit \/ i = m + 1
        BY <2>5, <3>1
      <3>3. Dots(t) = {m + 1}
        BY <2>5, <3>2 DEF Dots, Digit, Dot
      <3>4. Dots(t) # DOMAIN t
        <4>1. CASE m # 0
          <5>1. 1 \in 1..m
            BY <2>2, <4>1
          <5>. QED
            BY <2>5, <3>3, <5>1
        <4>2. CASE k # 0
          <5>1. 1 \in 1..k
            BY <2>2, <4>2
          <5>. QED
            BY <2>5, <3>3, <5>1
        <4>. QED
          BY <2>4, <2>7, <4>1, <4>2
      <3>5. IsNumeral(t)
        BY <2>2, <3>2, <3>3, <3>4 DEF IsNumeral
      <3>6. DigitsBehindDot(t) = k
        <4>1. (CHOOSE i \in Dots(t) : TRUE) = m + 1
          BY <3>3
        <4>2. DigitsBehindDot(t) = Len(t) - (m + 1)
          BY <3>3, <4>1 DEF DigitsBehindDot
        <4>. QED
          BY <2>2, <4>2
      <3>7. Number(t) = Number(w \o f)
        <4>1. Dot \in Nat \ Digit
          BY DEF Dot, Digit
        <4>2. Number(w \o <<Dot>>) = Number(w)
          BY <2>2, <4>1, NumberOfOther
        <4>3. w \o <<Dot>> \in Seq(Nat)
          BY <2>2, <4>1
        <4>. QED
          BY <2>2, <4>2, <4>3, SameNumber
      <3>. QED
        BY <2>3, <2>7, <3>5, <3>6, <3>7 DEF NumeralParts, k
    <2>. QED
      BY <2>6, <2>7 DEF w, f
  <1>. QED
    BY <1>2, <1>3
\* The result's leading zeros are dropped, which keeps its number.
LEMMA TrimKeeps ==
  ASSUME NEW D \in Seq(Digit)
  PROVE  /\ Number(TrimZerosLeft(D)) = Number(D)
         /\ Len(TrimZerosLeft(D)) > 1 => Head(TrimZerosLeft(D)) # 0
  <1>. DEFINE significant == {i \in DOMAIN D : D[i] # 0}
              n == Len(D)
  <1>1. n \in Nat /\ DOMAIN D = 1..n
    OBVIOUS
  <1>2. CASE significant = {}
    <2>1. TrimZerosLeft(D) = <<0>>
      BY <1>2 DEF TrimZerosLeft
    <2>2. \A i \in 1..n : D[i] = 0
      BY <1>1, <1>2
    <2>3. Number(D) = 0
      BY <2>2, NumberBelow
    <2>4. <<0>> \in Seq(Digit) /\ Len(<<0>>) = 1 /\ <<0>>[1] = 0
      BY DEF Digit
    <2>5. Number(<<0>>) = 0
      <3>1. \A i \in 1..Len(<<0>>) : <<0>>[i] = 0
        BY <2>4
      <3>. QED
        BY <2>4, <3>1, NumberBelow
    <2>. QED
      BY <2>1, <2>3, <2>4, <2>5
  <1>3. CASE significant # {}
    <2>. DEFINE k == CHOOSE i \in significant : \A j \in significant : i <= j
                a == SubSeq(D, 1, k - 1)
                b == Without(D, k - 1)
    <2>1. k \in significant /\ \A j \in significant : k <= j
      <3>1. significant \in SUBSET Nat
        BY <1>1
      <3>. HIDE DEF significant
      <3>. QED
        BY <1>3, <3>1, Least
    <2>2. TrimZerosLeft(D) = b
      BY <1>3 DEF TrimZerosLeft
    <2>. HIDE DEF k, n
    <2>3. k \in 1..n /\ D[k] # 0 /\ \A i \in 1..n : i < k => D[i] = 0
      BY <1>1, <2>1
    <2>4. k - 1 \in 0..n /\ k - 1 \in Nat /\ n - (k - 1) >= 1 /\ (k - 1) + 1 = k
      BY <1>1, <2>3
    <2>5. a \in Seq(Digit) /\ Len(a) = k - 1 /\ \A i \in 1..k - 1 : a[i] = D[i]
      BY <2>4, OnlyFront DEF n
    <2>6. /\ b \in Seq(Digit) /\ Len(b) = n - (k - 1)
          /\ \A i \in 1..n - (k - 1) : b[i] = D[(k - 1) + i]
      BY <2>4, WithoutFront DEF n
    <2>7. D = a \o b
      BY <2>4, CutInTwo DEF n
    <2>. HIDE DEF a, b
    <2>8. Number(a) = 0
      <3>1. \A i \in 1..Len(a) : a[i] = 0
        <4>1. \A i \in 1..k - 1 : i \in 1..n /\ i < k
          BY <1>1, <2>4
        <4>. QED
          BY <2>3, <2>5, <4>1
      <3>. QED
        BY <2>5, <3>1, NumberBelow
    <2>9. Number(D) = Number(b)
      <3>1. a \in Seq(Nat) /\ b \in Seq(Nat)
        BY <2>5, <2>6, DigitsTyped
      <3>2. Number(D) = Number(a) * TenTo(Len(b)) + Number(b)
        BY <2>6, <2>7, <3>1, NumberOfBoth
      <3>3. TenTo(Len(b)) \in Nat /\ Number(b) \in Nat
        BY <2>6, <3>1, TenToNext, NumberTyped
      <3>. QED
        BY <2>8, <3>2, <3>3
    <2>10. Head(b) # 0
      <3>1. 1 \in 1..n - (k - 1)
        BY <1>1, <2>4
      <3>2. b[1] = D[k]
        BY <2>4, <2>6, <3>1
      <3>3. Head(b) = b[1]
        BY <2>6
      <3>. QED
        BY <2>3, <3>2, <3>3
    <2>. QED
      BY <2>2, <2>9, <2>10
  <1>. QED
    BY <1>2, <1>3

Divides(h, p, r, e) ==
  /\ ((h * p + r) * e) % (p * e) = 0 <=> r = 0
  /\ r = 0 => (h * p + r) * e = h * (p * e)

LEMMA ScaledRemainder ==
  ASSUME NEW h \in Nat, NEW p \in Nat, NEW r \in Nat, NEW e \in Nat \ {0}, r < p
  PROVE  Divides(h, p, r, e)
  <1>. DEFINE d == p * e
              x == r * e
  <1>1. (h * p + r) * e = h * d + x
    OBVIOUS
  <1>2. d \in Nat /\ x \in Nat /\ x < d /\ (x = 0 <=> r = 0)
    OBVIOUS
  <1>. HIDE DEF d, x
  <1>3. (h * d + x) % d = x
    BY <1>2, Remainder
  <1>4. h * d + 0 = h * d
    BY <1>2
  <1>. QED
    BY <1>1, <1>2, <1>3, <1>4 DEF d, Divides

\* Scaling by the decimals is exact, and refused when it cannot be.
LEMMA Scaling ==
  ASSUME NEW w \in Seq(Digit), NEW f \in Seq(Digit), NEW d \in Nat
  PROVE  LET units == Number(w \o f) * TenTo(d)
             scaled == w \o ScaleFractional(f, d)
         IN  /\ ScalesTo(f, d) <=> units % TenTo(Len(f)) = 0
             /\ ScalesTo(f, d) => /\ scaled \in Seq(Digit)
                                  /\ Number(scaled) * TenTo(Len(f)) = units
  <1>. DEFINE k == Len(f)
              N == Number(w \o f)
              scaled == w \o ScaleFractional(f, d)
  <1>1. k \in Nat /\ DOMAIN f = 1..k
    OBVIOUS
  <1>2. w \in Seq(Nat) /\ f \in Seq(Nat)
    BY DigitsTyped
  <1>3. w \o f \in Seq(Digit) /\ w \o f \in Seq(Nat)
    BY <1>2
  <1>4. CASE k > d
    <2>. DEFINE y == SubSeq(f, 1, d)
                z == Without(f, d)
                H == Number(w \o y)
                P == TenTo(k - d)
                E == TenTo(d)
    <2>1. d \in 0..k /\ k - d \in Nat /\ d + (k - d) = k
      BY <1>1, <1>4
    <2>2. y \in Seq(Digit) /\ z \in Seq(Digit) /\ Len(z) = k - d /\ f = y \o z
      BY <2>1, OnlyFront, WithoutFront, CutInTwo
    <2>3. scaled = w \o y
      BY <1>4 DEF ScaleFractional
    <2>4. ScalesTo(f, d) <=> Number(z) = 0
      <3>1. ScalesTo(f, d) <=> ToSet(z) \subseteq {0}
        BY DEF ScalesTo
      <3>. HIDE DEF z
      <3>2. DOMAIN z = 1..Len(z)
        BY <2>2
      <3>3. ToSet(z) \subseteq {0} <=> \A i \in 1..Len(z) : z[i] = 0
        BY <3>2 DEF ToSet
      <3>. QED
        BY <2>2, <3>1, <3>3, NumberBelow
    <2>. HIDE DEF y, z
    <2>5. w \o y \in Seq(Digit) /\ w \o y \in Seq(Nat) /\ w \o f = (w \o y) \o z
      <3>1. w \o y \in Seq(Digit)
        BY <2>2
      <3>2. w \o y \in Seq(Nat)
        BY <3>1, DigitsTyped
      <3>3. w \o (y \o z) = (w \o y) \o z
        <4>1. Associates(w, y, z)
          BY <2>2, JoinAssociates
        <4>. QED
          BY <4>1 DEF Associates
      <3>. QED
        BY <2>2, <3>1, <3>2, <3>3
    <2>6. N = H * P + Number(z)
      BY <2>2, <2>5, NumberOfBoth
    <2>7. H \in Nat /\ P \in Nat /\ E \in Nat \ {0} /\ Number(z) \in Nat /\ Number(z) < P
      <3>1. z \in Seq(Nat)
        BY <2>2, DigitsTyped
      <3>. QED
        BY <2>1, <2>2, <2>5, <3>1, NumberTyped, TenToSum, NumberBelow
    <2>8. TenTo(k) = P * E
      <3>1. TenTo(d + (k - d)) = E * P
        BY <2>1, TenToSum
      <3>2. E * P = P * E
        BY <2>7
      <3>. QED
        BY <2>1, <3>1, <3>2
    <2>. HIDE DEF N, H, P, E, k, scaled
    <2>9. /\ (N * E) % TenTo(k) = 0 <=> Number(z) = 0
          /\ Number(z) = 0 => N * E = H * TenTo(k)
      <3>. DEFINE r == Number(z)
      <3>1. r \in Nat /\ r < P /\ H \in Nat /\ P \in Nat /\ E \in Nat \ {0}
        BY <2>7
      <3>. HIDE DEF r
      <3>2. Divides(H, P, r, E)
        BY <3>1, ScaledRemainder
      <3>3. N = H * P + r
        BY <2>6 DEF r
      <3>. QED
        BY <2>8, <3>2, <3>3 DEF r, Divides
    <2>. QED
      BY <2>3, <2>4, <2>5, <2>9 DEF N, H, E, k, scaled
  <1>5. CASE ~(k > d)
    <2>. DEFINE zeros == Zeros(d - k)
                Q == TenTo(d - k)
                K == TenTo(k)
    <2>1. d - k \in Nat /\ (d - k) + k = d
      BY <1>1, <1>5
    <2>2. ScalesTo(f, d)
      <3>1. SubSeq(f, d + 1, k) = <<>>
        BY <1>1, <1>5
      <3>. QED
        BY <3>1 DEF ScalesTo, Without, ToSet
    <2>3. scaled = w \o (f \o zeros)
      BY <1>5 DEF ScaleFractional
    <2>4. zeros \in Seq(Digit) /\ Len(zeros) = d - k /\ \A i \in 1..d - k : zeros[i] = 0
      BY <2>1 DEF Zeros, Digit
    <2>. HIDE DEF zeros
    <2>5. Number(zeros) = 0
      BY <2>4, NumberBelow
    <2>6. w \o (f \o zeros) = (w \o f) \o zeros /\ (w \o f) \o zeros \in Seq(Digit)
      <3>1. Associates(w, f, zeros)
        BY <2>4, JoinAssociates
      <3>2. (w \o f) \o zeros \in Seq(Digit)
        BY <1>3, <2>4, JoinedTexts
      <3>. QED
        BY <3>1, <3>2 DEF Associates
    <2>7. N \in Nat /\ Q \in Nat /\ K \in Nat \ {0}
      BY <1>1, <1>3, <2>1, NumberTyped, TenToSum
    <2>8. Number(scaled) = N * Q
      <3>1. Number((w \o f) \o zeros) = N * Q + 0
        BY <1>3, <2>4, <2>5, NumberOfBoth
      <3>. HIDE DEF N, Q
      <3>2. N * Q + 0 = N * Q
        BY <2>7
      <3>. QED
        BY <2>3, <2>6, <3>1, <3>2
    <2>9. TenTo(d) = Q * K
      <3>1. TenTo((d - k) + k) = Q * K
        BY <1>1, <2>1, TenToSum
      <3>. QED
        BY <2>1, <3>1
    <2>. HIDE DEF N, Q, K, k, scaled
    <2>10. (N * Q) * K = N * (Q * K)
      BY <2>7
    <2>11. ((N * Q) * K) % K = 0
      <3>1. N * Q \in Nat /\ 0 < K /\ (N * Q) * K + 0 = (N * Q) * K
        BY <2>7
      <3>. QED
        BY <2>7, <3>1, Remainder
    <2>12. (N * TenTo(d)) % K = 0 /\ Number(scaled) * K = N * TenTo(d)
      BY <2>8, <2>9, <2>10, <2>11
    <2>13. scaled \in Seq(Digit)
      BY <2>3, <2>6
    <2>. QED
      BY <2>2, <2>12, <2>13 DEF N, K, k, scaled
  <1>. QED
    BY <1>4, <1>5
\* The conversion of any text for any number of decimals is right.
THEOREM ConversionIsExact ==
  ASSUME NEW text \in Seq(Nat), NEW decimals \in Int
  PROVE  ExactFor(text, decimals)
  <1>. DEFINE c == ConvertTotalSupply(text, decimals)
              t == NormalizeTotalSupplyInput(text)
              w == Whole(t)
              f == Fractional(t)
              units == Number(t) * TenTo(decimals)
              unit == TenTo(DigitsBehindDot(t))
              Right == /\ c.ok
                       /\ Number(c.digits) * unit = units
                       /\ Len(c.digits) > 1 => Head(c.digits) # 0
              Possible == decimals \in 0..MaxTokenDecimals /\ IsNumeral(t) /\ units % unit = 0
  <1>1. t = Unsigned(text) /\ t \in Seq(Nat)
    BY DEF NormalizeTotalSupplyInput, Unsigned
  <1>2. ExactFor(text, decimals) <=> IF Possible THEN Right ELSE ~c.ok
    BY <1>1 DEF ExactFor
  <1>3. Failure.ok = FALSE
    BY DEF Failure
  <1>4. CASE decimals \notin 0..MaxTokenDecimals
    BY <1>2, <1>3, <1>4 DEF ConvertTotalSupply
  <1>5. CASE decimals \in 0..MaxTokenDecimals
    <2>1. decimals \in Nat
      BY <1>5, SupplyAssumption
    <2>. DEFINE Minused == text # <<>> /\ Head(text) = Minus
                Exponential == Exponent \in ToSet(text)
    <2>2. IsNumeral(t) => ~Minused /\ ~Exponential
      <3>. SUFFICES ASSUME IsNumeral(t) PROVE ~Minused /\ ~Exponential
        OBVIOUS
      <3>1. \A i \in DOMAIN t : t[i] # Minus /\ t[i] # Exponent
        BY DEF IsNumeral, Digit, Dot, Minus, Exponent
      <3>2. /\ DOMAIN text = 1..Len(text) /\ Len(text) \in Nat
            /\ text # <<>> => Head(text) = text[1] /\ 1 \in DOMAIN text
        OBVIOUS
      <3>3. CASE text # <<>> /\ Head(text) = Plus
        <4>1. t = Tail(text)
          BY <3>3 DEF NormalizeTotalSupplyInput
        <4>2. ASSUME NEW i \in DOMAIN text, i # 1 PROVE i - 1 \in DOMAIN t /\ t[i - 1] = text[i]
          BY <3>2, <3>3, <4>1, <4>2
        <4>3. text[1] = Plus
          BY <3>2, <3>3
        <4>. HIDE DEF t
        <4>4. \A i \in DOMAIN text : text[i] # Exponent
          BY <3>1, <4>2, <4>3 DEF Plus, Exponent
        <4>. QED
          BY <3>3, <4>4 DEF ToSet, Plus, Minus
      <3>4. CASE ~(text # <<>> /\ Head(text) = Plus)
        <4>1. t = text
          BY <3>4 DEF NormalizeTotalSupplyInput
        <4>. HIDE DEF t
        <4>. QED
          BY <3>1, <3>2, <4>1 DEF ToSet
      <3>. QED
        BY <3>3, <3>4
    <2>3. CASE t = <<>>
      <3>1. Dots(<<>>) = {} /\ DOMAIN <<>> = {}
        BY DEF Dots
      <3>2. IsNumeral(t)
        BY <2>3, <3>1 DEF IsNumeral
      <3>3. c = [ok |-> TRUE, digits |-> <<0>>]
        BY <1>5, <2>2, <2>3, <3>2 DEF ConvertTotalSupply
      <3>4. units = 0 /\ unit = 1
        <4>1. <<>> \in Seq(Digit) /\ \A i \in 1..Len(<<>>) : <<>>[i] = 0
          OBVIOUS
        <4>2. Number(<<>>) = 0
          BY <4>1, NumberBelow
        <4>3. DigitsBehindDot(<<>>) = 0
          BY <3>1 DEF DigitsBehindDot
        <4>4. TenTo(decimals) \in Nat
          BY <2>1, TenToNext
        <4>. QED
          BY <2>3, <4>2, <4>3, <4>4, TenToZero
      <3>5. Number(<<0>>) = 0
        <4>1. <<0>> \in Seq(Digit) /\ \A i \in 1..Len(<<0>>) : <<0>>[i] = 0
          BY DEF Digit
        <4>. QED
          BY <4>1, NumberBelow
      <3>6. Len(<<0>>) = 1 /\ 0 * 1 = 0
        OBVIOUS
      <3>. HIDE DEF c, units, unit
      <3>7. Right
        BY <3>3, <3>4, <3>5, <3>6
      <3>8. Possible
        <4>1. 0 % 1 = 0
          OBVIOUS
        <4>. QED
          BY <1>5, <3>2, <3>4, <4>1
      <3>. QED
        BY <1>2, <3>7, <3>8
    <2>4. CASE t # <<>>
      <3>. DEFINE whole == IsDecimalDigits(w)
                  part == IsDecimalDigits(f)
                  scaled == w \o ScaleFractional(f, decimals)
                  Accept == /\ ~Minused /\ ~Exponential
                            /\ ~(Dots(f) # {} \/ (w = <<>> /\ f = <<>>))
                            /\ whole /\ part /\ ScalesTo(f, decimals)
      <3>1. c = IF Accept THEN [ok |-> TRUE, digits |-> TrimZerosLeft(scaled)] ELSE Failure
        BY <1>5, <2>4 DEF ConvertTotalSupply
      <3>2. f \in Seq(Nat)
        <4>1. <<>> \in Seq(Nat)
          OBVIOUS
        <4>. HIDE DEF t
        <4>. QED
          BY <1>1, <4>1, SplitAtDot, NothingToSplit DEF IsSplit
      <3>3. part => Dots(f) = {}
        <4>. HIDE DEF f
        <4>. QED
          BY <3>2, DecimalDigits
      <3>4. /\ IsNumeral(t) <=> whole /\ part /\ ~(w = <<>> /\ f = <<>>)
            /\ IsNumeral(t) => NumeralParts(t, w, f)
        <4>. HIDE DEF t
        <4>. QED
          BY <1>1, <2>4, Numerals
      <3>5. ASSUME IsNumeral(t)
            PROVE  /\ ScalesTo(f, decimals) <=> units % unit = 0
                   /\ ScalesTo(f, decimals) => scaled \in Seq(Digit) /\ Number(scaled) * unit = units
        <4>1. NumeralParts(t, w, f)
          BY <3>4, <3>5
        <4>. HIDE DEF t, w, f
        <4>2. /\ w \in Seq(Digit) /\ f \in Seq(Digit)
              /\ DigitsBehindDot(t) = Len(f) /\ Number(t) = Number(w \o f)
          BY <4>1 DEF NumeralParts
        <4>. QED
          BY <2>1, <4>2, Scaling
      <3>. HIDE DEF t, w, f, c, units, unit, scaled, whole, part, Minused, Exponential
      <3>6. Accept <=> Possible
        BY <1>5, <2>2, <3>3, <3>4, <3>5
      <3>7. ASSUME Accept PROVE Right
        <4>1. IsNumeral(t) /\ ScalesTo(f, decimals)
          BY <3>4, <3>7
        <4>2. scaled \in Seq(Digit) /\ Number(scaled) * unit = units
          BY <3>5, <4>1
        <4>3. c.ok /\ c.digits = TrimZerosLeft(scaled)
          BY <3>1, <3>7
        <4>. QED
          BY <4>2, <4>3, TrimKeeps
      <3>8. ~Accept => c = Failure
        BY <3>1
      <3>. QED
        BY <1>2, <1>3, <3>6, <3>7, <3>8
    <2>. QED
      BY <2>3, <2>4
  <1>. QED
    BY <1>4, <1>5
\* No record that is ready to be written has a supply that was rounded, cut off
\* or scaled wrongly, whatever the explorer has answered.
THEOREM SuppliesAreExact == Spec => []SupplyExact
  <1>1. AllExact
    <2>1. \A decimals \in -1..MaxTokenDecimals + 1 : decimals \in Int
      BY SupplyAssumption
    <2>. QED
      BY <2>1, ConversionIsExact, SupplyAssumption DEF AllExact
  <1>2. SupplyExact
    BY <1>1 DEF SupplyExact
  <1>. QED
    BY <1>2, PTL
=============================================================================
