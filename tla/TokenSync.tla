----------------------------- MODULE TokenSync -----------------------------
(***************************************************************************)
(* staterecon/internal/tokensync: copies token metadata from the legacy    *)
(* explorer into the tokens table of Blockscout, while Blockscout's own    *)
(* indexer writes the same table.                                          *)
(*                                                                         *)
(* A run is one invocation of the command; runs may overlap and be         *)
(* repeated.  Lookup, fetch and write of one token are separate steps:     *)
(* there is no transaction around them.  A run may be killed, or lose its  *)
(* connection, at any of them; a statement whose answer is lost may have   *)
(* been executed.                                                          *)
(***************************************************************************)
EXTENDS TokenSupply, FiniteSets

CONSTANTS
  Token,        \* the targets of the configuration, no address twice
  Run,          \* invocations
  NoContract,   \* an answer that does not name its contract
  Chain,        \* label of a row the indexer has made
  NoRow,        \* no row for the token
  NoToken,      \* the run has no token in hand
  MaxActivity   \* bound: holders and transfers the indexer counts for a token

ASSUME TokenSyncAssumption ==
  /\ NoContract \notin Token /\ Chain \notin Token /\ NoToken \notin Token
  /\ MaxActivity \in Nat

\* A row: whose legacy metadata it shows, if any's, and holder_count +
\* transfer_count, which the code only compares with zero and resets together.
Row == [label : Token \cup {Chain}, activity : Nat]

ASSUME RowAssumption == NoRow \notin Row

VARIABLES
  rows,      \* the tokens table, keyed by contract_address_hash
  pc,        \* "idle", "next", "fetch", "insert", "update", "done", "failed"
  force,     \* opts.Force
  todo,      \* targets not yet taken up
  current,   \* the target in hand
  action,    \* "insert", "update": what resolveSyncAction decided
  record,    \* label of the record prepared for the target
  inserted, updated, skipped  \* the summary, as sets of targets

summary == <<inserted, updated, skipped>>
local == <<pc, force, todo, current, action, record, summary>>
vars == <<rows, local>>

Init ==
  /\ rows = [t \in Token |-> NoRow]
  /\ pc = [r \in Run |-> "idle"]
  /\ force \in [Run -> BOOLEAN]
  /\ todo = [r \in Run |-> Token]
  /\ current = [r \in Run |-> NoToken]
  /\ action = [r \in Run |-> "insert"]
  /\ record = [r \in Run |-> Chain]
  /\ inserted = [r \in Run |-> {}]
  /\ updated = [r \in Run |-> {}]
  /\ skipped = [r \in Run |-> {}]

-----------------------------------------------------------------------------
(* resolveSyncAction *)

\* Mutated form: existing rows are updated without --force.
ResolveSyncAction_ForceAlways(row, forced) ==
  IF row = NoRow THEN "insert"
  ELSE IF row.activity > 0 THEN "skip"
  ELSE "update"

\* Mutated form: --force makes no difference.
ResolveSyncAction_NeverUpdate(row, forced) == IF row = NoRow THEN "insert" ELSE "skip"

\* The decision: a row that is there is only touched by --force, and only
\* while nothing has been counted for it.
ResolveSyncAction(row, forced) ==
  IF row = NoRow THEN "insert"
  ELSE IF ~forced \/ row.activity > 0 THEN "skip"
  ELSE "update"

\* Answers of the explorer to a request for t: they name the contract they
\* are about, which may be another one, or they name none and are about t.
Answers(t) ==
  {[contract |-> c, label |-> c] : c \in Token} \cup {[contract |-> NoContract, label |-> t]}

\* Mutated form: the contract an answer names is not compared.
Accepts_AnyContract(t, p) == TRUE

\* The contract the explorer names, if it does, is the one asked for.
Accepts(t, p) == p.contract \in {t, NoContract}

-----------------------------------------------------------------------------
(* Actions of a run *)

Start(r) ==
  /\ pc[r] = "idle"
  /\ pc' = [pc EXCEPT ![r] = "next"]
  /\ UNCHANGED <<rows, force, todo, current, action, record, summary>>

\* Mutated form: the target is not remembered.
TakeInHand_Not(r, t) == UNCHANGED current

TakeInHand(r, t) == current' = [current EXCEPT ![r] = t]

\* LookupToken for the next target and the decision taken on what it finds.
Lookup(r, t) ==
  LET decision == ResolveSyncAction(rows[t], force[r])
  IN  /\ pc[r] = "next"
      /\ t \in todo[r]
      /\ todo' = [todo EXCEPT ![r] = @ \ {t}]
      /\ IF decision = "skip"
         THEN /\ skipped' = [skipped EXCEPT ![r] = @ \cup {t}]
              /\ UNCHANGED <<pc, current, action>>
         ELSE /\ pc' = [pc EXCEPT ![r] = "fetch"]
              /\ TakeInHand(r, t)
              /\ action' = [action EXCEPT ![r] = decision]
              /\ UNCHANGED skipped
      /\ UNCHANGED <<rows, force, record, inserted, updated>>

\* The explorer's answer, prepared as a record.
Fetch(r) ==
  /\ pc[r] = "fetch"
  /\ \E p \in Answers(current[r]) :
       /\ Accepts(current[r], p)
       /\ record' = [record EXCEPT ![r] = p.label]
  /\ pc' = [pc EXCEPT ![r] = action[r]]
  /\ UNCHANGED <<rows, force, todo, current, action, summary>>

NewRow(r) == [label |-> record[r], activity |-> 0]

\* The target in hand is finished and counted by the operator's report.
Counted(r, count) == [count EXCEPT ![r] = @ \cup {current[r]}]

\* Mutated form: a failed statement is logged and the run goes on.
StatementFails_GoOn(r) == pc' = [pc EXCEPT ![r] = "next"] /\ UNCHANGED summary

StatementFails(r) == pc' = [pc EXCEPT ![r] = "failed"] /\ UNCHANGED summary

\* INSERT: the primary key refuses a second row for an address.  The answer
\* may be lost after the row is there.
Insert(r) ==
  /\ pc[r] = "insert"
  /\ IF rows[current[r]] = NoRow
     THEN /\ rows' = [rows EXCEPT ![current[r]] = NewRow(r)]
          /\ \/ /\ pc' = [pc EXCEPT ![r] = "next"]
                /\ inserted' = Counted(r, inserted)
                /\ UNCHANGED <<updated, skipped>>
             \/ StatementFails(r)
     ELSE StatementFails(r) /\ UNCHANGED rows
  /\ UNCHANGED <<force, todo, current, action, record>>

\* UPDATE ... WHERE contract_address_hash: whatever the row has come to hold.
Update(r) ==
  /\ pc[r] = "update"
  /\ rows' = [rows EXCEPT ![current[r]] = NewRow(r)]
  /\ \/ /\ pc' = [pc EXCEPT ![r] = "next"]
        /\ updated' = Counted(r, updated)
        /\ UNCHANGED <<inserted, skipped>>
     \/ StatementFails(r)
  /\ UNCHANGED <<force, todo, current, action, record>>

\* An error, a timeout of the explorer, an answer for another contract, a
\* lost connection or a signal ends the run.
Fail(r) ==
  /\ pc[r] \in {"next", "fetch", "insert", "update"}
  /\ StatementFails(r)
  /\ UNCHANGED <<rows, force, todo, current, action, record>>

Finish(r) ==
  /\ pc[r] = "next"
  /\ todo[r] = {}
  /\ pc' = [pc EXCEPT ![r] = "done"]
  /\ UNCHANGED <<rows, force, todo, current, action, record, summary>>

-----------------------------------------------------------------------------
(* Blockscout's indexer *)

IndexToken(t) ==
  /\ rows[t] = NoRow
  /\ rows' = [rows EXCEPT ![t] = [label |-> Chain, activity |-> 0]]
  /\ UNCHANGED local

CountActivity(t) ==
  /\ rows[t] # NoRow
  /\ rows[t].activity < MaxActivity
  /\ rows' = [rows EXCEPT ![t].activity = @ + 1]
  /\ UNCHANGED local

RunStep(r) ==
  \/ Start(r)
  \/ \E t \in Token : Lookup(r, t)
  \/ Fetch(r)
  \/ Insert(r) \/ Update(r)
  \/ Fail(r) \/ Finish(r)

Next ==
  \/ \E r \in Run : RunStep(r)
  \/ \E t \in Token : IndexToken(t) \/ CountActivity(t)

Spec == Init /\ [][Next]_vars

-----------------------------------------------------------------------------
(* Properties *)

TypeOK ==
  /\ rows \in [Token -> Row \cup {NoRow}]
  /\ pc \in [Run -> {"idle", "next", "fetch", "insert", "update", "done", "failed"}]
  /\ force \in [Run -> BOOLEAN]
  /\ todo \in [Run -> SUBSET Token]
  /\ current \in [Run -> Token \cup {NoToken}]
  /\ \A r \in Run : pc[r] \in {"fetch", "insert", "update"} => current[r] \in Token
  /\ action \in [Run -> {"insert", "update"}]
  /\ record \in [Run -> Token \cup {Chain}]
  /\ inserted \in [Run -> SUBSET Token]
  /\ updated \in [Run -> SUBSET Token]
  /\ skipped \in [Run -> SUBSET Token]

\* No token ever shows the metadata of another one, although answers may be
\* about another contract.
OwnMetadata ==
  \A t \in Token : rows[t] # NoRow => rows[t].label \in {t, Chain}

\* A completed run leaves every configured token in the table and reports
\* each of them once, even if the run before it died between an INSERT and
\* its answer.
CompleteRunCoversTokens ==
  \A r \in Run : pc[r] = "done" =>
    /\ \A t \in Token : rows[t] # NoRow
    /\ inserted[r] \cup updated[r] \cup skipped[r] = Token
    /\ inserted[r] \cap updated[r] = {} /\ skipped[r] \cap (inserted[r] \cup updated[r]) = {}

\* After a completed --force run a token without legacy metadata is one with
\* holders or transfers of its own, for good.
ForcedRunRepairs ==
  \A r \in Run : pc[r] = "done" /\ force[r] =>
    \A t \in Token : rows[t].label # Chain \/ rows[t].activity > 0

\* Whatever the explorer has answered, the supply in a record that is ready to
\* be written (buildTokenRecord, supply.go) is not rounded, cut off or scaled
\* wrongly, and no supply that could be written exactly is refused.
SupplyExact == \A r \in Run : pc[r] \in {"insert", "update"} => AllExact

\* A run without --force changes no row that exists (README: "Existing rows
\* are skipped by default").
PlainRunsOverwriteNothing ==
  [][\A t \in Token, r \in Run :
       rows[t] # NoRow /\ rows'[t] # rows[t] /\ pc'[r] # pc[r] => force[r]]_vars

\* "No pre-existing row with real holder or transfer counts was overwritten"
\* (docs/post-migration-verification.md): no count is ever lost.
CountsKept ==
  [][\A t \in Token :
       rows[t] # NoRow => rows'[t] # NoRow /\ rows'[t].activity >= rows[t].activity]_vars
=============================================================================
