----------------------------- MODULE TokenRecon -----------------------------
(***************************************************************************)
(* tokenrecon: for each token of the configuration and each of its rules,  *)
(* asks both chains for the same values in batch calls, compares them and  *)
(* reports every comparison.                                               *)
(*                                                                         *)
(* A token's values are read in three phases, view functions, storage      *)
(* slots, proof; in each phase one goroutine per chain sends the requests  *)
(* in chunks.  A chain is read at a given block, or at its latest one,     *)
(* which may change between two chunks.                                    *)
(***************************************************************************)
EXTENDS TokenConfig, HexWords, FiniteSets

CONSTANTS
  Files,          \* configurations
  Erc20General, Erc20Roles, Erc721General,   \* functions without arguments
  RpcBatchSize,
  MaxFailures,    \* bound: chunks with errors in one behaviour, but for
                  \* those a cancelled context or a malformed address causes
  MaxBlocks       \* bound: blocks in which a value of a token changes

ASSUME TokenReconAssumption ==
  /\ \A f \in Files : IsConfig(f)
  /\ IsList(Erc20General) /\ IsList(Erc20Roles) /\ IsList(Erc721General)
  /\ RpcBatchSize \in Nat \ {0}
  /\ MaxFailures \in Nat /\ MaxBlocks \in Nat

VARIABLES
  file,
  pinned,     \* per chain: the block tag names a block
  atPin,      \* per chain and value of a token: what the block that was the
              \* latest when the run started has, which is the pinned one
  atHead,     \* the same of the latest block
  pc, phase,
  position,   \* the token in hand, counted over Tokens(file)
  toSend,     \* per chain: requests of this phase not yet sent
  answers,    \* per chain: the values received for this phase
  rows,       \* of the token in hand
  report,     \* the rows written, by token
  tokens, checks, matched, mismatched, errors,   \* Summary
  cancelled,  \* a signal has ended the context
  cutShort,   \* history: requests were sent under an ended context
  failures, blocks

chains == <<pinned, atPin, atHead, blocks>>
requests == <<toSend, answers, failures, cutShort>>
summary == <<tokens, checks, matched, mismatched, errors>>
vars == <<file, chains, pc, phase, position, requests, rows, report, summary, cancelled>>

Side == {"l1", "l2"}

-----------------------------------------------------------------------------
(* What is asked of a token *)

Field(name, arg) == [name |-> name, arg |-> arg]
NoArg == "none"

Standard == {"erc20", "erc721"}

Token(entry, standard) == [entry |-> entry, standard |-> standard]

TokensOf(entries, standard) == [i \in DOMAIN entries |-> Token(entries[i], standard)]

Tokens(f) == TokensOf(ERC20(f), "erc20") \o TokensOf(ERC721(f), "erc721")

Functions(names) == [i \in DOMAIN names |-> Field(names[i], NoArg)]

BalanceSpecs(holder, standard) ==
  IF standard = "erc20" THEN <<Field("balanceOf", holder), Field("nonces", holder)>>
  ELSE <<Field("balanceOf", holder)>>

\* Mutated form: the holders behind a malformed one are left out too.
BuildAddrSpecs_StopAtMalformed(holders, standard) ==
  LET Before(i) == \A j \in 1..i : holders[j] # Malformed
  IN  FlattenSeq([i \in DOMAIN holders |->
                    IF Before(i) THEN BalanceSpecs(holders[i], standard) ELSE <<>>])

\* A malformed holder is passed over with a warning.
BuildAddrSpecs(holders, standard) ==
  FlattenSeq([i \in DOMAIN holders |->
                IF holders[i] = Malformed THEN <<>> ELSE BalanceSpecs(holders[i], standard)])

\* A rule that is not known is passed over too; the last two are left to the
\* proof.
SpecsOfRule(rule, entry, standard) ==
  CASE rule = "general" -> Functions(IF standard = "erc20" THEN Erc20General ELSE Erc721General)
    [] rule = "balance" -> BuildAddrSpecs(entry.holders, standard)
    [] rule = "roles" /\ standard = "erc20" -> Functions(Erc20Roles)
    [] OTHER -> <<>>

\* buildERC20Specs, buildERC721Specs: in the order of the rules, repeated
\* rules repeatedly.
BuildSpecs(token) ==
  LET rules == token.entry.rules
  IN  FlattenSeq([i \in DOMAIN rules |-> SpecsOfRule(rules[i], token.entry, token.standard)])

HasRule(rules, rule) == rule \in ToSet(rules)

\* One request answers what is asked of the proof.
ProofFields(rules) ==
  (IF HasRule(rules, "codehash") THEN <<Field("code_hash", NoArg)>> ELSE <<>>)
    \o (IF HasRule(rules, "storagehash") THEN <<Field("storage_hash", NoArg)>> ELSE <<>>)

\* The requests of a phase: each is the sequence of fields it is about.
Requests(token, p) ==
  LET Single(fields) == [i \in DOMAIN fields |-> <<fields[i]>>]
      slots == token.entry.storages
      proof == ProofFields(token.entry.rules)
  IN  CASE p = "calls" -> Single(BuildSpecs(token))
        [] p = "storage" -> Single([i \in DOMAIN slots |-> Field("storage", slots[i])])
        [] p = "proof" -> IF proof = <<>> THEN <<>> ELSE <<proof>>

-----------------------------------------------------------------------------
(* What the chains hold and answer *)

\* What the rules ask for (staterecon/README.md, "Token Config"), as a set.
AskedOf(t) ==
  LET rules == ToSet(t.entry.rules)
      holders == ToSet(t.entry.holders) \ {Malformed}
      general == IF t.standard = "erc20" THEN Erc20General ELSE Erc721General
      perHolder == IF t.standard = "erc20" THEN {"balanceOf", "nonces"} ELSE {"balanceOf"}
      plain == (IF "general" \in rules THEN ToSet(general) ELSE {})
                 \cup (IF "roles" \in rules /\ t.standard = "erc20" THEN ToSet(Erc20Roles) ELSE {})
                 \cup (IF "codehash" \in rules THEN {"code_hash"} ELSE {})
                 \cup (IF "storagehash" \in rules THEN {"storage_hash"} ELSE {})
  IN  {Field(name, NoArg) : name \in plain}
        \cup (IF "balance" \in rules
              THEN {Field(name, holder) : name \in perHolder, holder \in holders} ELSE {})
        \cup {Field("storage", slot) : slot \in ToSet(t.entry.storages)}

Phases == {"calls", "storage", "proof"}

\* A value is 0 or 1; a chain has one for each token and field it is asked for.
Values(f) ==
  UNION {{[address |-> t.entry.address, field |-> field] : field \in AskedOf(t)} :
           t \in ToSet(Tokens(f))}

InHand == Tokens(file)[position]

\* The result of a request that failed.
Failed == <<-1>>

\* The block that the tag of the side names.
BlockOf(side) == IF pinned[side] THEN atPin[side] ELSE atHead[side]

ValueOf(side, field) == BlockOf(side)[[address |-> InHand.entry.address, field |-> field]]

\* A value has several forms as a word of a proof: with or without zeros in
\* front, 0 also as 0x.  An answer to a call or a storage read is compared as
\* it comes (call.go, lines 57 and 83) and is taken to have the form both clients
\* give it.
Forms(value) ==
  {[i \in 1..n |-> IF i = n THEN value ELSE 0] : n \in value..WordLength + 1}

\* FetchProofs: what becomes of a form; a code hash without digits is an error.
Normalized(field, text) ==
  IF field.name = "storage_hash" THEN NormalizeWord32(text)
  ELSE IF NormalizeCodeHash(text) = NoHash THEN Failed
  ELSE NormalizeCodeHash(text)

Results(side, field) ==
  IF phase = "proof" THEN {Normalized(field, text) : text \in Forms(ValueOf(side, field))}
  ELSE {<<ValueOf(side, field)>>}

-----------------------------------------------------------------------------
(* Actions *)

Init ==
  /\ file \in Files
  /\ pinned \in [Side -> BOOLEAN]
  /\ \E n \in 0..1 : \E l2 \in [Values(file) -> 0..1] :
       atPin = [side \in Side |-> IF side = "l2" THEN l2 ELSE [v \in Values(file) |-> n]]
  /\ atHead = atPin
  /\ pc = "start" /\ phase = "calls" /\ position = 1
  /\ toSend = [side \in Side |-> <<>>] /\ answers = [side \in Side |-> <<>>]
  /\ rows = <<>> /\ report = <<>>
  /\ tokens = 0 /\ checks = 0 /\ matched = 0 /\ mismatched = 0 /\ errors = 0
  /\ cancelled = FALSE /\ cutShort = FALSE
  /\ failures = 0 /\ blocks = 0

Start ==
  /\ pc = "start"
  /\ Loads(file)
  /\ pc' = "token"
  /\ UNCHANGED <<file, chains, phase, position, requests, rows, report, summary, cancelled>>

\* An unreadable configuration, a report that cannot be opened or written.
Fail ==
  /\ pc \in {"start", "write", "summary"}
  /\ pc' = "failed"
  /\ UNCHANGED <<file, chains, phase, position, requests, rows, report, summary, cancelled>>

\* Mutated form: the answers of the phase before are kept.
StartPhase_KeepAnswers(token, p) ==
  /\ phase' = p
  /\ toSend' = [side \in Side |-> Requests(token, p)]
  /\ UNCHANGED <<answers, failures, cutShort>>

\* Both goroutines of the phase start.
StartPhase(token, p) ==
  /\ phase' = p
  /\ toSend' = [side \in Side |-> Requests(token, p)]
  /\ answers' = [side \in Side |-> <<>>]
  /\ UNCHANGED <<failures, cutShort>>

TakeToken ==
  /\ pc = "token"
  /\ position <= Len(Tokens(file))
  /\ pc' = "fetch"
  /\ StartPhase(InHand, "calls")
  /\ rows' = <<>>
  /\ UNCHANGED <<file, chains, position, report, summary, cancelled>>

Chunk(side) ==
  SubSeq(toSend[side], 1,
         IF Len(toSend[side]) < RpcBatchSize THEN Len(toSend[side]) ELSE RpcBatchSize)

\* What fails of a chunk's fields: all of them, or any.
FailingFields(fields) ==
  IF cancelled \/ InHand.entry.address = Malformed THEN {DOMAIN fields}
  ELSE SUBSET DOMAIN fields

\* Mutated form: an error of the call as a whole is not passed on to the
\* requests of the chunk, whose results stay empty.
ResultsOf_CallErrorLost(side, fields, failed) ==
  {r \in [DOMAIN fields -> UNION {Results(side, fields[i]) : i \in DOMAIN fields} \cup {Failed, <<>>}] :
     \A i \in DOMAIN fields :
       IF failed = DOMAIN fields THEN r[i] = <<>>
       ELSE IF i \in failed THEN r[i] = Failed
       ELSE r[i] \in Results(side, fields[i])}

ResultsOf(side, fields, failed) ==
  {r \in [DOMAIN fields -> UNION {Results(side, fields[i]) : i \in DOMAIN fields} \cup {Failed}] :
     \A i \in DOMAIN fields :
       IF i \in failed THEN r[i] = Failed ELSE r[i] \in Results(side, fields[i])}

\* One chunk of the goroutine of a side; an error does not keep the next chunk
\* from being sent.
SendChunk(side) ==
  LET fields == FlattenSeq(Chunk(side))
  IN  /\ pc = "fetch"
      /\ toSend[side] # <<>>
      /\ toSend' = [toSend EXCEPT ![side] = SubSeq(@, Len(Chunk(side)) + 1, Len(@))]
      /\ \E failed \in FailingFields(fields) :
           /\ \E results \in ResultsOf(side, fields, failed) :
                answers' = [answers EXCEPT ![side] = @ \o results]
           /\ failures' = IF failed = {} \/ Cardinality(FailingFields(fields)) = 1
                          THEN failures ELSE failures + 1
           /\ failures' <= MaxFailures
      /\ cutShort' = (cutShort \/ cancelled)
      /\ UNCHANGED <<file, chains, pc, phase, position, rows, report, summary, cancelled>>

\* makeRow: an error on either side is an error.
Status(first, second) ==
  IF Failed \in {first, second} THEN "error"
  ELSE IF first = second THEN "match" ELSE "mismatch"

NewRows ==
  LET fields == FlattenSeq(Requests(InHand, phase))
  IN  [i \in DOMAIN fields |->
         [field |-> fields[i], status |-> Status(answers["l1"][i], answers["l2"][i])]]

\* Both goroutines are done: the rows of the phase, and the next phase.
EndPhase ==
  /\ pc = "fetch"
  /\ \A side \in Side : toSend[side] = <<>>
  /\ rows' = rows \o NewRows
  /\ CASE phase = "calls" -> pc' = pc /\ StartPhase(InHand, "storage")
       [] phase = "storage" -> pc' = pc /\ StartPhase(InHand, "proof")
       [] phase = "proof" -> pc' = "write" /\ UNCHANGED <<phase, requests>>
  /\ UNCHANGED <<file, chains, position, report, summary, cancelled>>

CountOf(s) == Cardinality({i \in DOMAIN rows : rows[i].status = s})

\* Mutated form: the totals are those of the last token.
WriteRows_Replace ==
  /\ pc = "write"
  /\ report' = Append(report, rows)
  /\ tokens' = tokens + 1
  /\ checks' = Len(rows)
  /\ matched' = CountOf("match")
  /\ mismatched' = CountOf("mismatch")
  /\ errors' = CountOf("error")
  /\ position' = position + 1
  /\ pc' = "token"
  /\ UNCHANGED <<file, chains, phase, requests, rows, cancelled>>

\* The rows go to the report, then into the totals (mergeInto).
WriteRows ==
  /\ pc = "write"
  /\ report' = Append(report, rows)
  /\ tokens' = tokens + 1
  /\ checks' = checks + Len(rows)
  /\ matched' = matched + CountOf("match")
  /\ mismatched' = mismatched + CountOf("mismatch")
  /\ errors' = errors + CountOf("error")
  /\ position' = position + 1
  /\ pc' = "token"
  /\ UNCHANGED <<file, chains, phase, requests, rows, cancelled>>

EndOfTokens ==
  /\ pc = "token"
  /\ position > Len(Tokens(file))
  /\ pc' = "summary"
  /\ UNCHANGED <<file, chains, phase, position, requests, rows, report, summary, cancelled>>

WriteTokenSummary ==
  /\ pc = "summary"
  /\ pc' = "done"
  /\ UNCHANGED <<file, chains, phase, position, requests, rows, report, summary, cancelled>>

\* SIGINT or SIGTERM: every call fails from now on, and the run goes on.
Cancel ==
  /\ pc \notin {"done", "failed"} /\ ~cancelled
  /\ cancelled' = TRUE
  /\ UNCHANGED <<file, chains, pc, phase, position, requests, rows, report, summary>>

\* A block in which one value of a token changes, or changes back.
NewBlock(side, v) ==
  /\ pc = "fetch"
  /\ blocks < MaxBlocks
  /\ blocks' = blocks + 1
  /\ atHead' = [atHead EXCEPT ![side][v] = 1 - @]
  /\ UNCHANGED <<file, pinned, atPin, pc, phase, position, requests, rows, report, summary,
                 cancelled>>

Next ==
  \/ Start \/ Fail
  \/ TakeToken \/ EndPhase \/ WriteRows \/ EndOfTokens \/ WriteTokenSummary
  \/ Cancel
  \/ \E side \in Side :
       \/ SendChunk(side)
       \/ \E v \in DOMAIN atHead[side] : NewBlock(side, v)

Spec == Init /\ [][Next]_vars

-----------------------------------------------------------------------------
(* Properties *)

TypeOK ==
  /\ file \in Files
  /\ pinned \in [Side -> BOOLEAN]
  /\ \A chain \in {atPin, atHead} : chain \in [Side -> [Values(file) -> 0..1]]
  /\ pc \in {"start", "token", "fetch", "write", "summary", "done", "failed"}
  /\ phase \in Phases
  /\ position \in 1..Len(Tokens(file)) + 1
  /\ DOMAIN toSend = Side /\ DOMAIN answers = Side
  /\ pc = "fetch" => \A side \in Side :
       Len(answers[side]) + Len(FlattenSeq(toSend[side]))
         = Len(FlattenSeq(Requests(InHand, phase)))
  /\ Len(report) = tokens
  /\ {tokens, checks, matched, mismatched, errors, failures, blocks} \subseteq Nat
  /\ cancelled \in BOOLEAN /\ cutShort \in BOOLEAN

Differs(t, field) ==
  LET v == [address |-> t.entry.address, field |-> field]
  IN  atPin["l1"][v] # atPin["l2"][v]

BothPinned == \A side \in Side : pinned[side]

\* "Zero mismatch and zero error rows" (docs/post-migration-verification.md)
\* mean that the chains agree at the blocks named in everything the rules ask
\* for, whatever fails and whatever blocks arrive between the calls.
CleanRunIsEqual ==
  pc = "done" /\ BothPinned /\ mismatched = 0 /\ errors = 0 =>
    \A i \in DOMAIN Tokens(file) : \A field \in AskedOf(Tokens(file)[i]) :
      ~Differs(Tokens(file)[i], field)

\* At named blocks a mismatch is a difference: neither a block that arrives
\* between the calls nor the form of a word of a proof makes one.
NoFalseAlarm ==
  BothPinned =>
    \A i \in DOMAIN report : \A j \in DOMAIN report[i] :
      report[i][j].status = "mismatch" => Differs(Tokens(file)[i], report[i][j].field)

\* The command ends with status 0 when it was interrupted: only error rows say
\* so, and there is one whenever a value was left unread.
CancelledRunIsNotClean == pc = "done" /\ cutShort => errors > 0

\* The totals are those of the rows written, and of all tokens at the end.
SummaryAddsUp ==
  LET Rows(s) == UNION {{<<i, j>> : j \in {k \in DOMAIN report[i] : report[i][k].status = s}} :
                          i \in DOMAIN report}
  IN  /\ checks = matched + mismatched + errors
      /\ matched = Cardinality(Rows("match"))
      /\ mismatched = Cardinality(Rows("mismatch"))
      /\ errors = Cardinality(Rows("error"))
      /\ pc = "done" => tokens = Len(Tokens(file))

\* ReadersAgree for the configuration of the run.
ConfigReadersAgree == ReadersAgree(file)
=============================================================================
