# Verification of the Whitechain state migration

The repository moves the state of a live L1 into the genesis of a new OP Stack
L2 and verifies the result. This directory holds TLA+ models of its tools, the
TLC runs that check them and TLAPS proofs about them. `PROJECT.json` names, for
each definition, the source lines it stands for.

## The system

The tools are separate programs that meet in files, in two chains and in one
database. The runbook (`docs/runbook-migration-with-repo-scripts.md`) orders
them:

    freeze L1 -> geth dump -> dumpcheck -> dump-to-alloc -> dumpcheck with the
    allocation -> op-node genesis -> boot -> staterecon, tokenrecon,
    soul-verification, tokensync -> sign-off

| Component | State it keeps | Operations | What is hard | What makes it correct |
| --- | --- | --- | --- | --- |
| `scripts/dump-to-alloc.mjs` | pending base entries, addresses written, report counters and sums, output file | read base genesis, convert a line, append the rest, finish, fail | addresses collide with contracts the OP Stack owns; lines in any order; output stream and failures; supply arithmetic | the allocation is the merge of base genesis and dump, or there is none; no contract replaced; no wei created or lost |
| `staterecon/internal/dumpcheck` | stack trie, last key, accounts by address, addresses seen, three sums, problem list | verify a dump, verify an allocation | incomplete dumps that look complete, missing preimages, 256-bit wrap-around, several acceptable outcomes per address | accepts exactly the dumps that are the state and the allocations that are its merge |
| `scripts/insert-alloc-into-config.mjs` | spelling sampled from one key, counters, output file | copy config entries, insert or skip a line, finish, fail | mixed spellings, truncated input, write failures | each address once, the right side wins |
| `staterecon` (`internal/app`, `rpc`, `models`, `output`) | cursor, batch, totals, CSV report | fetch page, flush batch, fetch basics and proofs in parallel, write rows and summary | paging that ends early or never, chunked RPC with partial failures, resume | each L1 account compared exactly once, a clean summary means no difference |
| `tokenrecon` | requests not yet sent, answers, rows, summary | per token: view functions, storage slots and proof from both chains, report | unknown rules, failed calls, a signal, blocks that arrive between two chunks | a clean summary means no difference in what the rules ask for; a mismatch is a difference |
| `tokensync` | rows of Blockscout's `tokens` table, summary | look up, fetch, insert, update | no transaction around lookup and write, an indexer writing the same rows, reruns, lost answers | no foreign metadata, no lost counts, no gap after a completed run |
| `tokensync` SSH tunnel | connections, trust store | dial with a context, trust on first use | dial racing a cancellation, two processes at first use | no leaked connection, none closed in use, one key trusted |
| token configuration | sections of token entries | load; canonical section names for `tokenrecon`, token types for `tokensync` | one file, two normalisations of its names | both readers mean the same tokens |
| `soul-verification` | snapshots of both chains | read call by call, compare | blocks arriving between the calls | a snapshot is the state of one block |

The configuration, the supply conversion of `tokensync`, the normalisation of
words and the command-line helpers keep no state of their own.

## The modules

| Module | Models | Composition |
| --- | --- | --- |
| `Accounts` | accounts, allocation entries, the merge rules for an address that dump and base genesis both define | extended by all below |
| `StateMerge` | abstract: what building an allocation promises | `Accounts` |
| `DumpToAlloc` | `scripts/dump-to-alloc.mjs` | instantiates `StateMerge` |
| `DumpCheck` | `dumpcheck` and its command | `Accounts` |
| `MigrationPipeline` | runbook steps 4 and 5 | `DumpToAlloc` and `DumpCheck` reading the same files |
| `TokenSync` | `tokensync` runs beside Blockscout's indexer | `TokenSupply` |
| `StateRecon` | `staterecon`: walk, batches, calls, report, resumption | |
| `InsertAlloc` | `scripts/insert-alloc-into-config.mjs` | |
| `SshTunnel` | `tokensync`'s connection to PostgreSQL through a bastion, the trust store | |
| `TokenSupply` | `convertTotalSupply`, as a function | |
| `TokenConfig` | the token configuration and its two readers, as functions | |
| `HexWords` | `NormalizeCodeHash` and `NormalizeWord32`, as functions | |
| `TokenRecon` | `tokenrecon` beside two chains that go on | `TokenConfig`, `HexWords` |
| `DumpToAllocProofs`, `DumpCheckProofs`, `MigrationPipelineProofs`, `TokenSyncProofs`, `SshTunnelProofs`, `StateReconProofs`, `InsertAllocProofs`, `TokenReconProofs` | theorems about the module of that name | `MigrationPipelineProofs` uses the two before it |
| `MC...` | the small instances | |

**Accounts.** Code and storage are opaque values: the tools only compare them
and ask whether they are there. Balances and nonces are naturals. Base genesis
entries may hold code that is not hex (`BadCode`), which `isProtectedBaseEntry`
counts as code.

**DumpToAlloc.** One action per readline or stream event and per outcome of a
line. A line is a header or other record, something unreadable, an account with
its address, or one with a trie key only (the zero address's key, or one that
nothing can resolve). `pendingBaseAlloc`, `protectedWritten`,
`replacedBaseEntries` and `protectedMerges` are the variables of `main()`;
`alloc` is the sequence of pairs written, `dump` a history of the lines
converted. `outputFile` is what the file system holds. The line loop is driven
by events; what follows it (tail, closing check) runs without returning to the
event loop, so stream errors cannot fall into it, and they cannot be caught
before the tail, since the `error` listener is only attached afterwards.
A run ended that way is `crashed`, not `failed`: `main().catch` never runs.
The file system opens the output in a thread of its own: between
`createWriteStream` and `OpenOutput` the file is `opening`, lines may be converted
meanwhile, and a run that fails before the open has nothing to delete and may
still be followed by it.
`BaseBalance`, the base entries' part of the sum in `SupplyConserved`, is a
recursive function over the finite base genesis.

**DumpCheck.** Hashes are injective, so a trie root is the set of its leaves, a
code hash is the code, a storage root the map. Trie keys are numbers: only their
order matters. `problem` stands for a non-empty problem list. `Word` is 2^256,
so that the wrap-around of `isProtectedMerge` can be seen in a small instance.
`allocAccount` drops zero words, which is `ZeroSlots`.

**MigrationPipeline.** geth writes any dump of `DumpsOf(l1)`, honest or not, the
converter reads it, and `dumpcheck` reads dump and allocation. `LineSeen` is the
difference in what the two programs look at: the converter trusts the code and
the slots written, the checker recomputes the hashes. `genesis` is the base genesis
file as the checker sees it, with a flag for one that spells an address twice
(`twice`), `base` the table the converter makes of it. The converter may fail, be
unable to read its input, or crash at any point; `dumpcheck` is run on what is there
afterwards. `Refuses` is the converter ending the run because of what the dump holds.

**TokenSync.** Lookup, fetch and write are three steps, as in `syncTarget`; runs
overlap and repeat; a run can fail at each step, and a statement whose answer is
lost may have been executed. A row is the token whose metadata it shows and its
counts. The indexer's two actions are external code: it inserts a row for a
token it meets and counts holders and transfers.

**StateRecon.** An account is its position in the walk and what it is described
by: whether L1 knows its address, whether it has code, and the fields in which
L2 differs. `FetchPage` is one `debug_accountRange` call; L1 chooses how many
accounts it returns and names the next page, or something the client cannot
read, or the same page again. The empty cursor is both the start of a walk
without `--account-range-start` and the end of one, as in the code, so that a
first page which names itself is read twice. A batch is `compareBatch`: the
basics first, then the proof calls of both chains in any interleaving, each in
chunks of `RpcBatchSize`, each request of which may fail. A caller's requests are
numbered, and `Chunk` is what it sends next. `full` has one element for the rows
of an account, and `mismatch` the positions in it of the rows that the second
file has. `Resume` is the operator following the log:
`printed` is the cursor of the last "batch processed" line. A context that is
cancelled shows as failing requests and then as a failing page; `Interrupt` is
the process killed.

**InsertAlloc.** A key is an address, its prefix (`0x`, `0X`, none), and the case of
the letters among its first two digits (`head`) and among the others (`tail`), `none`
where there are none. The two are apart because the script looks for capitals from
the third character on (line 207): in a key without a prefix it passes over two
digits. `Sample` is the key it looks at, `Has0x` and `IsUppercase` what it concludes
(a `0X` prefix counts as none), and `OutKey` spells an allocation key accordingly. A
line is a structural line, an entry, or neither. The output is the sequence of pairs
written, because a reader of JSON takes the last of two equal keys. The end of the
input is possible after every line: the script does not ask for the closing brace.
The output file is opened and deleted as in `DumpToAlloc`.

**SshTunnel.** One invocation goes from `newStore` to `Close`: trust store,
TCP connection, key exchange with the host key callback, authentication, the
dials of `pgx.ConnectConfig`, session, end. `dial` is what has become of each
dialling goroutine's result: still dialling, in its channel, held by pgx, or
done with. `abandoned` are the dials whose caller has left through `ctx.Done()`
and for which a goroutine waits to close the result. An attempt's context
(`ContextDone`) ends by pgx's timer, which the next attempt may share, or by the
run's signal. A dial may answer at any time or never. When both channels of the
`select` are ready Go takes either. The trust store is a file: `HostKeyCallback`
appends to what the file is now, on a verdict about what it was when read, so two
invocations may both append. The host may present any key at any exchange, also
a later one of an open connection (`Rekey`).
Only runs with SSH options are modelled here; a direct connection is the
`Start` of `TokenSync`.

**TokenSupply.** A text is a sequence of characters, and the operators follow
`supply.go`'s functions on them. `ExactFor` says what the result is for, in
numbers. `Supplies` are the texts that explorers answer; TLC is given all of at
most five characters. The number of a text is a recursive function over its
prefixes, so that it can be reasoned about.

**TokenConfig.** A section's name is a sequence of pieces (letters, digits,
separators, others), since its two readers join and split the pieces differently.
The loops over pieces and sections are recursive functions over the prefixes read.
Decoding of YAML is left out; what it yields is a file whose lists are sequences
(`IsConfig`), an assumption of `TokenRecon`.

**TokenRecon.** `Requests` are the requests of each of the three phases of
`reconcileToken`; each chain's goroutine sends them in chunks (`SendChunk`), and
the phase ends when both are done. A value is 0 or 1 and belongs to a token and a
field; `atPin` is what the pinned block holds, `atHead` what the latest does,
and `NewBlock` changes the latter between any two chunks. A chunk is read at one
block. A word of a proof, which `FetchProofs` normalises, comes in every form
(`Forms`): short, with zeros in front, as `0x`. The answers to view functions and
storage reads are not normalised by the code (`call.go:57`, `:83`); the model
gives them one form, which is how both clients encode them, and what a client that
encodes them otherwise would make of it is not shown. A malformed token address is rejected by
the node, a malformed holder is passed over.

## What the runs check

| Run | Bounds | Shows |
| --- | --- | --- |
| `dump_to_alloc` | 2 addresses, 6 kinds of account, 3 kinds of base entry at each address, dumps of at most 3 lines | the converter keeps every promise below, refines `StateMerge`, and always ends |
| `partial_output` (violation) | one line | a write error while the dump is read leaves the partial output |
| `dumpcheck` | 2 addresses, dumps in any order that survives the order check, allocations of at most 3 entries, `Word` = 3 | accepted dumps and allocations are the right ones |
| `pipeline` | every state over 2 addresses and 5 kinds of account, 8 base genesis files, every dump of `MCDumpsOf` | only the merge is signed off; honest dumps raise no alarm |
| `token_sync` | 2 tokens, 2 runs (symmetric), 1 count per token; supplies of at most 5 characters, decimals up to 3 of which 2 are allowed | the promises below under every interleaving and failure; each supply is exact or refused |
| `token_counts` (violation) | the same | a count written between lookup and UPDATE is lost |
| `staterecon` | 3 accounts of 4 kinds, pages and batches of at most 2, chunks of 3, one failed call, one resumption | each account once, a clean run means equal chains, the totals add up, the run ends |
| `staterecon_resume` (violation) | 4 accounts, pages of at most 3, batches of 2 | accounts are skipped by a run resumed where the log says |
| `insert_alloc` | 3 addresses: letters among the first two digits, letters among the others, none; every config of at most 2 entries in every spelling; 2 lines, each with or without a prefix | the three promises below, and the types |
| `insert_spelling` (violation) | the same | a config whose first key misleads the script has an entry shadowed |
| `ssh_tunnel` | 2 invocations, one with 2 dials and one with none, 2 keys | nothing leaks, nothing in use is closed, one key is trusted, a signal ends the run |
| `token_recon` | 8 configurations of at most 3 tokens, chunks of 2, one failed chunk, one block, words of 2 digits | a clean summary means equal tokens, a mismatch a difference, an interrupted run is not clean |

Two addresses are enough for the converter and the checker: they treat each
address on its own, and two are needed to see order and the zero address beside
an ordinary one. Three lines let an address be written, repeated and another one
come between. Three allocation entries let one be a duplicate. A modulus of 3
makes the sum of two balances of 2 wrap. For `token_sync` two runs give every
overlap of a pair of statements, and one count is what distinguishes an untouched
row from a used one. The account kinds are one per branch of `writeAccount`,
`mergeIntoProtectedEntry` and `VerifyAlloc`. In `staterecon` three accounts with
pages and batches of two give a batch that spans two pages and an incomplete one
at the end, and four balance and nonce requests in chunks of three give an
incomplete chunk. In `insert_alloc` the two lines may both name the address that the
config has, in two spellings; `LineKeys` are those of `dump-to-alloc` and ones that
differ from them in prefix and case, as the script reads both alike. There are
1.1 million states, as in `dump_to_alloc`. In `ssh_tunnel` two dials let a late connection of
the first meet the second, and since invocations meet in the trust store only, the
other one needs none. The configurations of `token_recon` are one per branch of the
readers and of the rules: a malformed holder before a good one, rules repeated and
misspelt, slots and proofs, an entry without rules, an address twice and under two
standards, a malformed token, names with separators, with other characters and
empty. A run at `latest` is included, but no property speaks of its values: there
the documentation promises nothing.

The properties:

- `ProtectedContractsKept`: a complete allocation has every base entry with code
  or storage exactly once, with the base contract and no less than its balance.
- `NothingDropped`: every account of the dump that is not pruned is written, and
  every base entry is written or in the report.
- `EntryCount`: the number the runbook has the operator compute.
- `SupplyConserved`: at each moment the balance written is the dump's plus that of
  the base entries not replaced.
- `ClosingChecksPass`: the checks that guard the tail, an exception in
  `writeAllocPair` and the test that all protected contracts were written, never end
  a conversion: whatever the dump held, what is pending can be written, and with it
  each protected contract has been. `RunEnds`: the converter comes to an end.
- `MergesAsPromised`: the converter implements `StateMerge`: the order of the dump
  and of the writes is irrelevant.
- `VerifiedDumpIsState`: an accepted dump holds each leaf of the state its header
  names, with a known address.
- `VerifiedAllocIsMerge`: an accepted allocation is the merge of dump and base, up
  to the choice of pruning each empty account.
- `SignedOffIsMerge`: what both programs let pass is the merge of base genesis and
  L1 state, whatever dump geth wrote, and the base genesis names each address once.
  `NoFalseAlarm`: an honest dump of a state that
  can be merged is converted, and what was converted is accepted. It requires that
  every balance of the base genesis fits in 256 bits, also one that a dump account
  replaces: the converter never looks at that one, `dumpcheck` reads the whole file.
- `OwnMetadata`, `CompleteRunCoversTokens`, `ForcedRunRepairs`,
  `PlainRunsOverwriteNothing`: tokensync, whatever overlaps or fails.
- `EachAccountOnce`: the report of a completed walk lists every account from its
  start on, once and in order.
- `CleanRunIsEqual`: no mismatch, no error and the expected number of accounts, as
  the sign-off asks, mean that L2 agrees in every compared field, also when a cursor
  could not be read and the walk ended early. It excludes a first page that names
  itself: then an account counted twice may stand for one that is missing.
- `SummaryAddsUp`: the totals and the two files agree.
- `RightEntryWins`, `OneSpelling`: with a config in a spelling that the script
  recognises (`Recognised`: all keys in lower case, or all in capitals of which the
  first key has one after its first two characters; with the prefix or without),
  each address of the output has one spelling, and the entry that wins is the
  config's, or the last one given.
- `RerunAddsNothing`: with any config at all, each entry that a finished run was
  given is found by a second run over its output, although that one may sample
  another key.
- `SupplyExact`: a supply ready to be written is the explorer's number in the
  smallest unit, exactly and in its shortest form; one that has no such form, and no
  other, is refused.
- `TrustOnFirstUse`: whatever overlaps or is killed, an accepted key is in the trust
  store, an invocation that found the host there accepts only the first key, and each
  of the others adds at most one line.
- `SessionOwnsItsConnection`: pgx works on the connection of its last dial, and no
  goroutine is waiting to close that one.
- `EndedHoldsNothing`: on each path out of `newStore`, `Run` and `Close` the tunnel,
  and with it every connection, is closed.
- `LateConnectionClosed`: a connection that arrives for a caller who has left does
  not stay open. `CancelledRunEnds`: a dial that never returns does not hold up a
  run that was interrupted.
- `CleanRunIsEqual` (`token_recon`): no mismatch and no error at pinned blocks mean
  that the chains agree in all that the rules, as documented, ask for. A token
  without rules is clean because nothing is asked.
- `NoFalseAlarm` (`token_recon`): at pinned blocks each mismatch row is a
  difference, whatever blocks arrive and in whatever form a word of a proof comes.
- `CancelledRunIsNotClean`: the command ends with status 0 after a signal; if any
  request was sent under the ended context, there is an error row.
- `SummaryAddsUp` (`token_recon`): the totals are those of the rows written.
- `ConfigReadersAgree`: the tokens reconciled under a standard are the ones that
  `tokensync` stores with the letters and digits of that standard. The dashes may
  differ: a section `erc-2-0` is reconciled as ERC-20 and stored as `ERC-2-0`.

### Disagreements between code and documentation

- `PartialOutputDeleted`: `README.md:120` says a run that fails part-way deletes
  its partial output. A write error of the stream while the dump is still being
  read has no listener and ends the process without the clean-up. `dumpcheck`
  rejects the file that stays (`pipeline` covers it).
  Nor does the clean-up wait for the output's open: a run that fails at its first line
  may unlink a file that is created afterwards, empty. No run of its own shows this,
  but the behaviour is in the models, and `SignedOffIsMerge` holds with it.
- `CountsKept`: `docs/post-migration-verification.md:192` asks that no row with
  real counts was overwritten. `UpdateToken` resets both counts with a `WHERE` on
  the address only, after a lookup made before the explorer's answer.
- `ResumeCoversAll`: `docs/post-migration-verification.md:80` says to resume an
  interrupted run with `--account-range-start`. The only cursor a run reports is
  `next` of its "batch processed" lines (`app.go:124`), which is the page after the
  current one although the rest of the current page is not compared yet.
- `NoOverwrites`: the header of `insert-alloc-into-config.mjs` says it does not
  overwrite existing entries. It takes the spelling of all config keys from the first
  one, and from one capital after its second character that all are in capitals. With
  keys that mix both cases (checksummed addresses, say), with the prefix `0X`, or with
  capitals only among the first two digits of a key without a prefix (`AB` followed by
  digits, although the config is then spelled alike throughout), the allocation's
  entry is added under a second spelling, and readers take the later one.

## Fairness

`dump_to_alloc` assumes weak fairness of the whole next-state relation: it is one
sequential process over finite files, and the events of its streams arrive.
`staterecon` assumes weak fairness of `RunStep`, the steps of the run itself, and
not of `Interrupt` and `Resume`: every call to a chain is answered or given up
after `--rpc-timeout`, and the walk is over finitely many accounts.
`ssh_tunnel` assumes weak fairness, per invocation, of `OwnStep`, the steps for
which it waits for nobody or no longer than its context allows, and of each
`CleanUp`, a goroutine whose result is there. The host, PostgreSQL, the network
and the signals are under no fairness, so that a dial may hang for ever; and as
neither the SSH handshake nor what PostgreSQL is asked over the tunnel is bound by
the context, `CancelledRunEnds` leaves them out (`AtPeer`).
Nothing else assumes fairness. Deadlock is not checked where the system stops:
all the modelled programs are commands that end.

## Proofs

The eight `...Proofs` modules hold for all values of the constants: any number of
addresses, accounts, tokens, invocations, dials and lines, any page, batch and
chunk size. What they take for granted is named in the modules:

- `AccountsAssumption`, `HexWordsAssumption`: the special values are different from
  the ordinary ones; a word has a digit.
- `DumpToAllocAssumption`, `InsertAllocAssumption`, `TokenReconAssumption`,
  `DumpCheckAssumption`: the inputs are what the parsers deliver. Accounts are
  accounts, a base genesis is a finite table (the converter holds it in memory), a
  config has no key twice (it was an object), a token file's lists are sequences.
- `DumpCheckAssumption`: no two addresses share a trie key.
- `MigrationPipelineAssumption`: an L1 state maps addresses to accounts and holds no
  zero words, as a trie does; a header names its root, and a dump is a sequence of
  lines both programs can be given. Nothing is assumed of what they say.
- `SupplyAssumption`: supplies are texts, the limit of decimals is a number.
- `SshTunnelAssumption`: finitely many invocations. The others say that bounds are
  numbers.

Theorems:

| Module | Theorem | Property |
| --- | --- | --- |
| `DumpToAllocProofs` | `TypeCorrect`, `ProtectedContractsSafe`, `NoAccountDropped`, `EntriesAsCounted`, `SupplyIsConserved`, `ClosingChecksNeverFail` | all invariants of `dump_to_alloc` |
| | `ConverterKeepsPromise` | the refinement of `StateMerge`, by step simulation |
| `DumpCheckProofs` | `CheckTypeCorrect`, `VerifiedDumpHolds`, `VerifiedAllocHolds` | all properties of `dumpcheck` |
| `MigrationPipelineProofs` | `SignedOffHolds`, `HonestDumpsPass` | both properties of `pipeline` |
| `TokenSyncProofs` | `TypeCorrect`, `MetadataIsOwn`, `CompleteRunCovers`, `ForcedRunLeavesNoGap`, `PlainRunsAreHarmless`, `SuppliesAreExact` | all properties of `token_sync` |
| | `ConversionIsExact` | the conversion of any text, for any number of decimals |
| `SshTunnelProofs` | `TypeCorrect`, `FirstKeyIsTrusted`, `SessionKeepsConnection`, `NothingStaysOpen` | the invariants of `ssh_tunnel` |
| `StateReconProofs` | `ReportTypeCorrect`, `ReportListsEachAccountOnce`, `CleanReportIsEqual`, `ReportAddsUp` | the invariants of `staterecon` |
| `InsertAllocProofs` | `InsertTypeCorrect`, `InsertSpellsOnce`, `InsertRightEntryWins`, `InsertRerunAddsNothing` | all properties of `insert_alloc` |
| `TokenReconProofs` | `TokenTypeCorrect`, `TokenMismatchIsReal`, `CleanTokenRunIsEqual`, `InterruptedRunIsNotClean`, `TokenSummaryAddsUp`, `TokenReadersAgree` | all properties of `token_recon` |

### The invariants

None of the properties is inductive: they speak of a finished run or of its
result, and say nothing of the run that leads to it.

*Converter.* The invariant is `TypeOK`, `ProtectedInv` and `MergeInv`.
`ProtectedInv` ties `protectedWritten` to the pairs written: a protected address is
in it exactly when one pair has it, and then the pair is the base entry or its
merge. `MergeInv` says that, until the tail, the pairs written are the entries that
the records read determine, and `pendingBaseAlloc` the base addresses no kept
record has; during the tail, the appended entries are added. `ClosingChecksNeverFail`
follows from the two: a protected address that is pending has no pair yet. `ReportInv`
says that a base entry no longer pending is in the report and gives `NoAccountDropped`. `TotalsInv` ties the balances
written to the base addresses that have been counted, each exactly once.

*Checker.* `CheckInv`. As long as nothing is wrong, each leaf of the trie is an
account whose address is known (`RootInv`), the sum of the dump is the sum over the
table of its accounts (`SumInv`), each entry read is explained by dump and base
(`EntriesInv`), and what the entries hold is what the dump has at their addresses
and what they retain (`AllocInv`). The last one is where wrap-around matters: an
entry that passed the test by a wrapped sum leaves the sum of the allocation
smaller for good, so that it no longer equals the expected one at the end. That is
why `AllocInv` states an inequality once a wrapped entry has been read.

*Pipeline.* `PipelineInv` is the invariants of both programs and what connects
them: the converter has converted a prefix of the file (`ConvertedInv`), the
checker's table is that of the lines it has read and each of them is clean
(`CheckedInv`), and the entries checked are a prefix of the pairs written, all of
them when verified (`EntriesReadInv`).
`GenesisInv` adds that the checker has looked at no entry of a base genesis that names
an address twice. For the other direction, `HonestInv` follows an honest dump through both programs.
The converter writes no address twice (`WrittenOnce`) and stops at no line
(`HonestNotRejected`); the checker has found nothing wrong, and its last key is that
of the line before (`LinesPass`, without which the order check could fail); each
entry the converter wrote is one of the outcomes `dumpcheck` accepts for its address
(`HonestEntry`), and the sums agree because each record and each base entry is
accounted for once (`HonestAllocHolds`).

*tokensync.* The invariant adds to `OwnMetadata`, per run, what is known of the
target in hand (`RecordInv`: the record's label is the target's), which targets
are finished (`CoverInv`: each target is in `todo`, in hand, or counted with a
row in the table), and what a forced run has left behind (`ShownInv`).

*Supplies.* `ConversionIsExact` is about the function, and `SuppliesAreExact` its
instance for the texts of the run. A text that is a numeral falls into the digits
before and after its dot (`CutInTwo`). The number of two texts joined is that of
the first times a power of ten, plus that of the second (`NumberOfBoth`), and a
text of n digits is below 10^n (`NumberBelow`). Hence the digits cut off are the
remainder of a division by a power of ten, and all of them zeros exactly when it
divides (`ScaledRemainder`): the conversion refuses a supply exactly when it has
no whole number of smallest units. Trimming zeros in front keeps the number
(`TrimKeeps`) and leaves the shortest text for it.

*Tunnel.* `IInv` speaks of one invocation at a time, and a step of one leaves the
others' alone: where the run stands tells whether its tunnel is open
(`TunnelInv`); the connection that pgx holds is the last dial's, and the dials left
to a goroutine are earlier ones while the last is in use (`DialInv`). `TInv` speaks
of the store they share: what an invocation knows of it begins with the store's
first key (`StoreInv`), and each line was added by another newcomer, unless the
only line was there at the start (`LinesInv`). The bound on the lines of
`TrustOnFirstUse` is not inductive, because an invocation that has started without
finding the host may still add a line; `LinesInv` counts those that have added one.

*staterecon.* `ReportInv`. The next account to take is the first of the page to
come (`WalkInv`), rows and batch together list the accounts taken, in order
(`ListInv`), an account without a difference counted for it has none (`CleanInv`),
and the totals count the rows (`CountInv`).

*insert-alloc.* The proofs replace `Recognised` by what they need of it: the script
spells each key of the config as it is (`Respelled`, from `RecognisedRespelled`).
`SpellingInv`: what is written is then spelled so as well. `WinnerInv`: what a reader
would take from the output agrees with the rule after every line. `RerunInv` holds for
every config: the output begins with it, so that its sample is the same one, or it is
empty and each key written has the form chosen without a sample, which, as a sample,
leads to the same form again.

*tokenrecon.* `TokenInv`. On each chain the answers received and the requests that
wait are, in order, the fields of the phase, and an answer is the value at the
pinned block or a failure (`FetchInv`). The rows of the token in hand cover the
phases done (`RowInv`), those in the report all that is asked of their token
(`ListInv`), and no row at pinned blocks says anything else than what the blocks
hold. `CountInv` counts the report's rows, and `CutInv` follows a request that was
sent under an ended context: it is an answer that failed, then an error row, then
in the total. The lemmas before them say that the requests of the three phases ask
for exactly the fields the rules are documented to ask for (`RequestsTyped`,
`RequestsCover`), and that all forms of a word are read alike (`WordOfForm`).

*Token configuration.* The segments that `tokensync` splits a section's name into
are, joined, the name as `tokenrecon` writes it (`SegmentsJoin`): a separator ends a
segment and adds nothing, every other piece is in both or in neither. The targets
that `tokensync` builds from the first n entries are those entries, once each, or
it has refused the file (`TargetsHold`). `SameTokens` puts the two together.

### Sums and recursive definitions

The provers cannot instantiate the library's induction theorems. Where a sum or a
concatenation is needed the proofs avoid them in one of two ways. The set of the
numbers for which a statement holds contains 0 and each successor, hence is all of
`0..n`: a minimal counterexample exists by well-foundedness (`WFMin`), which takes
a set and not an operator. `DumpToAllocProofs` (`AllNumbers`) uses it for the
recursion of `BaseBalance`, over the sizes of sets, and `TokenReconProofs`
(`NumbersUpTo`) to replace the recursion of `FlattenSeq` by the function of what
has been joined so far. `TokenReconProofs` and `TokenSyncProofs` state what this
gives for a recursion once: a function over `0..n` that starts with a given value
and continues by a given step exists (`Recursion`), and two of them are equal
(`SameSteps`). The step is given as a function, not as an operator. Every
recursive function of `TokenConfig` and `TokenSupply` is reduced to them. The
folds of the community modules and `SelectSeq` take operators, and the provers
know nothing of `^`, so these modules have a function of their own where another
would use those. Or the sum is carried along the steps: `DumpCheckProofs` states
that a function summing every subset of the table exists (`SumOfDump`), which a
record extends.

### Only model-checked

`RunEnds` (of `dump_to_alloc` and `staterecon`), `LateConnectionClosed` and
`CancelledRunEnds` are liveness properties. They hold because of fairness, whose
meaning is in `ENABLED`, and the prover does not reason about `ENABLED`.

## What is not modelled

`soul-verification` is a Mocha test that reads both deployments call by call and
compares the snapshots as JSON. It keeps nothing between two calls but the
snapshot, at pinned blocks, which its documentation asks for, the order of the
calls cannot matter, and what the calls answer and how the slots are laid out is
written in contracts whose sources are not in the repository. Its hazard without
pinned blocks, a torn snapshot, is listed.

`StateRecon` leaves out the totals by field and the log of single comparisons,
`InsertAlloc` the log of skipped balances, both scripts the output to stdout and an
older file at the path of the output (which a failed run deletes as well), `SshTunnel` the normalisation of the DSN
and a trust-store line that was written in part, `TokenRecon` the text of its
report. Decoding of YAML, logging, ABI files and argument handling have no state.
Hash functions, hex and RLP encodings are abstracted as described. Memory
consumption of buffered lines is not a state of the models. A node whose page
cursor goes back to an earlier page is not modelled: `staterecon` would not end.
The operator gives each run a report directory of its own.

## Plan

All components of the table but `soul-verification` are modelled. Their invariants,
their action properties and the refinement are proved. What is left is what the
section above leaves to TLC, and the totals by field of `staterecon`.
