---------------------------- MODULE InsertAlloc ----------------------------
(***************************************************************************)
(* scripts/insert-alloc-into-config.mjs: copies a genesis config and adds  *)
(* the entries of an allocation file to its alloc map while streaming it.  *)
(*                                                                         *)
(* JSON keys are spellings of addresses.  The script never builds the set  *)
(* of addresses: it looks at one config key, spells all keys of the        *)
(* allocation like it, and compares spellings.  The readers of the output  *)
(* compare addresses, and the last entry of an address wins.               *)
(***************************************************************************)
EXTENDS Integers, Sequences, FiniteSets

CONSTANTS
  Addr,
  HeadLettered,  \* the addresses with a letter among their first two hex digits
  TailLettered,  \* those with one among the other digits
  Value,         \* allocation entries
  Configs,       \* alloc maps of genesis configs, sequences of pairs
  LineKeys,      \* the keys that allocation files use
  MaxLines       \* bound: lines of the allocation file

\* A key: its prefix, and the case of the letters among the first two digits
\* and among the others, for a key without a prefix hides its first two.
Case == {"lower", "upper", "mixed", "none"}

Key == [addr : Addr, prefix : {"0x", "0X", "none"}, head : Case, tail : Case]

Spelling(k) ==
  /\ k.addr \in HeadLettered <=> k.head # "none"
  /\ k.addr \in TailLettered <=> k.tail # "none"

Pair == [key : Key, value : Value]

ASSUME InsertAllocAssumption ==
  /\ HeadLettered \subseteq Addr /\ TailLettered \subseteq Addr
  /\ \A c \in Configs :
       /\ c \in Seq(Pair)
       /\ \A i \in DOMAIN c : Spelling(c[i].key)
       /\ \A i, j \in DOMAIN c : c[i].key = c[j].key => i = j
  /\ \A k \in LineKeys : k \in Key /\ Spelling(k)
  /\ MaxLines \in Nat

\* Lines: braces and blanks, entries, and what is neither.
Line ==
  [type : {"structure", "bad"}] \cup [type : {"entry"}, key : LineKeys, value : Value]

VARIABLES
  config,             \* config.alloc
  overwriteExisting,
  pc,
  lines,              \* lines processed
  output,             \* pairs of the alloc map written
  outputFile          \* "absent", "opening" (the open is asynchronous),
                      \* "partial" or "complete"

vars == <<config, overwriteExisting, pc, lines, output, outputFile>>

Init ==
  /\ config \in Configs
  /\ overwriteExisting \in BOOLEAN
  /\ pc = "start"
  /\ lines = <<>>
  /\ output = <<>>
  /\ outputFile = "absent"

-----------------------------------------------------------------------------
(* Spelling *)

\* The key whose spelling stands for all keys of the alloc map c.
\* Mutated form: the loop that looks for it goes on to the last one.
Sample_Last(c) == c[Len(c)].key

Sample(c) == c[1].key

Has0x(c) == c = <<>> \/ Sample(c).prefix = "0x"

Capital(case) == case \in {"upper", "mixed"}

\* One capital letter in the sample is enough.  The first two characters are
\* passed over whether they are a prefix or not.
IsUppercase(c) ==
  /\ c # <<>>
  /\ \/ Capital(Sample(c).tail)
     \/ Sample(c).prefix # "none" /\ Capital(Sample(c).head)

\* Mutated forms: the key keeps the form the allocation file gives it; letters
\* are spelled where there are none.
OutKey_AsRead(c, k) == k

OutKey_AnyDigit(c, k) ==
  LET case == IF IsUppercase(c) THEN "upper" ELSE "lower"
  IN  [addr |-> k.addr, prefix |-> IF Has0x(c) THEN "0x" ELSE "none", head |-> case, tail |-> case]

\* The key spelled the way the alloc map c spells its own keys.
OutKey(c, k) ==
  LET case == IF IsUppercase(c) THEN "upper" ELSE "lower"
  IN  [addr |-> k.addr,
       prefix |-> IF Has0x(c) THEN "0x" ELSE "none",
       head |-> IF k.addr \in HeadLettered THEN case ELSE "none",
       tail |-> IF k.addr \in TailLettered THEN case ELSE "none"]

PresentIn(c, k) == \E i \in DOMAIN c : c[i].key = OutKey(c, k)

-----------------------------------------------------------------------------
(* Actions *)

\* main().catch: the output is deleted, or is not there yet and may still be
\* opened while the process ends.
Fail ==
  /\ pc' = "failed"
  /\ outputFile' = IF outputFile = "opening" THEN "opening" ELSE "absent"
  /\ UNCHANGED <<config, overwriteExisting, lines, output>>

\* The config is read; the output is about to be opened when its entries are
\* given to the stream, before the first line.
CopyConfig ==
  /\ pc = "start"
  /\ pc' = "reading"
  /\ output' = config
  /\ outputFile' = "opening"
  /\ UNCHANGED <<config, overwriteExisting, lines>>

\* The config cannot be read: partialOutputPath is not set yet.
BadConfig ==
  /\ pc = "start"
  /\ pc' = "failed"
  /\ UNCHANGED <<config, overwriteExisting, lines, output, outputFile>>

\* The file system creates the file, or empties it, in a thread of its own.
OpenOutput ==
  /\ outputFile = "opening"
  /\ outputFile' = "partial"
  /\ UNCHANGED <<config, overwriteExisting, pc, lines, output>>

Processed(line) ==
  /\ pc = "reading"
  /\ Len(lines) < MaxLines
  /\ lines' = Append(lines, line)
  /\ UNCHANGED <<config, overwriteExisting, pc, outputFile>>

Structure(line) ==
  /\ Processed(line)
  /\ line.type = "structure"
  /\ UNCHANGED output

\* Mutated form: what is written is skipped, in either mode.
Skipped_Always(line) == PresentIn(config, line.key)

Skipped(line) == ~overwriteExisting /\ PresentIn(config, line.key)

\* An existing entry is kept, unless it may be overwritten: then the later of
\* the two entries shadows it.
Insert(line) ==
  /\ Processed(line)
  /\ line.type = "entry"
  /\ output' = IF Skipped(line) THEN output
               ELSE Append(output, [key |-> OutKey(config, line.key), value |-> line.value])

BadLine(line) ==
  /\ pc = "reading"
  /\ Len(lines) < MaxLines
  /\ line.type = "bad"
  /\ Fail

\* The allocation file cannot be read any further.
InputError ==
  /\ pc = "reading"
  /\ Fail

\* The file ends, wherever that is: both objects are closed.
EndOfAlloc ==
  /\ pc = "reading"
  /\ pc' = "ending"
  /\ UNCHANGED <<config, overwriteExisting, lines, output, outputFile>>

OutputFinished ==
  /\ pc = "ending"
  /\ outputFile = "partial"
  /\ pc' = "done"
  /\ outputFile' = "complete"
  /\ UNCHANGED <<config, overwriteExisting, lines, output>>

\* The output cannot be opened or written.  As in dump-to-alloc, its errors
\* have a listener at the end only.
OutputError ==
  /\ pc \in {"reading", "ending"}
  /\ pc' = IF pc = "ending" THEN "failed" ELSE "crashed"
  /\ outputFile' = IF pc = "ending" \/ outputFile = "opening" THEN "absent" ELSE outputFile
  /\ UNCHANGED <<config, overwriteExisting, lines, output>>

Next ==
  \/ CopyConfig \/ BadConfig \/ OpenOutput
  \/ \E line \in Line : Structure(line) \/ Insert(line) \/ BadLine(line)
  \/ InputError \/ EndOfAlloc
  \/ OutputFinished \/ OutputError

Spec == Init /\ [][Next]_vars

-----------------------------------------------------------------------------
(* Properties *)

TypeOK ==
  /\ config \in Configs
  /\ overwriteExisting \in BOOLEAN
  /\ pc \in {"start", "reading", "ending", "done", "failed", "crashed"}
  /\ lines \in Seq(Line) /\ Len(lines) <= MaxLines
  /\ output \in Seq(Pair)
  /\ \A i \in DOMAIN output : Spelling(output[i].key)
  /\ outputFile \in {"absent", "opening", "partial", "complete"}

\* The config spells all its keys with prefix p and case c.
Form(k, p, c) == k.prefix = p /\ k.head \in {c, "none"} /\ k.tail \in {c, "none"}
SpelledAs(p, c) == \A i \in DOMAIN config : Form(config[i].key, p, c)

\* The spellings the script recognises: lower case, as geth and op-deployer
\* write it, and capitals if the first key has one after its first two
\* characters.
Recognised ==
  \E p \in {"0x", "none"} :
    \/ SpelledAs(p, "lower")
    \/ /\ SpelledAs(p, "upper")
       /\ config # <<>>
       /\ config[1].key.tail = "upper" \/ (p = "0x" /\ config[1].key.head = "upper")

Entries == {i \in DOMAIN lines : lines[i].type = "entry"}

\* The positions of an address in the output, in the config and in the lines.
Written(a) == {i \in DOMAIN output : output[i].key.addr = a}
Configured(a) == {i \in DOMAIN config : config[i].key.addr = a}
Given(a) == {i \in Entries : lines[i].key.addr = a}

\* The entry that a reader of the sequence s takes for an address that is at
\* positions P: the last one.
IsLast(P, i) == i \in P /\ \A j \in P : j <= i

\* Each address of either file is in the output, and what a reader takes from
\* there is the config's entry or, where the config has none or may be
\* overwritten, the last one given.
Winner(a) ==
  IF Given(a) = {} \/ (~overwriteExisting /\ Configured(a) # {})
  THEN {config[i].value : i \in {j \in DOMAIN config : IsLast(Configured(a), j)}}
  ELSE {lines[i].value : i \in {j \in DOMAIN lines : IsLast(Given(a), j)}}

\* However the allocation file spells its keys, the right entry wins at each
\* address.
RightEntryWins ==
  outputFile = "complete" /\ Recognised =>
    \A a \in Addr : {output[i].value : i \in {j \in DOMAIN output : IsLast(Written(a), j)}}
                      = Winner(a)

\* No address is there under two spellings, where JSON readers that keep the
\* first entry, or both, would differ from geth.
OneSpelling ==
  Recognised => \A i, j \in DOMAIN output :
    output[i].key.addr = output[j].key.addr => output[i].key = output[j].key

\* Run again with its own output as the config, and without --overwrite-existing,
\* the script adds nothing, however the config was spelled: the first run leaves
\* its sample where it was, or leaves one that spells like the entries it wrote.
RerunAddsNothing ==
  outputFile = "complete" => \A i \in Entries : PresentIn(output, lines[i].key)

\* "Does NOT overwrite existing config.alloc[addr] entries" (header of the
\* script): however a config writes its keys, its entry stays the last one.
NoOverwrites ==
  ~overwriteExisting =>
    \A a \in Addr : Configured(a) # {} => Written(a) \subseteq DOMAIN config
=============================================================================
