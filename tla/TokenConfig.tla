---------------------------- MODULE TokenConfig ----------------------------
(***************************************************************************)
(* The token configuration, a YAML file with sections of token entries,    *)
(* and its two readers: tokenrecon takes the sections for ERC-20 and       *)
(* ERC-721 tokens, tokensync makes every entry a target whose type is the  *)
(* section's name.                                                         *)
(*                                                                         *)
(* A section's name is a sequence of pieces: letters, digits, separators   *)
(* (blank, '-', '_') and other characters, upper and lower case being one. *)
(* An address is what NormalizeAddress makes of its spelling.              *)
(***************************************************************************)
EXTENDS Integers, Sequences, SequencesExt

CONSTANT Malformed   \* an address without 40 hex digits

Separator == "-"
Unsupported == "."
Digits == {"0", "2", "721", "1155"}

Kind(piece) ==
  CASE piece = Separator -> "separator"
    [] piece = Unsupported -> "other"
    [] piece \in Digits -> "digits"
    [] OTHER -> "letters"


\* Sections are records [name, entries]; a plain address in the file is an
\* entry without rules.
Entry(address, holders, storages, rules) ==
  [address |-> address, holders |-> holders, storages |-> storages, rules |-> rules]

PlainEntry(address) == Entry(address, <<>>, <<>>, <<>>)

\* What a file decodes to: every list in it is a sequence.
IsList(s) == s \in Seq(ToSet(s))

IsConfig(file) ==
  /\ IsList(file)
  /\ \A i \in DOMAIN file :
       /\ IsList(file[i].name) /\ IsList(file[i].entries)
       /\ \A j \in DOMAIN file[i].entries :
            LET entry == file[i].entries[j]
            IN  IsList(entry.holders) /\ IsList(entry.storages) /\ IsList(entry.rules)

NotSeparator(piece) == piece # Separator

\* tokenconfig.Load: a section without a name makes the file unreadable.
Loads(file) == \A i \in DOMAIN file : file[i].name # <<>>

\* Mutated form: separators are kept.
CanonicalSectionName_Verbatim(name) == name

\* The name without its separators.
CanonicalSectionName(name) ==
  LET kept[i \in 0..Len(name)] ==
        IF i = 0 THEN <<>>
        ELSE IF NotSeparator(name[i]) THEN Append(kept[i - 1], name[i]) ELSE kept[i - 1]
  IN  kept[Len(name)]

\* The entries of all sections of a canonical name, in the file's order.
EntriesOf(file, canonical) ==
  FlattenSeq([i \in DOMAIN file |->
                IF CanonicalSectionName(file[i].name) = canonical
                THEN file[i].entries ELSE <<>>])

\* cfg.ERC20, cfg.ERC721
Erc20Name == <<"erc", "2", "0">>
Erc721Name == <<"erc", "721">>
ERC20(file) == EntriesOf(file, Erc20Name)
ERC721(file) == EntriesOf(file, Erc721Name)

-----------------------------------------------------------------------------
(* tokensync *)

\* A piece of the name ends a segment, continues it or starts another one.
AddPiece(name, segments, i) ==
  IF Kind(name[i]) = "separator" THEN segments
  ELSE IF i > 1 /\ Kind(name[i]) = Kind(name[i - 1])
       THEN [segments EXCEPT ![Len(segments)] = Append(@, name[i])]
  ELSE Append(segments, <<name[i]>>)

\* The segments of the name, which are written with dashes between: the runs
\* of letters and of digits.
FormatTokenType(name) ==
  LET segments[i \in 0..Len(name)] ==
        IF i = 0 THEN <<>> ELSE AddPiece(name, segments[i - 1], i)
  IN  segments[Len(name)]

HasTokenType(name) == FormatTokenType(name) # <<>> /\ Unsupported \notin ToSet(name)

\* c.All, each entry with the type of its section.
Listed(file) ==
  FlattenSeq([i \in DOMAIN file |->
                [j \in DOMAIN file[i].entries |->
                   [address |-> file[i].entries[j].address,
                    type |-> FormatTokenType(file[i].name)]]])

\* The first entry for an address makes it a target; the same type again is
\* passed over, another one is an error.
AddTarget(acc, entry) ==
  IF ~acc.ok \/ entry.address = Malformed THEN [acc EXCEPT !.ok = FALSE]
  ELSE IF entry.address \notin DOMAIN acc.types
       THEN [acc EXCEPT !.types = [a \in DOMAIN @ \cup {entry.address} |->
                                     IF a \in DOMAIN @ THEN @[a] ELSE entry.type]]
  ELSE IF acc.types[entry.address] # entry.type THEN [acc EXCEPT !.ok = FALSE]
  ELSE acc

NoTarget == [ok |-> TRUE, types |-> [a \in {} |-> <<>>]]

\* BuildTargets: whether the file is accepted, and the type of each target.
BuildTargets(file) ==
  LET listed == Listed(file)
      built[i \in 0..Len(listed)] ==
        IF i = 0 THEN NoTarget ELSE AddTarget(built[i - 1], listed[i])
  IN  [built[Len(listed)] EXCEPT !.ok = @ /\ \A i \in DOMAIN file : HasTokenType(file[i].name)]

-----------------------------------------------------------------------------

\* The two readers agree on a file that tokensync accepts: the tokens that
\* tokenrecon reconciles under a standard are the targets whose type tokensync
\* writes with the letters and digits of that standard.  No token is stored
\* under one standard and verified under the other, or stored and never
\* verified because of how its section is spelled.
ReadersAgree(file) ==
  LET built == BuildTargets(file)
      types == built.types
      Addresses(entries) == {entries[i].address : i \in DOMAIN entries}
      Typed(canonical) == {a \in DOMAIN types : FlattenSeq(types[a]) = canonical}
  IN  Loads(file) /\ built.ok =>
        /\ Addresses(ERC20(file)) = Typed(Erc20Name)
        /\ Addresses(ERC721(file)) = Typed(Erc721Name)
=============================================================================
