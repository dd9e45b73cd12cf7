--------------------------- MODULE MCInsertAlloc ---------------------------
(***************************************************************************)
(* A small instance of InsertAlloc: an address whose letters are its first *)
(* two digits, one with a letter further on, and one without.  The config  *)
(* spells each in any way, the allocation file in two ways.                *)
(***************************************************************************)
EXTENDS InsertAlloc

CONSTANTS h, t, d, v, w

MCAddr == {h, t, d}
MCHeadLettered == {h}
MCTailLettered == {t}
MCValue == {v, w}

Keys == {k \in Key : Spelling(k)}
OneEntry == {<<[key |-> k, value |-> v]>> : k \in Keys}
TwoEntries ==
  {<<[key |-> k, value |-> v], [key |-> l, value |-> w]>> :
      <<k, l>> \in {kl \in Keys \X Keys : kl[1].addr # kl[2].addr}}

MCConfigs == {<<>>} \cup OneEntry \cup TwoEntries

\* As dump-to-alloc writes them, and with neither its prefix nor its case.
MCLineKeys ==
  {k \in Keys : k.prefix = "0x" /\ {k.head, k.tail} \subseteq {"lower", "none"}}
    \cup {k \in Keys : k.prefix = "none" /\ {k.head, k.tail} \subseteq {"upper", "none"}}
=============================================================================
