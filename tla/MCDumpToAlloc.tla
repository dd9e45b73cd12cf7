--------------------------- MODULE MCDumpToAlloc ---------------------------
(***************************************************************************)
(* A small instance of DumpToAlloc: two addresses, every kind of base      *)
(* entry at each, dumps of up to MaxLines records in any order.            *)
(***************************************************************************)
EXTENDS DumpToAlloc

CONSTANTS z, p, code1, code2, noCode, badCode, slots, noStorage

MCAddr == {z, p}
MCCode == {code1, code2}
MCStorage == {slots}

Acct(bal, n, c, s) == [balance |-> bal, nonce |-> n, code |-> c, storage |-> s]

\* Empty; funded; a nonce without code; the predeploy's code; other code; the
\* predeploy's code with storage of its own.
MCL1Accounts ==
  {Acct(0, 0, noCode, noStorage), Acct(1, 0, noCode, noStorage),
   Acct(0, 1, noCode, noStorage), Acct(1, 1, code1, noStorage),
   Acct(0, 1, code2, noStorage), Acct(0, 1, code1, slots)}

\* A balance only; a predeploy; a contract known by its storage alone.
MCEntries ==
  {Acct(2, 0, noCode, noStorage), Acct(1, 1, code1, slots), Acct(0, 0, noCode, slots)}

MCBases ==
  {<<>>} \cup [{p} -> MCEntries] \cup [MCAddr -> MCEntries]
    \cup {[a \in {p} |-> Acct(0, 0, badCode, noStorage)]}
=============================================================================
