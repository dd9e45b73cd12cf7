---------------------------- MODULE MCDumpCheck ----------------------------
(***************************************************************************)
(* A small instance of DumpCheck: two addresses, any dump and any          *)
(* allocation over a handful of accounts, with a modulus of 3 so that a    *)
(* merged balance wraps around.                                            *)
(***************************************************************************)
EXTENDS DumpCheck

CONSTANTS z, p, code1, code2, noCode, badCode, slots, zeros, noStorage, noAddr, noKey, noRoot

MCAddr == {z, p}
MCCode == {code1, code2}
MCStorage == {slots, zeros}
MCZeroSlots == {zeros}
MCKeyOf == [a \in MCAddr |-> IF a = p THEN 1 ELSE 2]

Acct(bal, n, c, s) == [balance |-> bal, nonce |-> n, code |-> c, storage |-> s]

Empty == Acct(0, 0, noCode, noStorage)
Funded == Acct(2, 0, noCode, noStorage)
Contract == Acct(1, 1, code1, noStorage)

\* The last one may be merged nowhere.
MCAccounts == {Empty, Funded, Contract, Acct(1, 1, noCode, noStorage)}

States == UNION {[D -> MCAccounts] : D \in SUBSET MCAddr}
MCRootOf(s) == {[key |-> MCKeyOf[a], account |-> s[a]] : a \in DOMAIN s}

Rec(k, a, acct, c) ==
  [type |-> "record", key |-> k, addr |-> a, account |-> acct,
   code |-> c, storage |-> acct.storage]

\* Well-formed records with and without a key, records with the key alone,
\* one with the other address's key, one with neither, and code left out.
MCDumpLines ==
  {[type |-> "header", root |-> MCRootOf(s)] : s \in States} \cup {[type |-> "junk"]}
    \cup {Rec(MCKeyOf[a], a, d, d.code) : a \in MCAddr, d \in MCAccounts}
    \cup {Rec(noKey, a, d, d.code) : a \in MCAddr, d \in {Funded}}
    \cup {Rec(MCKeyOf[a], noAddr, d, d.code) : a \in MCAddr, d \in {Empty, Funded}}
    \cup {Rec(2, p, Funded, noCode), Rec(noKey, noAddr, Funded, noCode),
          Rec(1, p, Contract, noCode), Rec(1, p, Acct(3, 0, noCode, noStorage), noCode)}

\* The merges of a predeploy with each account, and what a broken converter
\* might write instead.
MCAllocPairs ==
  [addr : MCAddr,
   entry : MCAccounts \cup {Acct(2, 1, code1, slots), Acct(1, 1, code1, slots),
                            Acct(4, 1, code1, slots)}]
    \cup {[addr |-> p, entry |-> Acct(2, 0, badCode, noStorage)],
          [addr |-> p, entry |-> Acct(0, 0, noCode, zeros)]}

MCBases ==
  {<<>>, [a \in {z} |-> Funded], [a \in {p} |-> Acct(2, 1, code1, slots)],
   [a \in {p} |-> Acct(0, 0, noCode, zeros)]}

MCGenesis ==
  [twice : {FALSE}, alloc : MCBases]
    \cup {[twice |-> TRUE, alloc |-> [a \in {z} |-> Funded]],
          [twice |-> FALSE, alloc |-> [a \in {p} |-> Acct(0, 0, badCode, noStorage)]]}

MCExpectedRoots == {noRoot, MCRootOf([a \in MCAddr |-> Funded])}
=============================================================================
