------------------------ MODULE MCMigrationPipeline ------------------------
(***************************************************************************)
(* A small instance of MigrationPipeline: every L1 state over two          *)
(* addresses and a handful of accounts, every kind of base genesis, and    *)
(* the dumps a geth node may have written of the state.                    *)
(***************************************************************************)
EXTENDS MigrationPipeline, SequencesExt

CONSTANTS z, p, code1, code2, noCode, badCode, slots, zeros, noStorage, noAddr, noKey, noRoot

MCAddr == {z, p}
MCCode == {code1, code2}
MCStorage == {slots, zeros}
MCZeroSlots == {zeros}
MCKeyOf == [a \in MCAddr |-> IF a = p THEN 1 ELSE 2]

Acct(bal, n, c, s) == [balance |-> bal, nonce |-> n, code |-> c, storage |-> s]

\* Empty; funded; a nonce without code; a contract; one with storage.
MCL1Accounts ==
  {Acct(0, 0, noCode, noStorage), Acct(2, 0, noCode, noStorage),
   Acct(1, 1, noCode, noStorage), Acct(1, 1, code1, noStorage),
   Acct(0, 1, code1, slots)}

\* What a dump without code or slots makes of these.
Stripped == {[d EXCEPT !.code = noCode] : d \in MCL1Accounts}
              \cup {[d EXCEPT !.storage = noStorage] : d \in MCL1Accounts}

MCRecordAccounts == MCL1Accounts \cup Stripped

MCL1States == UNION {[D -> MCL1Accounts] : D \in SUBSET MCAddr}

Predeploy == Acct(1, 1, code1, slots)

MCGenesis ==
  [twice : {FALSE},
   alloc : {<<>>, [a \in {z} |-> Acct(2, 0, noCode, noStorage)], [a \in {p} |-> Predeploy],
            [a \in {p} |-> Acct(2, 0, noCode, zeros)], [a \in {p} |-> Acct(3, 0, noCode, noStorage)],
            [a \in MCAddr |-> IF a = p THEN Predeploy ELSE Acct(1, 0, noCode, noStorage)]}]
    \cup {[twice |-> TRUE, alloc |-> [a \in {z} |-> Predeploy]],
          [twice |-> FALSE, alloc |-> [a \in {p} |-> Acct(0, 0, badCode, noStorage)]]}

MCBases == {g.alloc : g \in MCGenesis}

MCExpectedRoots == {RootOf(s) : s \in MCL1States}

Header(s) == [type |-> "header", root |-> RootOf(s)]

Rec(s, a) ==
  [type |-> "record", key |-> MCKeyOf[a], addr |-> a, account |-> s[a],
   code |-> s[a].code, storage |-> s[a].storage]

RecordsIn(s) ==
  LET InTrie(a) == a \in DOMAIN s
      addrs == SelectSeq(<<p, z>>, InTrie)
  IN  [i \in DOMAIN addrs |-> Rec(s, addrs[i])]

Dump(s, R) == <<Header(s)>> \o R

\* Honest; all keys without addresses, which is an honest dump when the zero
\* address is alone; a record without its address, code or slots; one
\* skipped; out of order; two dumps in one; a dump cut short inside a line;
\* the dump of another state.
MCDumpsOf(s) ==
  LET R == RecordsIn(s)
  IN  {Dump(s, R), Dump(s, Reverse(R)), Dump(s, R \o R), Dump(s, R) \o Dump(s, R),
       Dump(s, R) \o <<[type |-> "junk"]>>}
        \cup {Dump(s, [R EXCEPT ![i].addr = noAddr]) : i \in DOMAIN R}
        \cup {Dump(s, [R EXCEPT ![i].code = noCode]) : i \in DOMAIN R}
        \cup {Dump(s, [R EXCEPT ![i].storage = noStorage]) : i \in DOMAIN R}
        \cup {Dump(s, RemoveAt(R, i)) : i \in DOMAIN R}
        \cup {Dump(t, RecordsIn(t)) : t \in {[a \in {p} |-> Acct(2, 0, noCode, noStorage)]}}
=============================================================================
