---------------------------- MODULE MCTokenSync ----------------------------
(***************************************************************************)
(* Two tokens and two runs, forced or not, which may overlap or follow one *)
(* another; supplies of up to five characters for the records they write.  *)
(***************************************************************************)
EXTENDS TokenSync

CONSTANTS t1, t2, r1, r2, noContract, chain, noRow, noToken

MCToken == {t1, t2}
MCRun == {r1, r2}

Symmetry == Permutations(MCRun)

Characters == {0, 5, Dot, Plus, Minus, Exponent}

MCTexts == UNION {[1..n -> Characters] : n \in 0..5}
=============================================================================
