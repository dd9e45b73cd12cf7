---------------------------- MODULE MCStateRecon ----------------------------
(***************************************************************************)
(* A small instance of StateRecon: a few accounts of every kind, pages of  *)
(* up to PageSize accounts, batches and chunks that fit neither.           *)
(***************************************************************************)
EXTENDS StateRecon

K(preimage, contract, differs) ==
  [preimage |-> preimage, contract |-> contract, differs |-> differs]

\* An account and a contract that are the same on L2, a contract with other
\* code there, an account without its address.
MCKinds ==
  {K(TRUE, FALSE, {}), K(TRUE, TRUE, {}), K(TRUE, TRUE, {"code_hash"}), K(FALSE, FALSE, {})}

\* All alike: what the resumption covers does not depend on the accounts.
OneKind == {K(TRUE, FALSE, {})}
=============================================================================
