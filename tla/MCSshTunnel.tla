---------------------------- MODULE MCSshTunnel ----------------------------
(***************************************************************************)
(* Two invocations that may overlap or follow one another, and a host with *)
(* two keys.  They meet in the trust store only, so one of them may dial.  *)
(***************************************************************************)
EXTENDS SshTunnel

CONSTANTS p1, p2, k1, k2

MCProc == {p1, p2}
MCKey == {k1, k2}
MCMaxAttempts == [p \in MCProc |-> IF p = p1 THEN 2 ELSE 0]
=============================================================================
