---------------------------- MODULE MCDbHandoff ----------------------------
(* A small instance of DbHandoff for TLC. *)
EXTENDS DbHandoff

CONSTANTS t1, t2

MCTxns == {t1, t2}
MCAutocommit == {t2}
=============================================================================
