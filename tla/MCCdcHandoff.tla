---------------------------- MODULE MCCdcHandoff ----------------------------
(* One trip request beside two commits: one may be lost between source and target. *)
EXTENDS CdcHandoff
=============================================================================
