-------------------------- MODULE MCRehearsalReset --------------------------
(* Three commits: one before the handoff ends, one in each database after it. *)
EXTENDS RehearsalReset
=============================================================================
