-------------------------- MODULE MCRunnerSettings --------------------------
(* Two endpoints and two updates, one after the other. *)
EXTENDS RunnerSettings
=============================================================================
