-------------------------- MODULE MCHostDeployment --------------------------
(* Two deployments of two new releases, or of what already runs. *)
EXTENDS HostDeployment
=============================================================================
