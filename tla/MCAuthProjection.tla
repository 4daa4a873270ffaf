--------------------------- MODULE MCAuthProjection ---------------------------
(* Two writes, of the sessions of two users and of a CSRF token. *)
EXTENDS AuthProjection
=============================================================================
