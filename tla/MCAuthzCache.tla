---------------------------- MODULE MCAuthzCache ----------------------------
(* Small instances of AuthzCache for TLC. *)
EXTENDS AuthzCache
=============================================================================
