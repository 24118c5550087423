---------------------------- MODULE MCSpaSession ----------------------------
(* Small instances of SpaSession for TLC: all calls are made in the first tab. *)
EXTENDS SpaSession

CONSTANT t1
MCHome == [c \in Calls |-> t1]
=============================================================================
