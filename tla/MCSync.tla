------------------------------- MODULE MCSync -------------------------------
(* A small program for Sync.  Liveness is checked, so no symmetry is used. *)
EXTENDS Sync

CONSTANTS t1, t2, t3
=============================================================================
