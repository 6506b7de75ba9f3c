------------------------------ MODULE MCRwlock ------------------------------
(* Readers and writers, one with a deadline; liveness, so no symmetry. *)
EXTENDS Rwlock
=============================================================================
