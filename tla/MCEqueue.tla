------------------------------ MODULE MCEqueue ------------------------------
(* A waiter, a poller and one event of each kind; liveness, so no symmetry. *)
EXTENDS Equeue
=============================================================================
