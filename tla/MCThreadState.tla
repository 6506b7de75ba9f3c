--------------------------- MODULE MCThreadState ----------------------------
(* The main thread and two more; liveness, so no symmetry. *)
EXTENDS ThreadState
=============================================================================
