----------------------------- MODULE MCVideoOut -----------------------------
(* One guest, two frame buffers and a CPU one; liveness, so no symmetry. *)
EXTENDS VideoOut
=============================================================================
