---------------------------- MODULE GuestThreads ----------------------------
(***************************************************************************)
(* The guest threads that call into a synchronization object, and where    *)
(* each of them is in its call.                                            *)
(***************************************************************************)
CONSTANT Threads

VARIABLE pc

Goto(t, label) == pc' = [pc EXCEPT ![t] = label]
=============================================================================
