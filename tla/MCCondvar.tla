----------------------------- MODULE MCCondvar -----------------------------
EXTENDS CondvarMonitor, TLC
Symmetry == Permutations(Threads \ (TimedWaiters \cup Cancellable))
=============================================================================
