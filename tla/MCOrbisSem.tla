---------------------------- MODULE MCOrbisSem ----------------------------
EXTENDS OrbisSem, TLC
CONSTANTS t1, t2, t3
\* t1 is the most urgent thread; t2 and t3 are equals.
MCPrio == [t \in Threads |-> IF t = t1 THEN 1 ELSE 2]
=============================================================================
