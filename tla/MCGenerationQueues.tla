------------------------- MODULE MCGenerationQueues -------------------------
EXTENDS GenerationQueues, TLC

CONSTANTS i1, u1, u2, t1, t2, k1, k2

\* No topics: a topic is answered at once, and nobody waits for it.
NoActors == [t \in Topics |-> u1]

\* The hashes of two themes differ, or they are the same.
MCHashes == {[t \in Themes |-> k1], [t \in Themes |-> IF t = t1 THEN k1 ELSE k2]}

=============================================================================
