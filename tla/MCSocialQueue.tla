--------------------------- MODULE MCSocialQueue ----------------------------
EXTENDS SocialQueue, TLC

CONSTANTS t1, i1, u1, u2

\* The topic belongs to the first user.
ActorOfTopics == [t \in Topics |-> u1]

============================================================================
