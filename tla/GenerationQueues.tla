-------------------------- MODULE GenerationQueues --------------------------
(***************************************************************************)
(* The two queues a user of the module posts waits for: that of previews   *)
(* of blog posts (Previews) and that of packages for social networks       *)
(* (SocialQueue).  They share no state: one of them, chosen at the start,  *)
(* moves, and the other stays as it is at first, when nothing in it waits  *)
(* for a step that has to come.                                            *)
(***************************************************************************)
EXTENDS Previews

CONSTANTS Topics, Ideas, Users, Actor, NoKey, NoUser,
          MaxAttempts, MaxStalls, MaxAsks, MaxDeletes, MaxFaults, MaxCrashes

VARIABLES
  part,
  job, runs, work, rows, links, bucket, cache, client, submits, blamed,
  deleted, faults, crashes

Packages == INSTANCE SocialQueue

ASSUME BlogAssumption == PreviewsAssumption

packageVars == <<job, runs, work, rows, links, bucket, cache, client, submits, blamed,
                 deleted, faults, crashes>>
allVars     == <<part, previewVars, packageVars>>

QueuesInit ==
  /\ part \in {"packages", "previews"}
  /\ Init /\ Packages!Init
  /\ part = "packages" => hash = CHOOSE h \in Hashes : TRUE

QueuesNext ==
  /\ UNCHANGED part
  /\ \/ part = "packages" /\ Packages!Next /\ UNCHANGED previewVars
     \/ part = "previews" /\ Next /\ UNCHANGED packageVars

QueuesSpec == QueuesInit /\ [][QueuesNext]_allVars /\ Fairness /\ Packages!Fairness

----------------------------------------------------------------------------
(* A property of both parts; that of the previews alone is PreviewsAreKept. *)

\* Whatever is asked of either queue comes to an end: requests are bounded in
\* number, so that each is answered, refused, or lost with its process (SocialQueue,
\* Previews).
QueuesDrain == []<>(Packages!Drained /\ NobodyWaits)

=============================================================================
