-------------------------- MODULE CampaignOverlap --------------------------
(***************************************************************************)
(* The export pipeline when the lock of a job may expire under a run that  *)
(* is still alive (a blocked event loop, a Redis outage longer than the    *)
(* lock): BullMQ hands the job to another slot and two runs save their own *)
(* copies of the same aggregate over each other.                           *)
(***************************************************************************)
EXTENDS CampaignExport

LockExpires(c) ==
  /\ job[c].st = "active"
  /\ ~Lost(c)
  /\ crashes < MaxCrashes
  /\ crashes' = crashes + 1
  /\ Redeliver(c)

OverlapNext == Next \/ \E c \in Campaigns : LockExpires(c)

OverlapSpec == Init /\ [][OverlapNext]_vars /\ Fairness

============================================================================
