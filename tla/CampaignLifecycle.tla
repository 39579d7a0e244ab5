------------------------- MODULE CampaignLifecycle -------------------------
(***************************************************************************)
(* What the campaigns module promises its users about one generation: the  *)
(* status a GET returns, and the final outcomes the gateway pushes.  No    *)
(* transaction, queue, worker or retry appears here; CampaignExport is     *)
(* shown to implement it.                                                  *)
(***************************************************************************)

CONSTANT Campaigns

VARIABLES
  accepted, \* campaigns whose request was committed
  status,   \* what GET /campaigns/:id/status answers; "absent" is a 404
  told      \* the final outcomes pushed over the web socket, per campaign

vars == <<accepted, status, told>>

Outcomes == {"completed", "partial", "failed"}
Statuses == {"absent", "pending", "processing"} \union Outcomes

Init ==
  /\ accepted = {}
  /\ status   = [c \in Campaigns |-> "absent"]
  /\ told     = [c \in Campaigns |-> {}]

Accept(c) ==
  /\ c \notin accepted
  /\ accepted' = accepted \union {c}
  /\ status'   = [status EXCEPT ![c] = "pending"]
  /\ UNCHANGED told

Start(c) ==
  /\ status[c] = "pending"
  /\ status' = [status EXCEPT ![c] = "processing"]
  /\ UNCHANGED <<accepted, told>>

Finish(c) ==
  /\ status[c] = "processing"
  /\ \E o \in Outcomes : status' = [status EXCEPT ![c] = o]
  /\ UNCHANGED <<accepted, told>>

\* A run that dies on an error leaves "failed", whatever stood there before.
Fail(c) ==
  /\ status[c] # "absent"
  /\ status' = [status EXCEPT ![c] = "failed"]
  /\ UNCHANGED <<accepted, told>>

Delete(c) ==
  /\ status[c] # "absent"
  /\ status' = [status EXCEPT ![c] = "absent"]
  /\ UNCHANGED <<accepted, told>>

\* The outcome a user is told is the one stored, unless the campaign has
\* just been deleted.
Tell(c) ==
  /\ c \in accepted
  /\ \E o \in Outcomes :
       /\ status[c] \in {o, "absent"}
       /\ told' = [told EXCEPT ![c] = @ \union {o}]
  /\ UNCHANGED <<accepted, status>>

Next ==
  \E c \in Campaigns :
    Accept(c) \/ Start(c) \/ Finish(c) \/ Fail(c) \/ Delete(c) \/ Tell(c)

Spec == Init /\ [][Next]_vars

============================================================================
