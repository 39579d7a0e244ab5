------------------------------ MODULE Bookings ------------------------------
(***************************************************************************)
(* Leads and the inspections booked for them (src/src/modules/appointments *)
(* and availability), for one day that can be booked.  A request reads in  *)
(* its transaction, writes and commits; other requests commit in between.  *)
(* An update saves the row it has read as a whole, and what is mailed is   *)
(* decided by that image, their address by the row of then.  Date and time *)
(* of an inspection go together.                                           *)
(***************************************************************************)
EXTENDS Slots

CONSTANTS
  Leads,     \* identities of rows
  Addresses, \* addresses of mail
  Requests,  \* requests, served once each
  Times,     \* times the office picks
  Openings,  \* opening times the office sets
  None,      \* null
  Keep,      \* undefined: a field an update leaves out
  MaxEdits,  \* bound: changes of the rule and of the exceptions
  MaxFaults  \* bound: transactions that fail, crashes, mails that fail

ASSUME BookingsAssumption ==
  /\ Times \subseteq Minutes /\ Openings \subseteq Minutes /\ None \notin Times \union Leads
  /\ MaxEdits \in Nat /\ MaxFaults \in Nat

\* null and undefined are no values.
ASSUME NullsAssumption ==
  /\ None \notin {"New", "Called", "Pending", "Declined", "Confirmed"}
  /\ Keep \notin Times \union Addresses \union {None}

VARIABLES
  row,       \* appointments
  req,       \* what each request does
  rule,      \* the rule of the weekday
  exception, \* the exception for the day
  told,      \* whether the client knows the inspection as it stands (auxiliary)
  edits, faults

vars == <<row, req, rule, exception, told, edits, faults>>

LeadStatuses == {None, "New", "Called", "Pending", "Declined"}
Inspections  == {None, "Pending", "Confirmed", "Declined"}

Row == [exists : BOOLEAN, live : BOOLEAN, email : Addresses \union {None},
        lead : LeadStatuses, insp : Inspections, time : Times \union {None}]
NoRow == [exists |-> FALSE, live |-> FALSE, email |-> None,
          lead |-> None, insp |-> None, time |-> None]
NewRow(email) == [NoRow EXCEPT !.exists = TRUE, !.live = TRUE, !.email = email]

\* The fields an update may give.
Patch(lead, insp, time, email) == [lead |-> lead, insp |-> insp, time |-> time, email |-> email]

Idle(pc) == [pc |-> pc, op |-> "", id |-> None, img |-> NoRow,
             patch |-> Patch(Keep, Keep, Keep, Keep), opening |-> None, unseen |-> FALSE, outdated |-> FALSE, says |-> {}]

\* A new lead, and perhaps one that may be deleted and may have an inspection.
Init ==
  /\ \E a, b \in Leads, e, f \in Addresses, exists \in BOOLEAN, live \in BOOLEAN,
        insp \in {None, "Confirmed"}, time \in Times \union {None} :
       /\ a # b /\ (live => e # f)
       /\ row = [l \in Leads |->
                   CASE l = a -> NewRow(e)
                     [] l = b /\ exists ->
                          [NewRow(f) EXCEPT !.live = live, !.insp = insp, !.time = time]
                     [] OTHER -> NoRow]
       /\ told = [l \in Leads |-> IF l = b THEN "yes" ELSE "no"]
  /\ req = [r \in Requests |-> Idle("new")]
  /\ rule \in [open : {TRUE}, start : Openings]
  /\ exception = "none"
  /\ edits = 0 /\ faults = 0

Fault == faults < MaxFaults /\ faults' = faults + 1

\* MUTANT of Taken: deleted leads keep their times.
TakenByAny(rows) ==
  {rows[l].time : l \in {k \in Leads : rows[k].time # None
                                       /\ rows[k].insp \in {"Pending", "Confirmed"}}}

\* findAppointmentTimesOnDate: SQL's NOT IN drops the rows without a status too.
Taken(rows) ==
  {rows[l].time : l \in {k \in Leads : rows[k].live /\ rows[k].time # None
                                       /\ rows[k].insp \in {"Pending", "Confirmed"}}}

\* s carries a time it has picked.
HasPicked(s) ==
  \/ req[s].patch.time \in Times
  \/ req[s].op = "create" /\ req[s].img.time \in Times

\* The requests after r has ended as q and the rows have become rows (auxiliary
\* marks: another request has an image, or an offer, older than this write).
Marked(r, q, S, rows) ==
  [s \in Requests |->
     IF s = r THEN q
     ELSE [req[s] EXCEPT !.unseen   = @ \/ (req[s].pc = "commit" /\ req[s].id \in S),
                         !.outdated = @ \/ (HasPicked(s) /\ Taken(rows) # Taken(row))]]

----------------------------------------------------------------------------
(* The office picks a time from the slots it is offered.                   *)

\* getTimeSlots reads the exception, where one that opens the day leaves it to the
\* rule, and the rule,
AskSlots(r) ==
  /\ req[r].pc = "new"
  /\ exception # "closed" /\ rule.open
  /\ req' = [req EXCEPT ![r].pc = "asked", ![r].opening = rule.start]
  /\ UNCHANGED <<row, rule, exception, told, edits, faults>>

\* and then the inspections of the day; the form keeps one of the starts.
PickSlot(r) ==
  /\ req[r].pc = "asked"
  /\ \E t \in Times \intersect Generated(req[r].opening, Taken(row)) :
       req' = [req EXCEPT ![r].pc = "picked", ![r].opening = None, ![r].patch.time = t]
  /\ UNCHANGED <<row, rule, exception, told, edits, faults>>

----------------------------------------------------------------------------
(* Requests about leads.                                                   *)

\* The partial unique index on the addresses of rows that are not deleted.
Conflict(rows) ==
  \E l, k \in Leads : l # k /\ rows[l].live /\ rows[k].live
                      /\ rows[l].email = rows[k].email /\ rows[l].email # None

\* What the form of a new lead holds: the office may book an inspection at once.
Forms(r, e) ==
  IF req[r].pc = "new" THEN {NewRow(e)}
  ELSE {[NewRow(e) EXCEPT !.insp = i, !.time = req[r].patch.time] : i \in {"Pending", "Confirmed"}}

\* CreateAppointmentHandler looks for the address, if any, before its transaction,
LookUp(r, e) ==
  /\ req[r].pc \in {"new", "picked"}
  /\ LET duplicate == e # None /\ \E l \in Leads : row[l].live /\ row[l].email = e
     IN  IF duplicate THEN req' = [req EXCEPT ![r] = Idle("done")]
         ELSE \E form \in Forms(r, e) :
                req' = [req EXCEPT ![r] = [Idle("commit") EXCEPT !.op = "create", !.img = form,
                                                                 !.outdated = req[r].outdated]]
  /\ UNCHANGED <<row, rule, exception, told, edits, faults>>

\* and inserts; the index turns down the loser of two.
Insert(r, l) ==
  LET rows == [row EXCEPT ![l] = req[r].img] IN
  /\ req[r].pc = "commit" /\ req[r].op = "create" /\ ~row[l].exists
  /\ IF Conflict(rows)
     THEN req' = [req EXCEPT ![r] = Idle("done")] /\ UNCHANGED <<row, told>>
     ELSE /\ row' = rows
          /\ req' = Marked(r, Idle("done"), {}, rows)
          /\ told' = [told EXCEPT ![l] = "excused"]
  /\ UNCHANGED <<rule, exception, edits, faults>>

Patches == {Patch(s, Keep, Keep, Keep) : s \in LeadStatuses \ {None}}
     \union {Patch(Keep, i, Keep, Keep) : i \in Inspections}
     \union {Patch(Keep, Keep, None, Keep)}
     \union {Patch(Keep, Keep, Keep, e) : e \in Addresses \union {None}}

\* MUTANT of CanMove: a lead that has declined may be called again.
CanMoveBack(from, to) == <<from, to>> # <<"Declined", "Pending">>

\* StatusLeadValue.transitionTo; a lead without a status counts as new.
CanMove(from, to) ==
  to \in CASE from \in {None, "New"} -> {"Called", "Pending", "Declined"}
           [] from = "Called"        -> {"Pending", "Declined"}
           [] from = "Pending"       -> {"Called", "Declined"}
           [] from = "Declined"      -> {}

\* UpdateAppointmentHandler reads the row and refuses a transition it does not allow.
ReadToUpdate(r, l) ==
  /\ row[l].live
  /\ \E patch \in IF req[r].pc = "picked"
                  THEN {[req[r].patch EXCEPT !.insp = i] : i \in {Keep, "Confirmed"}}
                  ELSE IF req[r].pc = "new" THEN Patches ELSE {} :
       /\ patch.lead = Keep \/ CanMove(row[l].lead, patch.lead)
       /\ req' = [req EXCEPT ![r].pc = "commit", ![r].op = "update", ![r].id = l,
                             ![r].img = row[l], ![r].patch = patch]
  /\ UNCHANGED <<row, rule, exception, told, edits, faults>>

\* MUTANT of Updated: an update that leaves the address out clears it.
UpdatedClears(img, patch) ==
  [img EXCEPT !.lead  = IF patch.lead = Keep THEN @ ELSE patch.lead,
              !.insp  = IF patch.insp = Keep THEN @ ELSE patch.insp,
              !.time  = IF patch.time = Keep THEN @ ELSE patch.time,
              !.email = IF patch.email = Keep THEN None ELSE patch.email]

\* What an update makes of the image it has read.
Updated(img, patch) ==
  [img EXCEPT !.lead  = IF patch.lead = Keep THEN @ ELSE patch.lead,
              !.insp  = IF patch.insp = Keep THEN @ ELSE patch.insp,
              !.time  = IF patch.time = Keep THEN @ ELSE patch.time,
              !.email = IF patch.email = Keep THEN @ ELSE patch.email]

\* MUTANT of Announced: an inspection is put off only while it is confirmed first.
AnnouncedOnce(img, new) ==
  {s \in {"confirmed"} : img.insp # "Confirmed" /\ new.insp = "Confirmed"}

\* inspectionConfirmed and reschedule: of the image, not of the row.
Announced(img, new) ==
  {s \in {"confirmed"} : img.insp # "Confirmed" /\ new.insp = "Confirmed"}
  \union {s \in {"rescheduled"} : img.time # None /\ new.time # img.time}

\* What the client knows after l has become new (auxiliary): overlapping requests,
\* a deletion, and a first date after the confirmation are not announced.
Knows(l, r, new) ==
  IF \/ told[l] = "excused" \/ req[r].unseen \/ ~new.live
     \/ row[l].insp = "Confirmed" /\ row[l].time = None /\ new.time # None
  THEN "excused"
  ELSE IF new.time # row[l].time \/ (new.insp = "Confirmed" /\ row[l].insp # "Confirmed")
  THEN "no" ELSE told[l]

Ended(l, says) == IF says = {} THEN Idle("done") ELSE [Idle("tell") EXCEPT !.id = l, !.says = says]

\* The row is saved whole but for deletedAt, audited and committed, unless the
\* index turns its address down.
Update(r) ==
  LET l    == req[r].id
      new  == [Updated(req[r].img, req[r].patch) EXCEPT !.live = row[l].live]
      rows == [row EXCEPT ![l] = new]
  IN  /\ req[r].pc = "commit" /\ req[r].op = "update"
      /\ IF Conflict(rows)
         THEN req' = [req EXCEPT ![r] = Idle("done")] /\ UNCHANGED <<row, told>>
         ELSE /\ row' = rows
              /\ req' = Marked(r, Ended(l, Announced(req[r].img, new)), {l}, rows)
              /\ told' = [told EXCEPT ![l] = Knows(l, r, new)]
      /\ UNCHANGED <<rule, exception, edits, faults>>

\* Delete and restore look for the row, and then write deletedAt alone.
ReadToDelete(r, l) ==
  /\ req[r].pc = "new" /\ row[l].live
  /\ req' = [req EXCEPT ![r].pc = "commit", ![r].op = "delete", ![r].id = l]
  /\ UNCHANGED <<row, rule, exception, told, edits, faults>>

Delete(r) ==
  LET l == req[r].id  rows == [row EXCEPT ![l].live = FALSE] IN
  /\ req[r].pc = "commit" /\ req[r].op = "delete"
  /\ row' = rows
  /\ req' = Marked(r, Ended(l, {"cancelled"}), {l}, rows)
  /\ told' = [told EXCEPT ![l] = "excused"]
  /\ UNCHANGED <<rule, exception, edits, faults>>

\* MUTANT of RestoreAll: the address may have been taken since.
RestoreAnyway(r, S) ==
  LET rows == [l \in Leads |-> IF l \in S THEN [row[l] EXCEPT !.live = TRUE] ELSE row[l]] IN
  /\ row' = rows /\ req' = Marked(r, Idle("done"), S, rows)
  /\ UNCHANGED <<rule, exception, told, edits, faults>>

\* All of S or, if the index turns one of them down, none.
RestoreAll(r, S) ==
  LET rows == [l \in Leads |-> IF l \in S THEN [row[l] EXCEPT !.live = TRUE] ELSE row[l]] IN
  /\ IF Conflict(rows)
     THEN req' = [req EXCEPT ![r] = Idle("done")] /\ UNCHANGED row
     ELSE row' = rows /\ req' = Marked(r, Idle("done"), S, rows)
  /\ UNCHANGED <<rule, exception, told, edits, faults>>

ReadToRestore(r, l) ==
  /\ req[r].pc = "new" /\ row[l].exists
  /\ req' = [req EXCEPT ![r].pc = "commit", ![r].op = "restore", ![r].id = l]
  /\ UNCHANGED <<row, rule, exception, told, edits, faults>>

Restore(r) == req[r].pc = "commit" /\ req[r].op = "restore" /\ RestoreAll(r, {req[r].id})

\* The bulk requests: one statement, without a read and without a mail.
BulkRestore(r, S) ==
  /\ req[r].pc = "new"
  /\ \E l \in S : row[l].exists /\ ~row[l].live
  /\ RestoreAll(r, {l \in S : row[l].exists})

BulkDelete(r, S) ==
  LET rows == [l \in Leads |-> IF l \in S THEN [row[l] EXCEPT !.live = FALSE] ELSE row[l]] IN
  /\ req[r].pc = "new"
  /\ \E l \in S : row[l].live
  /\ row' = rows
  /\ req' = Marked(r, Idle("done"), S, rows)
  /\ told' = [l \in Leads |-> IF l \in S /\ row[l].live THEN "excused" ELSE told[l]]
  /\ UNCHANGED <<rule, exception, edits, faults>>

\* The write or its strict audit entry fails, and the transaction rolls back.
CommitFails(r) ==
  /\ req[r].pc = "commit"
  /\ Fault
  /\ req' = [req EXCEPT ![r] = Idle("done")]
  /\ UNCHANGED <<row, rule, exception, told, edits>>

\* The listeners of a change load the row again, which a deleted lead does not pass;
\* there is no mail to a lead without an address.
Tell(r) ==
  LET l == req[r].id IN
  /\ req[r].pc = "tell"
  /\ told' = IF req[r].says = {"cancelled"} \/ ~row[l].live THEN told
             ELSE [told EXCEPT ![l] = IF row[l].email = None THEN "excused" ELSE "yes"]
  /\ req' = [req EXCEPT ![r] = Idle("done")]
  /\ UNCHANGED <<row, rule, exception, edits, faults>>

\* The backend stops after the commit, or the mail fails: nothing is sent again.
TellFails(r) ==
  /\ req[r].pc = "tell"
  /\ Fault
  /\ told' = [told EXCEPT ![req[r].id] = "excused"]
  /\ req' = [req EXCEPT ![r] = Idle("done")]
  /\ UNCHANGED <<row, rule, exception, edits>>

----------------------------------------------------------------------------
(* The rule and the exceptions of the day.                                 *)

\* Every offer taken before is of the past (auxiliary).
Outdate ==
  req' = [r \in Requests |-> IF req[r].pc = "asked" \/ HasPicked(r)
                             THEN [req[r] EXCEPT !.outdated = TRUE] ELSE req[r]]

Edit == edits < MaxEdits /\ edits' = edits + 1

\* upsertRule.
UpsertRule ==
  /\ Edit
  /\ rule' \in [open : BOOLEAN, start : Openings] \ {rule}
  /\ Outdate
  /\ UNCHANGED <<row, exception, told, faults>>

\* createException, updateException, deleteException, restoreException: a look for
\* another exception of the date, and a unique index behind it.
ChangeException ==
  /\ Edit
  /\ exception' \in Exceptions \ {exception}
  /\ Outdate
  /\ UNCHANGED <<row, rule, told, faults>>

----------------------------------------------------------------------------

Next ==
  \/ \E r \in Requests :
       \/ AskSlots(r) \/ PickSlot(r)
       \/ \E e \in Addresses \union {None} : LookUp(r, e)
       \/ \E l \in Leads :
            Insert(r, l) \/ ReadToUpdate(r, l) \/ ReadToDelete(r, l) \/ ReadToRestore(r, l)
       \/ \E S \in SUBSET Leads : BulkDelete(r, S) \/ BulkRestore(r, S)
       \/ Update(r) \/ Delete(r) \/ Restore(r) \/ CommitFails(r) \/ Tell(r) \/ TellFails(r)
  \/ UpsertRule \/ ChangeException

Spec == Init /\ [][Next]_vars

----------------------------------------------------------------------------
(* Properties.                                                             *)

\* Every variable keeps its type, and no two leads that are not deleted share an
\* address, whichever of two submissions or of a restoration comes first.
TypeOK ==
  /\ row \in [Leads -> Row]
  /\ \A l, k \in Leads : l # k /\ row[l].live /\ row[k].live /\ row[l].email # None
                         => row[l].email # row[k].email
  /\ \A r \in Requests : req[r].pc \in {"new", "asked", "picked", "commit", "tell", "done"}
                         /\ req[r].img \in Row
  /\ rule \in Rules /\ exception \in Exceptions /\ told \in [Leads -> {"yes", "no", "excused"}]
  /\ edits \in 0 .. MaxEdits /\ faults \in 0 .. MaxFaults

Writes(r) == req[r].pc = "commit" /\ req'[r].pc # "commit"

Far(t, u) == t - u > 420 \/ u - t > 420

\* A time picked from the slots on offer is booked more than seven hours from
\* every other inspection that counts, on a day that is open: what breaks this is
\* a booking, a restoration or a change of status between the offer and the save.
BookingsAreSpaced ==
  [][\A r \in Requests, l \in Leads :
       Writes(r) /\ ~req[r].outdated /\ HasPicked(r) /\ row'[l] # row[l] =>
         /\ exception # "closed" /\ rule.open
         /\ \A k \in Leads \ {l} :
              row[k].live /\ row[k].insp \in {"Pending", "Confirmed"} /\ row[k].time # None
              => Far(row'[l].time, row[k].time)]_vars

\* A lead that has declined stays so: only an update that had read the row before
\* brings an older status back.
DeclinedIsFinal ==
  [][\A l \in Leads :
       row[l].lead = "Declined" /\ row'[l].lead # "Declined" =>
         \E r \in Requests : Writes(r) /\ req[r].id = l /\ req[r].unseen]_vars

\* The address of a lead changes only by an update that gives the new one, or by
\* an update of anything else that had read the row before another request wrote
\* it, and saves the address of then.
AddressesAreKept ==
  [][\A l \in Leads :
       row[l].exists /\ row'[l].email # row[l].email =>
         \E r \in Requests : /\ Writes(r) /\ req[r].id = l
                             /\ req[r].unseen \/ req[r].patch.email = row'[l].email]_vars

\* A client whose inspection is confirmed has been told of it as it stands, or is
\* about to be: only an update that overlaps with another one, a deletion, a
\* failure after the commit, a first date given after the confirmation, or the lack
\* of an address keeps the news from them, as Knows and Tell say.
ConfirmedAreTold ==
  \A l \in Leads : row[l].live /\ row[l].insp = "Confirmed" /\ told[l] = "no" =>
    \E r \in Requests : req[r].pc = "tell" /\ req[r].id = l

\* Leads are consistent: no two share an address, and whoever is confirmed has
\* been told.
LeadsAreConsistent == TypeOK /\ ConfirmedAreTold

=============================================================================
