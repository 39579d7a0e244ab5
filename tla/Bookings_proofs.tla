---------------------------- MODULE Bookings_proofs ----------------------------
(***************************************************************************)
(* Proofs about Bookings: leads stay consistent, a lead that has declined  *)
(* stays so, an address changes only on purpose or by an overlap, and what *)
(* is booked from an offer that still holds is far from every other        *)
(* inspection.                                                             *)
(***************************************************************************)
EXTENDS Bookings, TLAPS

----------------------------------------------------------------------------
(* The inductive invariant.                                                *)

Patched  == [lead : LeadStatuses \union {Keep}, insp : Inspections \union {Keep},
             time : Times \union {None, Keep}, email : Addresses \union {None, Keep}]
ReqType  == [pc : {"new", "asked", "picked", "commit", "tell", "done"},
             op : {"", "create", "update", "delete", "restore"}, id : Leads \union {None},
             img : Row, patch : Patched, opening : Openings \union {None},
             unseen : BOOLEAN, outdated : BOOLEAN,
             says : SUBSET {"confirmed", "rescheduled", "cancelled"}]
Untouched == Patch(Keep, Keep, Keep, Keep)

\* What a request holds fits the step it is at.
Shaped(rec) ==
  /\ rec \in ReqType
  /\ rec.pc \in {"new", "asked", "picked"} => rec.op = "" /\ ~rec.unseen
  /\ rec.pc \in {"new", "asked"} => rec.patch = Untouched
  /\ rec.pc = "picked" => \E t \in Times : rec.patch = Patch(Keep, Keep, t, Keep)
  /\ rec.pc = "commit" =>
       /\ rec.op # ""
       /\ IF rec.op = "create" THEN rec.img.exists ELSE rec.id \in Leads
       /\ IF rec.op = "update" THEN rec.patch.lead = Keep \/ CanMove(rec.img.lead, rec.patch.lead)
          ELSE rec.patch = Untouched
  /\ rec.pc = "tell" => rec.id \in Leads
  /\ rec.pc \in {"tell", "done"} => rec.op = "" /\ rec.patch = Untouched

TypeInv ==
  /\ row \in [Leads -> Row]
  /\ \A l \in Leads : ~row[l].exists => row[l] = NoRow
  /\ req \in [Requests -> ReqType] /\ \A r \in Requests : Shaped(req[r])
  /\ rule \in [open : BOOLEAN, start : Openings] /\ exception \in Exceptions
  /\ told \in [Leads -> {"yes", "no", "excused"}]
  /\ edits \in 0 .. MaxEdits /\ faults \in 0 .. MaxFaults

\* What a request knows of the row it is going to write.
Knowing(rec) ==
  rec.pc = "commit" /\ rec.op # "create" =>
    /\ row[rec.id].exists
    /\ rec.op = "update" => rec.img.exists /\ (rec.unseen \/ rec.img = row[rec.id])

RowsInv == ~Conflict(row) /\ \A r \in Requests : Knowing(req[r])

\* A mail to the client of l is about to be sent.
Telling(r, l) == req[r].pc = "tell" /\ req[r].id = l /\ req[r].says # {"cancelled"}

ToldInv ==
  \A l \in Leads : told[l] = "no" /\ row[l].exists =>
    row[l].live /\ (row[l].insp = "Confirmed" => \E r \in Requests : Telling(r, l))

\* What is on offer, and what was picked from it.
Picked(rec) == IF rec.op = "create" THEN rec.img.time ELSE rec.patch.time
Offered(rec) ==
  ~rec.outdated =>
    /\ rec.pc = "asked" => exception # "closed" /\ rule.open /\ rec.opening = rule.start
    /\ Picked(rec) \in Times =>
         exception # "closed" /\ rule.open /\ Picked(rec) \in Generated(rule.start, Taken(row))

OffersInv == \A r \in Requests : Offered(req[r])

BInv == TypeInv /\ RowsInv /\ ToldInv /\ OffersInv

----------------------------------------------------------------------------
(* The records the requests hold.                                          *)

\* Null is no status, and an absent field is no time.
LEMMA Nulls ==
  /\ None \notin {"New", "Called", "Pending", "Declined", "Confirmed"}
  /\ Keep \notin Times \union Addresses \union {None} /\ None \notin Times /\ None \notin Leads
BY BookingsAssumption, NullsAssumption

LEMMA NoRowType == NoRow \in Row /\ ~NoRow.exists /\ ~NoRow.live /\ NoRow.lead = None
BY DEF NoRow, Row, LeadStatuses, Inspections

LEMMA NewRowType ==
  ASSUME NEW e \in Addresses \union {None}
  PROVE  /\ NewRow(e) \in Row
         /\ NewRow(e).exists /\ NewRow(e).live /\ NewRow(e).email = e
         /\ NewRow(e).time = None /\ NewRow(e).insp = None /\ NewRow(e).lead = None
BY DEF NewRow, NoRow, Row, LeadStatuses, Inspections

LEMMA UntouchedType ==
  Untouched \in Patched /\ Untouched.time = Keep /\ Untouched.lead = Keep /\ Untouched.insp = Keep
BY DEF Untouched, Patch, Patched

LEMMA IdleType ==
  ASSUME NEW pc \in {"new", "asked", "picked", "commit", "tell", "done"}
  PROVE  /\ Idle(pc) \in ReqType
         /\ Idle(pc).pc = pc /\ Idle(pc).op = "" /\ Idle(pc).patch = Untouched
         /\ Idle(pc).img = NoRow /\ Idle(pc).id = None /\ Idle(pc).opening = None
         /\ Idle(pc).unseen = FALSE /\ Idle(pc).outdated = FALSE /\ Idle(pc).says = {}
BY NoRowType, UntouchedType DEF Idle, ReqType, Untouched

\* A request that begins or is over holds nothing.
LEMMA IdleHolds ==
  ASSUME NEW pc \in {"new", "done"}
  PROVE  Shaped(Idle(pc)) /\ Knowing(Idle(pc)) /\ Offered(Idle(pc))
<1>1. Shaped(Idle(pc))
  BY IdleType DEF Shaped
<1>2. Knowing(Idle(pc))
  BY IdleType DEF Knowing
<1>3. Offered(Idle(pc))
  BY IdleType, UntouchedType, Nulls DEF Offered, Picked
<1>. QED  BY <1>1, <1>2, <1>3

\* A request carries a picked time just when what it would save has one.
LEMMA PickedTime ==
  ASSUME NEW r \in Requests, Shaped(req[r])
  PROVE  HasPicked(r) <=> Picked(req[r]) \in Times
BY UntouchedType, Nulls DEF Shaped, ReqType, HasPicked, Picked

----------------------------------------------------------------------------
(* Steps that write no row.                                                *)

\* One request goes on, and the rows and the calendar stay.
LEMMA OwnStep ==
  ASSUME TypeInv, RowsInv, OffersInv, NEW r \in Requests, NEW q,
         req' = [req EXCEPT ![r] = q], UNCHANGED <<row, rule, exception>>,
         Shaped(q), Knowing(q), Offered(q),
         told' \in [Leads -> {"yes", "no", "excused"}],
         edits' \in 0 .. MaxEdits, faults' \in 0 .. MaxFaults
  PROVE  TypeInv' /\ RowsInv' /\ OffersInv'
<1>1. /\ req' \in [Requests -> ReqType]
      /\ \A s \in Requests : req'[s] = IF s = r THEN q ELSE req[s]
  BY DEF TypeInv, Shaped
<1>2. TypeInv'
  BY <1>1 DEF TypeInv
<1>3. RowsInv'
  <2>1. ASSUME NEW s \in Requests PROVE Knowing(req[s])'
    BY <1>1 DEF RowsInv, Knowing
  <2>2. (~Conflict(row))'
    BY DEF RowsInv, Conflict
  <2>. QED  BY <2>1, <2>2 DEF RowsInv
<1>4. OffersInv'
  <2>t. Taken(row)' = Taken(row)
    BY DEF Taken
  <2>1. ASSUME NEW s \in Requests PROVE Offered(req[s])'
    <3>1. CASE s = r
      <4>1. req'[s] = q
        BY <1>1, <3>1
      <4>. QED  BY <4>1, <2>t DEF Offered, Picked
    <3>2. CASE s # r
      <4>1. req'[s] = req[s] /\ Offered(req[s])
        BY <1>1, <3>2 DEF OffersInv
      <4>. QED  BY <4>1, <2>t DEF Offered, Picked
    <3>. QED  BY <3>1, <3>2
  <2>. QED  BY <2>1 DEF OffersInv
<1>. QED  BY <1>2, <1>3, <1>4

\* Whoever was about to be told still is.
LEMMA ToldStays ==
  ASSUME ToldInv, NEW r \in Requests, UNCHANGED <<row, told>>,
         \A s \in Requests, l \in Leads : Telling(s, l) => Telling(s, l)'
  PROVE  ToldInv'
<1>1. ASSUME NEW l \in Leads, told[l] = "no", row[l].exists
      PROVE  row[l].live /\ (row[l].insp = "Confirmed" => \E s \in Requests : Telling(s, l)')
  BY <1>1 DEF ToldInv
<1>. QED  BY <1>1 DEF ToldInv

\* A request that was not about to tell anybody goes on.
LEMMA QuietStep ==
  ASSUME BInv, NEW r \in Requests, NEW q, req[r].pc # "tell",
         req' = [req EXCEPT ![r] = q], UNCHANGED <<row, rule, exception, told, edits>>,
         Shaped(q), Knowing(q), Offered(q), faults' \in 0 .. MaxFaults
  PROVE  BInv'
<1>1. TypeInv' /\ RowsInv' /\ OffersInv'
  <2>1. /\ told' \in [Leads -> {"yes", "no", "excused"}] /\ edits' \in 0 .. MaxEdits
    BY DEF BInv, TypeInv
  <2>. QED  BY <2>1, OwnStep DEF BInv
<1>2. ToldInv'
  <2>1. ASSUME NEW s \in Requests, NEW l \in Leads, Telling(s, l) PROVE Telling(s, l)'
    BY <2>1 DEF Telling, BInv, TypeInv
  <2>. QED  BY <2>1, ToldStays DEF BInv
<1>. QED  BY <1>1, <1>2 DEF BInv

LEMMA AskSlotsKeeps ==
  ASSUME BInv, NEW r \in Requests, AskSlots(r)
  PROVE  BInv'
<1>. DEFINE q0 == [req[r] EXCEPT !.pc = "asked", !.opening = rule.start]
<1>q. PICK q : q = q0
  OBVIOUS
<1>r. PICK rec : rec = req[r]
  OBVIOUS
<1>1. /\ rec \in ReqType /\ Shaped(rec) /\ rec.pc = "new" /\ rule.start \in Openings
      /\ q = [rec EXCEPT !.pc = "asked", !.opening = rule.start]
      /\ exception # "closed" /\ rule.open
  BY <1>q, <1>r DEF AskSlots, BInv, TypeInv
<1>2. /\ q \in ReqType /\ q.pc = "asked" /\ q.opening = rule.start
      /\ q.op = "" /\ ~q.unseen /\ q.patch = Untouched
  BY <1>1 DEF Shaped, ReqType
<1>3. Shaped(q) /\ Knowing(q) /\ Offered(q)
  <2>1. Shaped(q)
    BY <1>1, <1>2 DEF Shaped
  <2>2. Knowing(q)
    BY <1>2 DEF Knowing
  <2>3. Offered(q)
    BY <1>1, <1>2, UntouchedType, Nulls DEF Offered, Picked
  <2>. QED  BY <2>1, <2>2, <2>3
<1>4. /\ req' = [req EXCEPT ![r] = q] /\ req[r].pc # "tell"
      /\ UNCHANGED <<row, rule, exception, told, edits>> /\ faults' \in 0 .. MaxFaults
  BY <1>q DEF AskSlots, BInv, TypeInv
<1>. QED  BY <1>3, <1>4, QuietStep

LEMMA PickSlotKeeps ==
  ASSUME BInv, NEW r \in Requests, PickSlot(r)
  PROVE  BInv'
<1>1. PICK t \in Times \intersect Generated(req[r].opening, Taken(row)) :
        req' = [req EXCEPT ![r].pc = "picked", ![r].opening = None, ![r].patch.time = t]
  BY DEF PickSlot
<1>q. PICK q : q = [req[r] EXCEPT !.pc = "picked", !.opening = None, !.patch.time = t]
  OBVIOUS
<1>r. PICK rec : rec = req[r]
  OBVIOUS
<1>2. /\ rec \in ReqType /\ Shaped(rec) /\ rec.pc = "asked"
      /\ q = [rec EXCEPT !.pc = "picked", !.opening = None, !.patch.time = t]
      /\ rec.patch = Untouched /\ t \in Generated(rec.opening, Taken(row)) /\ Offered(rec)
  BY <1>1, <1>q, <1>r DEF PickSlot, BInv, TypeInv, Shaped, OffersInv
<1>3. Patch(Keep, Keep, t, Keep) \in Patched /\ Patch(Keep, Keep, t, Keep).time = t
      /\ [Untouched EXCEPT !.time = t] = Patch(Keep, Keep, t, Keep)
  BY <1>1 DEF Patch, Patched, Untouched
<1>4. q = [rec EXCEPT !.pc = "picked", !.opening = None, !.patch = Patch(Keep, Keep, t, Keep)]
  BY <1>2, <1>3 DEF ReqType
<1>5. /\ q \in ReqType /\ q.pc = "picked" /\ q.patch = Patch(Keep, Keep, t, Keep)
      /\ q.op = "" /\ ~q.unseen /\ q.outdated = rec.outdated
  BY <1>2, <1>3, <1>4 DEF Shaped, ReqType
<1>6. Shaped(q) /\ Knowing(q) /\ Offered(q)
  <2>1. Shaped(q)
    BY <1>1, <1>5 DEF Shaped
  <2>2. Knowing(q)
    BY <1>5 DEF Knowing
  <2>3. Offered(q)
    BY <1>2, <1>3, <1>5 DEF Offered, Picked
  <2>. QED  BY <2>1, <2>2, <2>3
<1>7. req' = [req EXCEPT ![r] = q]
  BY <1>1, <1>q, r \in DOMAIN req DEF BInv, TypeInv
<1>8. /\ req[r].pc # "tell"
      /\ UNCHANGED <<row, rule, exception, told, edits>> /\ faults' \in 0 .. MaxFaults
  BY DEF PickSlot, BInv, TypeInv
<1>. QED  BY <1>6, <1>7, <1>8, QuietStep

\* A form holds no more than what was picked.
LEMMA FormType ==
  ASSUME TypeInv, NEW r \in Requests, NEW e \in Addresses \union {None},
         req[r].pc \in {"new", "picked"}, NEW form \in Forms(r, e)
  PROVE  /\ form \in Row /\ form.exists
         /\ form.time \in Times => req[r].pc = "picked" /\ form.time = req[r].patch.time
<1>1. CASE req[r].pc = "new"
  BY <1>1, NewRowType, Nulls DEF Forms
<1>2. CASE req[r].pc = "picked"
  <2>1. PICK i \in {"Pending", "Confirmed"} :
          form = [NewRow(e) EXCEPT !.insp = i, !.time = req[r].patch.time]
    BY <1>2 DEF Forms
  <2>2. PICK t \in Times : req[r].patch = Patch(Keep, Keep, t, Keep)
    BY <1>2 DEF TypeInv, Shaped
  <2>3. req[r].patch.time = t
    BY <2>2 DEF Patch
  <2>4. PICK n \in Row : n = NewRow(e) /\ n.exists
    BY NewRowType
  <2>5. form = [n EXCEPT !.insp = i, !.time = t]
    BY <2>1, <2>3, <2>4
  <2>6. form \in Row /\ form.exists /\ form.time = t
    BY <2>4, <2>5 DEF Row, Inspections
  <2>. QED  BY <2>6, <2>3, <1>2
<1>. QED  BY <1>1, <1>2

LEMMA DoneKeeps ==
  ASSUME BInv, NEW r \in Requests, req[r].pc # "tell", req' = [req EXCEPT ![r] = Idle("done")],
         UNCHANGED <<row, rule, exception, told, edits>>, faults' \in 0 .. MaxFaults
  PROVE  BInv'
<1>q. PICK q : q = Idle("done")
  OBVIOUS
<1>1. Shaped(q) /\ Knowing(q) /\ Offered(q)
  BY <1>q, IdleHolds
<1>2. req' = [req EXCEPT ![r] = q]
  BY <1>q
<1>. QED  BY <1>1, <1>2, QuietStep

LEMMA LookUpKeeps ==
  ASSUME BInv, NEW r \in Requests, NEW e \in Addresses \union {None}, LookUp(r, e)
  PROVE  BInv'
<1>f. faults' \in 0 .. MaxFaults /\ req[r].pc # "tell" /\ req[r].pc \in {"new", "picked"}
      /\ UNCHANGED <<row, rule, exception, told, edits>>
  BY DEF LookUp, BInv, TypeInv
<1>1. CASE req' = [req EXCEPT ![r] = Idle("done")]
  BY <1>1, <1>f, DoneKeeps
<1>2. ASSUME NEW form \in Forms(r, e),
             req' = [req EXCEPT ![r] = [Idle("commit") EXCEPT !.op = "create", !.img = form,
                                                              !.outdated = req[r].outdated]]
      PROVE  BInv'
  <2>r. PICK rec : rec = req[r]
    OBVIOUS
  <2>i. PICK n : n = Idle("commit")
    OBVIOUS
  <2>f. PICK img : img = form
    OBVIOUS
  <2>q. PICK q : q = [n EXCEPT !.op = "create", !.img = img, !.outdated = rec.outdated]
    OBVIOUS
  <2>1. rec.outdated \in BOOLEAN /\ Shaped(rec) /\ Offered(rec)
    BY <2>r DEF BInv, TypeInv, ReqType, OffersInv
  <2>2. /\ img \in Row /\ img.exists
        /\ img.time \in Times => rec.pc = "picked" /\ img.time = rec.patch.time
    BY <2>f, <2>r, <1>f, FormType DEF BInv
  <2>3. /\ q \in ReqType /\ q.pc = "commit" /\ q.op = "create" /\ q.img = img
        /\ q.patch = Untouched /\ q.outdated = rec.outdated
    BY <2>i, <2>q, <2>1, <2>2, IdleType DEF ReqType
  <2>4. Shaped(q)
    BY <2>2, <2>3 DEF Shaped
  <2>5. Knowing(q)
    BY <2>3 DEF Knowing
  <2>6. Offered(q)
    <3>1. Picked(q) = img.time
      BY <2>3 DEF Picked
    <3>2. rec.pc = "picked" => rec.op # "create" /\ Picked(rec) = rec.patch.time
      BY <2>1 DEF Shaped, Picked
    <3>. QED  BY <2>1, <2>2, <2>3, <3>1, <3>2 DEF Offered
  <2>7. req' = [req EXCEPT ![r] = q]
    BY <1>2, <2>q, <2>i, <2>f, <2>r
  <2>. QED  BY <2>4, <2>5, <2>6, <2>7, <1>f, QuietStep
<1>. QED  BY <1>1, <1>2 DEF LookUp

LEMMA PatchesType ==
  ASSUME NEW patch \in Patches
  PROVE  patch \in Patched /\ patch.time \notin Times
BY Nulls DEF Patches, Patch, Patched

\* What an update may give: a picked time stays as it was picked.
LEMMA PatchType ==
  ASSUME TypeInv, NEW r \in Requests,
         NEW patch \in IF req[r].pc = "picked"
                       THEN {[req[r].patch EXCEPT !.insp = i] : i \in {Keep, "Confirmed"}}
                       ELSE IF req[r].pc = "new" THEN Patches ELSE {}
  PROVE  /\ patch \in Patched /\ req[r].pc \in {"new", "picked"}
         /\ patch.time \in Times => req[r].pc = "picked" /\ patch.time = req[r].patch.time
<1>1. CASE req[r].pc = "picked"
  <2>1. PICK i \in {Keep, "Confirmed"} : patch = [req[r].patch EXCEPT !.insp = i]
    BY <1>1
  <2>2. PICK t \in Times : req[r].patch = Patch(Keep, Keep, t, Keep)
    BY <1>1 DEF TypeInv, Shaped
  <2>3. patch = Patch(Keep, i, t, Keep) /\ req[r].patch.time = t
    BY <2>1, <2>2 DEF Patch
  <2>. QED  BY <1>1, <2>3 DEF Patch, Patched, Inspections
<1>2. CASE req[r].pc # "picked"
  BY <1>2, PatchesType
<1>. QED  BY <1>1, <1>2

LEMMA LiveExist == TypeInv => \A l \in Leads : row[l].live => row[l].exists
BY NoRowType DEF TypeInv

LEMMA ReadToUpdateKeeps ==
  ASSUME BInv, NEW r \in Requests, NEW l \in Leads, ReadToUpdate(r, l)
  PROVE  BInv'
<1>1. PICK patch \in IF req[r].pc = "picked"
                     THEN {[req[r].patch EXCEPT !.insp = i] : i \in {Keep, "Confirmed"}}
                     ELSE IF req[r].pc = "new" THEN Patches ELSE {} :
        /\ patch.lead = Keep \/ CanMove(row[l].lead, patch.lead)
        /\ req' = [req EXCEPT ![r].pc = "commit", ![r].op = "update", ![r].id = l,
                              ![r].img = row[l], ![r].patch = patch]
  BY DEF ReadToUpdate
<1>r. PICK rec : rec = req[r]
  OBVIOUS
<1>i. PICK img : img = row[l]
  OBVIOUS
<1>q. PICK q : q = [rec EXCEPT !.pc = "commit", !.op = "update", !.id = l, !.img = img,
                               !.patch = patch]
  OBVIOUS
<1>2. /\ rec \in ReqType /\ Shaped(rec) /\ Offered(rec)
      /\ patch \in Patched /\ rec.pc \in {"new", "picked"}
      /\ patch.time \in Times => rec.pc = "picked" /\ patch.time = rec.patch.time
  BY <1>1, <1>r, PatchType DEF BInv, TypeInv, OffersInv
<1>3. /\ img \in Row /\ img.exists
      /\ patch.lead = Keep \/ CanMove(img.lead, patch.lead)
  BY <1>1, <1>i, LiveExist DEF ReadToUpdate, BInv, TypeInv
<1>4. /\ q \in ReqType /\ q.pc = "commit" /\ q.op = "update" /\ q.id = l /\ q.img = img
      /\ q.patch = patch /\ q.outdated = rec.outdated
  BY <1>q, <1>2, <1>3 DEF ReqType
<1>5. Shaped(q)
  BY <1>3, <1>4 DEF Shaped
<1>6. Knowing(q)
  BY <1>3, <1>4, <1>i DEF Knowing
<1>7. Offered(q)
  <2>1. Picked(q) = patch.time
    BY <1>4 DEF Picked
  <2>2. rec.pc = "picked" => Picked(rec) = rec.patch.time
    BY <1>2 DEF Shaped, Picked
  <2>. QED  BY <1>2, <1>4, <2>1, <2>2 DEF Offered
<1>8. req' = [req EXCEPT ![r] = q]
  BY <1>1, <1>q, <1>r, <1>i, r \in DOMAIN req DEF BInv, TypeInv
<1>9. req[r].pc # "tell" /\ faults' \in 0 .. MaxFaults
      /\ UNCHANGED <<row, rule, exception, told, edits>>
  BY <1>r, <1>2 DEF ReadToUpdate, BInv, TypeInv
<1>. QED  BY <1>5, <1>6, <1>7, <1>8, <1>9, QuietStep

\* A deletion and a restoration look for the row.
LEMMA ReadKeeps ==
  ASSUME BInv, NEW r \in Requests, NEW l \in Leads, NEW op \in {"delete", "restore"},
         req[r].pc = "new", row[l].exists,
         req' = [req EXCEPT ![r].pc = "commit", ![r].op = op, ![r].id = l],
         UNCHANGED <<row, rule, exception, told, edits, faults>>
  PROVE  BInv'
<1>r. PICK rec : rec = req[r]
  OBVIOUS
<1>q. PICK q : q = [rec EXCEPT !.pc = "commit", !.op = op, !.id = l]
  OBVIOUS
<1>1. rec \in ReqType /\ Shaped(rec) /\ rec.pc = "new"
  BY <1>r DEF BInv, TypeInv
<1>2. /\ q \in ReqType /\ q.pc = "commit" /\ q.op = op /\ q.id = l
      /\ q.patch = Untouched
  BY <1>q, <1>1 DEF ReqType, Shaped
<1>3. Shaped(q) /\ Knowing(q)
  BY <1>2 DEF Shaped, Knowing
<1>4. Offered(q)
  BY <1>2, UntouchedType, Nulls DEF Offered, Picked
<1>5. req' = [req EXCEPT ![r] = q]
  BY <1>q, <1>r, r \in DOMAIN req DEF BInv, TypeInv
<1>6. faults' \in 0 .. MaxFaults
  BY DEF BInv, TypeInv
<1>. QED  BY <1>3, <1>4, <1>5, <1>6, QuietStep

LEMMA CommitFailsKeeps ==
  ASSUME BInv, NEW r \in Requests, CommitFails(r)
  PROVE  BInv'
<1>1. faults' \in 0 .. MaxFaults
  BY BookingsAssumption DEF CommitFails, Fault, BInv, TypeInv
<1>. QED  BY <1>1, DoneKeeps DEF CommitFails

----------------------------------------------------------------------------
(* A request is over, and the mail it caused is sent or lost.              *)

\* A request about to tell its client is done, and the others stay.
LEMMA TellEnds ==
  ASSUME BInv, NEW r \in Requests, req[r].pc = "tell", req' = [req EXCEPT ![r] = Idle("done")],
         UNCHANGED <<row, rule, exception, edits>>, faults' \in 0 .. MaxFaults,
         told' \in [Leads -> {"yes", "no", "excused"}],
         \A l \in Leads : told'[l] = "no" /\ row[l].exists => told[l] = "no" /\ ~Telling(r, l)
  PROVE  BInv'
<1>q. PICK q : q = Idle("done")
  OBVIOUS
<1>1. Shaped(q) /\ Knowing(q) /\ Offered(q)
  BY <1>q, IdleHolds
<1>2. req' = [req EXCEPT ![r] = q]
  BY <1>q
<1>3. edits' \in 0 .. MaxEdits
  BY DEF BInv, TypeInv
<1>4. TypeInv' /\ RowsInv' /\ OffersInv'
  BY <1>1, <1>2, <1>3, OwnStep DEF BInv
<1>5. ToldInv'
  <2>1. ASSUME NEW l \in Leads, told'[l] = "no", row[l].exists
        PROVE  row[l].live /\ (row[l].insp = "Confirmed" => \E s \in Requests : Telling(s, l)')
    <3>1. row[l].live /\ (row[l].insp = "Confirmed" => \E s \in Requests : Telling(s, l))
      BY <2>1 DEF BInv, ToldInv
    <3>2. ASSUME NEW s \in Requests, Telling(s, l) PROVE Telling(s, l)'
      <4>1. s # r
        BY <2>1, <3>2
      <4>. QED  BY <4>1, <3>2, <1>2 DEF Telling, BInv, TypeInv
    <3>. QED  BY <3>1, <3>2
  <2>. QED  BY <2>1 DEF ToldInv
<1>. QED  BY <1>4, <1>5 DEF BInv

LEMMA TellKeeps ==
  ASSUME BInv, NEW r \in Requests, Tell(r)
  PROVE  BInv'
<1>1. req[r].id \in Leads
  BY DEF Tell, BInv, TypeInv, Shaped
<1>2. told' \in [Leads -> {"yes", "no", "excused"}]
  BY DEF Tell, BInv, TypeInv
<1>3. ASSUME NEW l \in Leads, told'[l] = "no", row[l].exists
      PROVE  told[l] = "no" /\ ~Telling(r, l)
  <2>1. told[l] = "no"
    BY <1>3 DEF Tell, BInv, TypeInv
  <2>2. row[l].live
    BY <1>3, <2>1 DEF BInv, ToldInv
  <2>3. ~Telling(r, l)
    BY <1>1, <1>3, <2>2 DEF Telling, Tell, BInv, TypeInv
  <2>. QED  BY <2>1, <2>3
<1>4. faults' \in 0 .. MaxFaults
  BY DEF Tell, BInv, TypeInv
<1>. QED  BY <1>2, <1>3, <1>4, TellEnds DEF Tell

LEMMA TellFailsKeeps ==
  ASSUME BInv, NEW r \in Requests, TellFails(r)
  PROVE  BInv'
<1>1. req[r].id \in Leads /\ told \in [Leads -> {"yes", "no", "excused"}]
  BY DEF TellFails, BInv, TypeInv, Shaped
<1>2. told' \in [Leads -> {"yes", "no", "excused"}]
  BY <1>1 DEF TellFails
<1>3. ASSUME NEW l \in Leads, told'[l] = "no", row[l].exists
      PROVE  told[l] = "no" /\ ~Telling(r, l)
  BY <1>1, <1>3 DEF TellFails, Telling
<1>4. faults' \in 0 .. MaxFaults
  BY BookingsAssumption DEF TellFails, Fault, BInv, TypeInv
<1>. QED  BY <1>2, <1>3, <1>4, TellEnds DEF TellFails

----------------------------------------------------------------------------
(* Steps that write rows.                                                  *)

\* A write ends its request, and marks what others hold as older.
LEMMA WriteStep ==
  ASSUME TypeInv, RowsInv, OffersInv, NEW r \in Requests, NEW q, NEW S \in SUBSET Leads,
         NEW rows \in [Leads -> Row], row' = rows, req' = Marked(r, q, S, rows),
         UNCHANGED <<rule, exception, edits, faults>>,
         told' \in [Leads -> {"yes", "no", "excused"}],
         Shaped(q), q.pc \in {"tell", "done"}, ~Conflict(rows),
         \A l \in Leads : ~rows[l].exists => rows[l] = NoRow,
         \A l \in Leads : row[l].exists => rows[l].exists,
         \A l \in Leads \ S : row[l].exists => rows[l] = row[l]
  PROVE  TypeInv' /\ RowsInv' /\ OffersInv'
<1>1. req'[r] = q
  BY DEF Marked
<1>2. ASSUME NEW s \in Requests, s # r
      PROVE  \E u, o \in BOOLEAN :
               /\ req'[s] = [req[s] EXCEPT !.unseen = u, !.outdated = o]
               /\ u <=> (req[s].unseen \/ (req[s].pc = "commit" /\ req[s].id \in S))
               /\ o <=> (req[s].outdated \/ (HasPicked(s) /\ Taken(rows) # Taken(row)))
  <2>u. PICK u \in BOOLEAN : u = (req[s].unseen \/ (req[s].pc = "commit" /\ req[s].id \in S))
    OBVIOUS
  <2>o. PICK o \in BOOLEAN : o = (req[s].outdated \/ (HasPicked(s) /\ Taken(rows) # Taken(row)))
    OBVIOUS
  <2>1. req'[s] = [req[s] EXCEPT !.unseen = u, !.outdated = o]
    BY <1>2, <2>u, <2>o DEF Marked
  <2>. QED  BY <2>u, <2>o, <2>1
<1>3. ASSUME NEW s \in Requests PROVE Shaped(req'[s])
  <2>1. CASE s = r
    BY <1>1, <2>1
  <2>2. CASE s # r
    <3>1. PICK u \in BOOLEAN, o \in BOOLEAN :
                 /\ req'[s] = [req[s] EXCEPT !.unseen = u, !.outdated = o]
                 /\ u <=> (req[s].unseen \/ (req[s].pc = "commit" /\ req[s].id \in S))
      BY <1>2, <2>2
    <3>r. PICK rec : rec = req[s]
      OBVIOUS
    <3>n. PICK new : new = req'[s]
      OBVIOUS
    <3>2. Shaped(rec) /\ rec \in ReqType /\ new = [rec EXCEPT !.unseen = u, !.outdated = o]
          /\ (rec.pc # "commit" => (u <=> rec.unseen))
      BY <3>1, <3>r, <3>n DEF TypeInv
    <3>3. new \in ReqType /\ new.pc = rec.pc /\ new.op = rec.op /\ new.patch = rec.patch
          /\ new.img = rec.img /\ new.id = rec.id /\ new.unseen = u
      BY <3>2 DEF ReqType
    <3>4. rec.pc \in {"new", "asked", "picked"} => ~new.unseen
      BY <3>2, <3>3 DEF Shaped
    <3>5. Shaped(new)
      BY <3>2, <3>3, <3>4 DEF Shaped
    <3>. QED  BY <3>5, <3>n
  <2>. QED  BY <2>1, <2>2
<1>4. TypeInv'
  <2>1. req' \in [Requests -> ReqType]
    <3>1. \A s \in Requests : req'[s] \in ReqType
      BY <1>3 DEF Shaped
    <3>2. req' = [s \in Requests |-> req'[s]]
      BY DEF Marked
    <3>. QED  BY <3>1, <3>2
  <2>. QED  BY <1>3, <2>1 DEF TypeInv
<1>5. ASSUME NEW s \in Requests PROVE Knowing(req[s])'
  <2>1. CASE s = r
    BY <1>1, <2>1 DEF Knowing
  <2>2. CASE s # r
    <3>1. PICK u \in BOOLEAN, o \in BOOLEAN :
                 /\ req'[s] = [req[s] EXCEPT !.unseen = u, !.outdated = o]
                 /\ u <=> (req[s].unseen \/ (req[s].pc = "commit" /\ req[s].id \in S))
      BY <1>2, <2>2
    <3>2. Knowing(req[s]) /\ req[s] \in ReqType /\ Shaped(req[s])
      BY DEF TypeInv, RowsInv
    <3>3. /\ req'[s].pc = req[s].pc /\ req'[s].op = req[s].op /\ req'[s].img = req[s].img
          /\ req'[s].id = req[s].id /\ req'[s].unseen = u
      BY <3>1, <3>2 DEF ReqType
    <3>4. ASSUME req[s].pc = "commit", req[s].op # "create"
          PROVE  /\ req[s].id \in Leads /\ row[req[s].id].exists
                 /\ req[s].op = "update" =>
                      req[s].img.exists /\ (req[s].unseen \/ req[s].img = row[req[s].id])
      BY <3>2, <3>4 DEF Knowing, Shaped
    <3>5. ASSUME req[s].pc = "commit", req[s].op # "create"
          PROVE  /\ rows[req[s].id].exists
                 /\ req[s].op = "update" =>
                      req[s].img.exists /\ (u \/ req[s].img = rows[req[s].id])
      BY <3>1, <3>4, <3>5
    <3>. QED  BY <3>3, <3>5 DEF Knowing
  <2>. QED  BY <2>1, <2>2
<1>6. RowsInv'
  <2>1. (~Conflict(row))'
    BY DEF Conflict
  <2>. QED  BY <1>5, <2>1 DEF RowsInv
<1>7. ASSUME NEW s \in Requests PROVE Offered(req[s])'
  <2>1. CASE s = r
    <3>1. Picked(q) \notin Times /\ q.pc # "asked"
      BY UntouchedType, Nulls DEF Shaped, Picked
    <3>2. req'[s] = q /\ Picked(req'[s]) = Picked(q)
      BY <1>1, <2>1 DEF Picked
    <3>3. Offered(req[s])' <=> (~req'[s].outdated =>
             /\ req'[s].pc = "asked" => exception' # "closed" /\ rule'.open
                                         /\ req'[s].opening = rule'.start
             /\ Picked(req'[s]) \in Times =>
                  exception' # "closed" /\ rule'.open
                  /\ Picked(req'[s]) \in Generated(rule'.start, Taken(row)'))
      BY DEF Offered, Picked
    <3>. QED  BY <3>1, <3>2, <3>3
  <2>2. CASE s # r
    <3>1. PICK u \in BOOLEAN, o \in BOOLEAN :
                 /\ req'[s] = [req[s] EXCEPT !.unseen = u, !.outdated = o]
                 /\ o <=> (req[s].outdated \/ (HasPicked(s) /\ Taken(rows) # Taken(row)))
      BY <1>2, <2>2
    <3>2. Offered(req[s]) /\ req[s] \in ReqType /\ Shaped(req[s])
      BY DEF TypeInv, OffersInv
    <3>3. /\ req'[s].pc = req[s].pc /\ req'[s].op = req[s].op /\ req'[s].img = req[s].img
          /\ req'[s].patch = req[s].patch /\ req'[s].outdated = o
          /\ req'[s].opening = req[s].opening
      BY <3>1, <3>2 DEF ReqType
    <3>4. HasPicked(s) <=> Picked(req[s]) \in Times
      BY <3>2, PickedTime
    <3>5. Picked(req'[s]) = Picked(req[s])
      BY <3>3 DEF Picked
    <3>6. Taken(row)' = Taken(rows)
      BY DEF Taken
    <3>. QED  BY <3>1, <3>2, <3>3, <3>4, <3>5, <3>6 DEF Offered, Picked
  <2>. QED  BY <2>1, <2>2
<1>. QED  BY <1>4, <1>6, <1>7 DEF OffersInv

\* Who is not told yet after a write was about to be before it, or the writer
\* is about to tell them.
LEMMA ToldWrite ==
  ASSUME TypeInv, ToldInv, NEW r \in Requests, NEW q, NEW S \in SUBSET Leads, NEW rows,
         req[r].pc # "tell", req' = Marked(r, q, S, rows),
         \A l \in Leads : told'[l] = "no" /\ row'[l].exists =>
           /\ row'[l].live
           /\ row'[l].insp = "Confirmed" =>
                \/ told[l] = "no" /\ row[l].exists /\ row[l].insp = "Confirmed"
                \/ q.pc = "tell" /\ q.id = l /\ q.says # {"cancelled"}
  PROVE  ToldInv'
<1>1. ASSUME NEW l \in Leads, told'[l] = "no", row'[l].exists
      PROVE  row'[l].live /\ (row'[l].insp = "Confirmed" => \E s \in Requests : Telling(s, l)')
  <2>1. CASE row'[l].insp = "Confirmed" /\ told[l] = "no" /\ row[l].exists
             /\ row[l].insp = "Confirmed"
    <3>1. PICK s \in Requests : Telling(s, l)
      BY <2>1 DEF ToldInv
    <3>2. s # r /\ req[s] \in ReqType
      BY <3>1 DEF Telling, TypeInv
    <3>3. /\ req'[s].pc = req[s].pc /\ req'[s].id = req[s].id /\ req'[s].says = req[s].says
      BY <3>2 DEF Marked, ReqType
    <3>. QED  BY <1>1, <3>1, <3>3 DEF Telling
  <2>2. CASE row'[l].insp = "Confirmed" /\ q.pc = "tell" /\ q.id = l /\ q.says # {"cancelled"}
    <3>1. req'[r] = q
      BY DEF Marked
    <3>. QED  BY <1>1, <2>2, <3>1 DEF Telling
  <2>. QED  BY <1>1, <2>1, <2>2
<1>. QED  BY <1>1 DEF ToldInv

LEMMA InsertKeeps ==
  ASSUME BInv, NEW r \in Requests, NEW l \in Leads, Insert(r, l)
  PROVE  BInv'
<1>r. PICK rows : rows = [row EXCEPT ![l] = req[r].img]
  OBVIOUS
<1>i. PICK img : img = req[r].img
  OBVIOUS
<1>1. /\ req[r].pc = "commit" /\ req[r].op = "create" /\ ~row[l].exists
      /\ UNCHANGED <<rule, exception, edits, faults>>
  BY DEF Insert
<1>2. img \in Row /\ img.exists
  BY <1>1, <1>i DEF BInv, TypeInv, Shaped, ReqType
<1>3. CASE Conflict(rows)
  BY <1>1, <1>3, <1>r, DoneKeeps DEF Insert, BInv, TypeInv
<1>4. CASE ~Conflict(rows)
  <2>q. PICK q : q = Idle("done")
    OBVIOUS
  <2>s. PICK S \in SUBSET Leads : S = {}
    OBVIOUS
  <2>1. /\ row' = rows /\ req' = Marked(r, q, S, rows)
        /\ told' = [told EXCEPT ![l] = "excused"]
    BY <1>4, <1>r, <2>q, <2>s DEF Insert
  <2>2. /\ rows \in [Leads -> Row] /\ rows[l] = img
        /\ \A k \in Leads \ {l} : rows[k] = row[k]
    BY <1>2, <1>r, <1>i DEF BInv, TypeInv
  <2>3. /\ Shaped(q) /\ q.pc \in {"tell", "done"}
        /\ told' \in [Leads -> {"yes", "no", "excused"}]
    BY <2>q, <2>1, IdleHolds, IdleType DEF BInv, TypeInv
  <2>4. /\ \A k \in Leads : ~rows[k].exists => rows[k] = NoRow
        /\ \A k \in Leads : row[k].exists => rows[k].exists
        /\ \A k \in Leads \ S : row[k].exists => rows[k] = row[k]
    BY <1>1, <1>2, <2>2 DEF BInv, TypeInv
  <2>5. TypeInv' /\ RowsInv' /\ OffersInv'
    BY <1>1, <1>4, <2>1, <2>2, <2>3, <2>4, WriteStep DEF BInv
  <2>6. ToldInv'
    <3>1. ASSUME NEW k \in Leads, told'[k] = "no", row'[k].exists
          PROVE  /\ row'[k].live
                 /\ row'[k].insp = "Confirmed" =>
                      told[k] = "no" /\ row[k].exists /\ row[k].insp = "Confirmed"
      <4>1. k # l /\ told[k] = "no"
        BY <2>1, <3>1 DEF BInv, TypeInv
      <4>2. row'[k] = row[k]
        BY <2>1, <2>2, <4>1
      <4>. QED  BY <3>1, <4>1, <4>2 DEF BInv, ToldInv
    <3>. QED  BY <1>1, <2>1, <3>1, ToldWrite DEF BInv
  <2>. QED  BY <2>5, <2>6 DEF BInv
<1>. QED  BY <1>3, <1>4

\* What an update makes of a row is a row, and what it does not give stays.
LEMMA UpdatedType ==
  ASSUME NEW img \in Row, NEW patch \in Patched
  PROVE  /\ Updated(img, patch) \in Row
         /\ Updated(img, patch).exists = img.exists /\ Updated(img, patch).live = img.live
         /\ Updated(img, patch).lead = IF patch.lead = Keep THEN img.lead ELSE patch.lead
         /\ Updated(img, patch).time = IF patch.time = Keep THEN img.time ELSE patch.time
         /\ Updated(img, patch).email = IF patch.email = Keep THEN img.email ELSE patch.email
BY DEF Updated, Row, Patched

LEMMA EndedType ==
  ASSUME NEW l \in Leads, NEW says \in SUBSET {"confirmed", "rescheduled", "cancelled"}
  PROVE  /\ Shaped(Ended(l, says)) /\ Ended(l, says).pc \in {"tell", "done"}
         /\ says # {} => /\ Ended(l, says).pc = "tell" /\ Ended(l, says).id = l
                         /\ Ended(l, says).says = says
<1>1. CASE says = {}
  BY <1>1, IdleHolds, IdleType DEF Ended
<1>2. CASE says # {}
  <2>n. PICK n : n = Idle("tell")
    OBVIOUS
  <2>q. PICK q : q = [n EXCEPT !.id = l, !.says = says]
    OBVIOUS
  <2>1. /\ q \in ReqType /\ q.pc = "tell" /\ q.id = l /\ q.says = says /\ q.op = ""
        /\ q.patch = Untouched
    BY <2>n, <2>q, IdleType DEF ReqType
  <2>2. Shaped(q)
    BY <2>1 DEF Shaped
  <2>3. Ended(l, says) = q
    BY <1>2, <2>n, <2>q DEF Ended
  <2>. QED  BY <1>2, <2>1, <2>2, <2>3
<1>. QED  BY <1>1, <1>2

\* The news an update owes is what it announces.
LEMMA Owed ==
  ASSUME NEW img \in Row, NEW new \in Row, new.insp = "Confirmed",
         ~(img.insp = "Confirmed" /\ img.time = None /\ new.time # None),
         new.time # img.time \/ img.insp # "Confirmed"
  PROVE  Announced(img, new) # {} /\ Announced(img, new) # {"cancelled"}
BY DEF Announced

\* Who is not to know of an update.
LEMMA KnowsNot ==
  ASSUME NEW l \in Leads, NEW r \in Requests, NEW new, Knows(l, r, new) = "no"
  PROVE  /\ ~req[r].unseen /\ new.live
         /\ ~(row[l].insp = "Confirmed" /\ row[l].time = None /\ new.time # None)
         /\ \/ new.time # row[l].time \/ (new.insp = "Confirmed" /\ row[l].insp # "Confirmed")
            \/ told[l] = "no"
BY DEF Knows

LEMMA UpdateKeeps ==
  ASSUME BInv, NEW r \in Requests, Update(r)
  PROVE  BInv'
<1>l. PICK l : l = req[r].id
  OBVIOUS
<1>i. PICK img : img = req[r].img
  OBVIOUS
<1>p. PICK patch : patch = req[r].patch
  OBVIOUS
<1>o. PICK old : old = row[l]
  OBVIOUS
<1>n. PICK new : new = [Updated(img, patch) EXCEPT !.live = old.live]
  OBVIOUS
<1>r. PICK rows : rows = [row EXCEPT ![l] = new]
  OBVIOUS
<1>q. PICK q : q = Ended(l, Announced(img, new))
  OBVIOUS
<1>s. PICK S : S = {l}
  OBVIOUS
<1>1. /\ req[r].pc = "commit" /\ req[r].op = "update"
      /\ UNCHANGED <<rule, exception, edits, faults>>
  BY DEF Update
<1>0. CASE Conflict(rows)
  <2>1. /\ req' = [req EXCEPT ![r] = Idle("done")]
        /\ UNCHANGED <<row, rule, exception, told, edits>> /\ faults' \in 0 .. MaxFaults
    BY <1>0, <1>1, <1>l, <1>i, <1>p, <1>o, <1>n, <1>r DEF Update, BInv, TypeInv
  <2>2. req[r].pc # "tell"
    BY <1>1
  <2>. QED  BY <2>1, <2>2, DoneKeeps
<1>9. SUFFICES ASSUME ~Conflict(rows) PROVE BInv'
  BY <1>0
<1>2. /\ row' = rows /\ req' = Marked(r, q, S, rows)
      /\ told' = [told EXCEPT ![l] = Knows(l, r, new)]
  BY <1>l, <1>i, <1>p, <1>o, <1>n, <1>r, <1>q, <1>s, <1>9 DEF Update
<1>3. /\ l \in Leads /\ img \in Row /\ patch \in Patched /\ old \in Row
      /\ old.exists /\ img.exists
      /\ req[r].unseen \/ img = old
  BY <1>1, <1>l, <1>i, <1>p, <1>o DEF BInv, TypeInv, Shaped, ReqType, RowsInv, Knowing
<1>4. /\ new \in Row /\ new.exists /\ new.live = old.live
  <2>1. PICK u \in Row : u = Updated(img, patch) /\ u.exists = img.exists
    BY <1>3, UpdatedType
  <2>2. new = [u EXCEPT !.live = old.live]
    BY <1>n, <2>1
  <2>. QED  BY <1>3, <2>1, <2>2 DEF Row
<1>5. /\ rows \in [Leads -> Row] /\ rows[l] = new /\ S \in SUBSET Leads
      /\ \A k \in Leads \ {l} : rows[k] = row[k]
  BY <1>3, <1>4, <1>r, <1>s DEF BInv, TypeInv
<1>6. Announced(img, new) \in SUBSET {"confirmed", "rescheduled", "cancelled"}
  BY DEF Announced
<1>7. /\ Shaped(q) /\ q.pc \in {"tell", "done"}
      /\ Announced(img, new) # {} =>
           q.pc = "tell" /\ q.id = l /\ q.says = Announced(img, new)
  BY <1>3, <1>6, <1>q, EndedType
<1>8. told' \in [Leads -> {"yes", "no", "excused"}]
  <2>1. Knows(l, r, new) \in {"yes", "no", "excused"}
    BY <1>3 DEF Knows, BInv, TypeInv
  <2>. QED  BY <1>2, <1>3, <2>1 DEF BInv, TypeInv
<1>10. /\ \A k \in Leads : ~rows[k].exists => rows[k] = NoRow
       /\ \A k \in Leads : row[k].exists => rows[k].exists
       /\ \A k \in Leads \ S : row[k].exists => rows[k] = row[k]
  BY <1>4, <1>5, <1>o, <1>s DEF BInv, TypeInv
<1>11. TypeInv' /\ RowsInv' /\ OffersInv'
  BY <1>1, <1>2, <1>5, <1>7, <1>8, <1>9, <1>10, WriteStep DEF BInv
<1>12. ToldInv'
  <2>1. ASSUME NEW k \in Leads, told'[k] = "no", row'[k].exists
        PROVE  /\ row'[k].live
               /\ row'[k].insp = "Confirmed" =>
                    \/ told[k] = "no" /\ row[k].exists /\ row[k].insp = "Confirmed"
                    \/ q.pc = "tell" /\ q.id = k /\ q.says # {"cancelled"}
    <3>1. CASE k # l
      <4>1. told[k] = "no" /\ row'[k] = row[k]
        BY <1>2, <1>5, <2>1, <3>1 DEF BInv, TypeInv
      <4>. QED  BY <2>1, <4>1 DEF BInv, ToldInv
    <3>2. CASE k = l
      <4>1. Knows(l, r, new) = "no" /\ row'[k] = new /\ row[l] = old
        BY <1>2, <1>3, <1>5, <1>o, <2>1, <3>2 DEF BInv, TypeInv
      <4>2. /\ ~req[r].unseen /\ new.live
            /\ ~(old.insp = "Confirmed" /\ old.time = None /\ new.time # None)
            /\ \/ new.time # old.time \/ (new.insp = "Confirmed" /\ old.insp # "Confirmed")
               \/ told[l] = "no"
        BY <1>3, <4>1, KnowsNot
      <4>3. img = old
        BY <1>3, <4>2
      <4>4. ASSUME new.insp = "Confirmed", ~(told[l] = "no" /\ old.insp = "Confirmed")
            PROVE  q.pc = "tell" /\ q.id = l /\ q.says # {"cancelled"}
        <5>1. new.time # img.time \/ img.insp # "Confirmed"
          BY <4>2, <4>3, <4>4
        <5>2. Announced(img, new) # {} /\ Announced(img, new) # {"cancelled"}
          BY <1>3, <1>4, <4>2, <4>3, <4>4, <5>1, Owed
        <5>. QED  BY <1>7, <5>2
      <4>. QED  BY <1>3, <3>2, <4>1, <4>2, <4>4
    <3>. QED  BY <3>1, <3>2
  <2>. QED  BY <1>1, <1>2, <2>1, <1>5, ToldWrite DEF BInv
<1>. QED  BY <1>11, <1>12 DEF BInv

LEMMA DeleteKeeps ==
  ASSUME BInv, NEW r \in Requests, Delete(r)
  PROVE  BInv'
<1>l. PICK l : l = req[r].id
  OBVIOUS
<1>r. PICK rows : rows = [row EXCEPT ![l].live = FALSE]
  OBVIOUS
<1>q. PICK q : q = Ended(l, {"cancelled"})
  OBVIOUS
<1>s. PICK S : S = {l}
  OBVIOUS
<1>1. /\ req[r].pc = "commit" /\ req[r].op = "delete"
      /\ UNCHANGED <<rule, exception, edits, faults>>
  BY DEF Delete
<1>2. /\ row' = rows /\ req' = Marked(r, q, S, rows)
      /\ told' = [told EXCEPT ![l] = "excused"]
  BY <1>l, <1>r, <1>q, <1>s DEF Delete
<1>3. l \in Leads /\ row[l].exists
  BY <1>1, <1>l DEF BInv, TypeInv, Shaped, RowsInv, Knowing
<1>o. PICK old \in Row : old = row[l]
  BY <1>3 DEF BInv, TypeInv
<1>4. rows = [row EXCEPT ![l] = [old EXCEPT !.live = FALSE]]
  BY <1>r, <1>o
<1>5. /\ rows \in [Leads -> Row] /\ S \in SUBSET Leads
      /\ rows[l].exists /\ rows[l].email = row[l].email /\ ~rows[l].live
      /\ \A k \in Leads \ {l} : rows[k] = row[k]
  <2>1. PICK new : new = [old EXCEPT !.live = FALSE]
    OBVIOUS
  <2>2. new \in Row /\ new.exists = old.exists /\ new.email = old.email /\ ~new.live
    BY <2>1 DEF Row
  <2>. QED  BY <1>3, <1>4, <1>o, <1>s, <2>1, <2>2 DEF BInv, TypeInv
<1>6. /\ Shaped(q) /\ q.pc \in {"tell", "done"}
  BY <1>3, <1>q, EndedType
<1>7. told' \in [Leads -> {"yes", "no", "excused"}]
  BY <1>2, <1>3 DEF BInv, TypeInv
<1>8. ~Conflict(rows)
  <2>1. \A k \in Leads : (rows[k].live => row[k].live) /\ rows[k].email = row[k].email
    BY <1>5
  <2>. QED  BY <2>1 DEF Conflict, BInv, RowsInv
<1>9. /\ \A k \in Leads : ~rows[k].exists => rows[k] = NoRow
      /\ \A k \in Leads : row[k].exists => rows[k].exists
      /\ \A k \in Leads \ S : row[k].exists => rows[k] = row[k]
  BY <1>5, <1>s DEF BInv, TypeInv
<1>10. TypeInv' /\ RowsInv' /\ OffersInv'
  BY <1>1, <1>2, <1>5, <1>6, <1>7, <1>8, <1>9, WriteStep DEF BInv
<1>11. ToldInv'
  <2>1. ASSUME NEW k \in Leads, told'[k] = "no", row'[k].exists
        PROVE  /\ row'[k].live
               /\ row'[k].insp = "Confirmed" =>
                    told[k] = "no" /\ row[k].exists /\ row[k].insp = "Confirmed"
    <3>1. k # l /\ told[k] = "no" /\ row'[k] = row[k]
      BY <1>2, <1>3, <1>5, <2>1 DEF BInv, TypeInv
    <3>. QED  BY <2>1, <3>1 DEF BInv, ToldInv
  <2>. QED  BY <1>1, <1>2, <2>1, <1>5, ToldWrite DEF BInv
<1>. QED  BY <1>10, <1>11 DEF BInv

\* A restoration clears deletedAt of rows that exist.
LEMMA RestoreAllKeeps ==
  ASSUME BInv, NEW r \in Requests, NEW S \in SUBSET Leads, RestoreAll(r, S),
         req[r].pc # "tell", \A l \in S : row[l].exists
  PROVE  BInv'
<1>r. PICK rows : rows = [l \in Leads |-> IF l \in S THEN [row[l] EXCEPT !.live = TRUE] ELSE row[l]]
  OBVIOUS
<1>1. UNCHANGED <<rule, exception, told, edits, faults>>
  BY DEF RestoreAll
<1>2. CASE Conflict(rows)
  <2>1. req' = [req EXCEPT ![r] = Idle("done")] /\ UNCHANGED row /\ faults' \in 0 .. MaxFaults
    BY <1>2, <1>r DEF RestoreAll, BInv, TypeInv
  <2>. QED  BY <1>1, <2>1, DoneKeeps
<1>3. CASE ~Conflict(rows)
  <2>q. PICK q : q = Idle("done")
    OBVIOUS
  <2>1. row' = rows /\ req' = Marked(r, q, S, rows)
    BY <1>3, <1>r, <2>q DEF RestoreAll
  <2>2. ASSUME NEW l \in Leads
        PROVE  /\ rows[l] \in Row /\ rows[l].exists = row[l].exists
               /\ rows[l].email = row[l].email /\ rows[l].insp = row[l].insp
               /\ l \in S => rows[l].live
               /\ l \notin S => rows[l] = row[l]
    <3>o. PICK old \in Row : old = row[l]
      BY DEF BInv, TypeInv
    <3>1. rows[l] = IF l \in S THEN [old EXCEPT !.live = TRUE] ELSE old
      BY <1>r, <3>o
    <3>. QED  BY <3>o, <3>1 DEF Row
  <2>3. rows \in [Leads -> Row]
    BY <1>r, <2>2
  <2>4. Shaped(q) /\ q.pc \in {"tell", "done"} /\ told' \in [Leads -> {"yes", "no", "excused"}]
    BY <1>1, <2>q, IdleHolds, IdleType DEF BInv, TypeInv
  <2>5. /\ \A k \in Leads : ~rows[k].exists => rows[k] = NoRow
        /\ \A k \in Leads : row[k].exists => rows[k].exists
        /\ \A k \in Leads \ S : row[k].exists => rows[k] = row[k]
    BY <2>2 DEF BInv, TypeInv
  <2>6. TypeInv' /\ RowsInv' /\ OffersInv'
    BY <1>1, <1>3, <2>1, <2>3, <2>4, <2>5, WriteStep DEF BInv
  <2>7. ToldInv'
    <3>1. ASSUME NEW k \in Leads, told'[k] = "no", row'[k].exists
          PROVE  /\ row'[k].live
                 /\ row'[k].insp = "Confirmed" =>
                      told[k] = "no" /\ row[k].exists /\ row[k].insp = "Confirmed"
      <4>1. told[k] = "no" /\ row[k].exists /\ row'[k].insp = row[k].insp
            /\ (row[k].live => row'[k].live)
        BY <1>1, <2>1, <2>2, <3>1
      <4>. QED  BY <3>1, <4>1 DEF BInv, ToldInv
    <3>. QED  BY <2>1, <3>1, ToldWrite DEF BInv
  <2>. QED  BY <2>6, <2>7 DEF BInv
<1>. QED  BY <1>2, <1>3

LEMMA RestoreKeeps ==
  ASSUME BInv, NEW r \in Requests, Restore(r)
  PROVE  BInv'
<1>s. PICK S : S = {req[r].id}
  OBVIOUS
<1>1. S \in SUBSET Leads /\ \A l \in S : row[l].exists
  BY <1>s DEF Restore, BInv, TypeInv, Shaped, RowsInv, Knowing
<1>. QED  BY <1>s, <1>1, RestoreAllKeeps DEF Restore

LEMMA BulkRestoreKeeps ==
  ASSUME BInv, NEW r \in Requests, NEW S \in SUBSET Leads, BulkRestore(r, S)
  PROVE  BInv'
<1>s. PICK T : T = {l \in S : row[l].exists}
  OBVIOUS
<1>1. T \in SUBSET Leads /\ \A l \in T : row[l].exists
  BY <1>s
<1>. QED  BY <1>s, <1>1, RestoreAllKeeps DEF BulkRestore

LEMMA BulkDeleteKeeps ==
  ASSUME BInv, NEW r \in Requests, NEW S \in SUBSET Leads, BulkDelete(r, S)
  PROVE  BInv'
<1>r. PICK rows : rows = [l \in Leads |-> IF l \in S THEN [row[l] EXCEPT !.live = FALSE] ELSE row[l]]
  OBVIOUS
<1>q. PICK q : q = Idle("done")
  OBVIOUS
<1>1. /\ row' = rows /\ req' = Marked(r, q, S, rows) /\ req[r].pc = "new"
      /\ told' = [l \in Leads |-> IF l \in S /\ row[l].live THEN "excused" ELSE told[l]]
      /\ UNCHANGED <<rule, exception, edits, faults>>
  BY <1>r, <1>q DEF BulkDelete
<1>2. ASSUME NEW l \in Leads
      PROVE  /\ rows[l] \in Row /\ rows[l].exists = row[l].exists
             /\ rows[l].email = row[l].email
             /\ rows[l].live => row[l].live
             /\ l \notin S => rows[l] = row[l]
             /\ ~row[l].exists => rows[l] = NoRow
  <2>o. PICK old \in Row : old = row[l] /\ (~old.exists => old = NoRow)
    BY DEF BInv, TypeInv
  <2>1. rows[l] = IF l \in S THEN [old EXCEPT !.live = FALSE] ELSE old
    BY <1>r, <2>o
  <2>2. [NoRow EXCEPT !.live = FALSE] = NoRow
    <3>1. NoRow \in Row /\ NoRow.live = FALSE
      BY NoRowType DEF NoRow
    <3>. QED  BY <3>1 DEF Row
  <2>3. /\ rows[l] \in Row /\ rows[l].exists = old.exists
        /\ rows[l].email = old.email
        /\ rows[l].live => old.live
        /\ l \notin S => rows[l] = old
    BY <2>1 DEF Row
  <2>. QED  BY <2>o, <2>1, <2>2, <2>3
<1>3. rows \in [Leads -> Row]
  BY <1>r, <1>2
<1>4. Shaped(q) /\ q.pc \in {"tell", "done"}
  BY <1>q, IdleHolds, IdleType
<1>5. told' \in [Leads -> {"yes", "no", "excused"}]
  BY <1>1 DEF BInv, TypeInv
<1>6. ~Conflict(rows)
  BY <1>2 DEF Conflict, BInv, RowsInv
<1>7. /\ \A k \in Leads : ~rows[k].exists => rows[k] = NoRow
      /\ \A k \in Leads : row[k].exists => rows[k].exists
      /\ \A k \in Leads \ S : row[k].exists => rows[k] = row[k]
  BY <1>2
<1>8. TypeInv' /\ RowsInv' /\ OffersInv'
  BY <1>1, <1>3, <1>4, <1>5, <1>6, <1>7, WriteStep DEF BInv
<1>9. ToldInv'
  <2>1. ASSUME NEW k \in Leads, told'[k] = "no", row'[k].exists
        PROVE  /\ row'[k].live
               /\ row'[k].insp = "Confirmed" =>
                    told[k] = "no" /\ row[k].exists /\ row[k].insp = "Confirmed"
    <3>1. ~(k \in S /\ row[k].live) /\ told[k] = "no" /\ row[k].exists
      BY <1>1, <1>2, <2>1
    <3>2. row[k].live
      BY <3>1 DEF BInv, ToldInv
    <3>3. row'[k] = row[k]
      BY <1>1, <1>2, <3>1, <3>2
    <3>. QED  BY <3>1, <3>2, <3>3
  <2>. QED  BY <1>1, <2>1, ToldWrite DEF BInv
<1>. QED  BY <1>8, <1>9 DEF BInv

----------------------------------------------------------------------------
(* The calendar changes.                                                   *)

\* A change of the calendar puts every offer into the past.
LEMMA EditStep ==
  ASSUME BInv, Outdate, UNCHANGED <<row, told, faults>>, edits' \in 0 .. MaxEdits,
         rule' \in [open : BOOLEAN, start : Openings], exception' \in Exceptions
  PROVE  BInv'
<1>1. ASSUME NEW s \in Requests
      PROVE  /\ Shaped(req[s]) /\ req[s] \in ReqType
             /\ req'[s] \in ReqType
             /\ \/ req'[s] = req[s] /\ req[s].pc # "asked" /\ ~HasPicked(s)
                \/ req'[s].outdated = TRUE
             /\ req'[s].pc = req[s].pc /\ req'[s].op = req[s].op /\ req'[s].id = req[s].id
             /\ req'[s].img = req[s].img /\ req'[s].patch = req[s].patch
             /\ req'[s].unseen = req[s].unseen /\ req'[s].says = req[s].says
  <2>r. PICK rec \in ReqType : rec = req[s] /\ Shaped(req[s])
    BY DEF BInv, TypeInv
  <2>1. req'[s] = IF req[s].pc = "asked" \/ HasPicked(s) THEN [rec EXCEPT !.outdated = TRUE] ELSE rec
    BY <2>r DEF Outdate
  <2>2. PICK new : new = [rec EXCEPT !.outdated = TRUE]
    OBVIOUS
  <2>3. /\ new \in ReqType /\ new.outdated = TRUE /\ new.pc = rec.pc /\ new.op = rec.op
        /\ new.id = rec.id /\ new.img = rec.img /\ new.patch = rec.patch
        /\ new.unseen = rec.unseen /\ new.says = rec.says
    BY <2>r, <2>2 DEF ReqType
  <2>. QED  BY <2>r, <2>1, <2>2, <2>3
<1>2. TypeInv'
  <2>1. req' \in [Requests -> ReqType]
    BY <1>1 DEF Outdate
  <2>2. ASSUME NEW s \in Requests PROVE Shaped(req'[s])
    <3>o. PICK rec : rec = req[s]
      OBVIOUS
    <3>n. PICK new : new = req'[s]
      OBVIOUS
    <3>1. /\ Shaped(rec) /\ new \in ReqType
          /\ new.pc = rec.pc /\ new.op = rec.op /\ new.id = rec.id
          /\ new.img = rec.img /\ new.patch = rec.patch /\ new.unseen = rec.unseen
      BY <1>1, <3>o, <3>n
    <3>2. Shaped(new)
      BY <3>1 DEF Shaped
    <3>. QED  BY <3>2, <3>n
  <2>. QED  BY <2>1, <2>2 DEF BInv, TypeInv
<1>3. RowsInv'
  <2>1. ASSUME NEW s \in Requests PROVE Knowing(req[s])'
    BY <1>1 DEF BInv, RowsInv, Knowing
  <2>2. (~Conflict(row))'
    BY DEF BInv, RowsInv, Conflict
  <2>. QED  BY <2>1, <2>2 DEF RowsInv
<1>4. ToldInv'
  <2>1. ASSUME NEW l \in Leads, told[l] = "no", row[l].exists
        PROVE  row[l].live /\ (row[l].insp = "Confirmed" => \E s \in Requests : Telling(s, l)')
    <3>1. ASSUME NEW s \in Requests, Telling(s, l) PROVE Telling(s, l)'
      BY <1>1, <3>1 DEF Telling
    <3>. QED  BY <2>1, <3>1 DEF BInv, ToldInv
  <2>. QED  BY <2>1 DEF ToldInv
<1>5. OffersInv'
  <2>1. ASSUME NEW s \in Requests PROVE Offered(req[s])'
    <3>1. CASE req'[s].outdated = TRUE
      BY <3>1 DEF Offered
    <3>2. CASE req'[s] = req[s] /\ req[s].pc # "asked" /\ ~HasPicked(s)
      <4>1. Picked(req[s]) \notin Times
        BY <1>1, <3>2, PickedTime
      <4>2. Picked(req'[s]) = Picked(req[s])
        BY <3>2
      <4>3. Picked(req'[s]) \notin Times /\ req'[s].pc # "asked"
        BY <4>1, <4>2, <3>2
      <4>4. Offered(req[s])' <=> (~req'[s].outdated =>
               /\ req'[s].pc = "asked" => exception' # "closed" /\ rule'.open
                                           /\ req'[s].opening = rule'.start
               /\ Picked(req'[s]) \in Times =>
                    exception' # "closed" /\ rule'.open
                    /\ Picked(req'[s]) \in Generated(rule'.start, Taken(row)'))
        BY DEF Offered, Picked
      <4>. QED  BY <4>3, <4>4
    <3>. QED  BY <1>1, <3>1, <3>2
  <2>. QED  BY <2>1 DEF OffersInv
<1>. QED  BY <1>2, <1>3, <1>4, <1>5 DEF BInv

LEMMA RuleKeeps ==
  ASSUME BInv, UpsertRule
  PROVE  BInv'
<1>1. edits' \in 0 .. MaxEdits /\ exception' \in Exceptions
      /\ rule' \in [open : BOOLEAN, start : Openings]
  BY BookingsAssumption DEF UpsertRule, Edit, BInv, TypeInv
<1>. QED  BY <1>1, EditStep DEF UpsertRule

LEMMA ExceptionKeeps ==
  ASSUME BInv, ChangeException
  PROVE  BInv'
<1>1. edits' \in 0 .. MaxEdits /\ exception' \in Exceptions
      /\ rule' \in [open : BOOLEAN, start : Openings]
  BY BookingsAssumption DEF ChangeException, Edit, BInv, TypeInv
<1>. QED  BY <1>1, EditStep DEF ChangeException

----------------------------------------------------------------------------
(* The invariant holds throughout.                                         *)

LEMMA BInit == Init => BInv
<1>. SUFFICES ASSUME Init PROVE BInv
  OBVIOUS
<1>1. PICK a \in Leads, b \in Leads, e \in Addresses, f \in Addresses, exists \in BOOLEAN,
          live \in BOOLEAN, insp \in {None, "Confirmed"}, time \in Times \union {None} :
        /\ a # b /\ (live => e # f)
        /\ row = [l \in Leads |->
                    CASE l = a -> NewRow(e)
                      [] l = b /\ exists ->
                           [NewRow(f) EXCEPT !.live = live, !.insp = insp, !.time = time]
                      [] OTHER -> NoRow]
        /\ told = [l \in Leads |-> IF l = b THEN "yes" ELSE "no"]
  BY DEF Init
<1>n. PICK n \in Row : n = NewRow(e) /\ n.exists /\ n.live /\ n.email = e /\ n.insp = None
  BY NewRowType
<1>m. PICK m \in Row : m = NewRow(f) /\ m.exists /\ m.live /\ m.email = f
  BY NewRowType
<1>o. PICK o : o = [m EXCEPT !.live = live, !.insp = insp, !.time = time]
  OBVIOUS
<1>2. o \in Row /\ o.exists /\ o.live = live /\ o.email = f
  BY <1>m, <1>o DEF Row, Inspections
<1>3. /\ row[a] = n
      /\ row[b] = IF exists THEN o ELSE NoRow
      /\ \A l \in Leads \ {a, b} : row[l] = NoRow
  BY <1>1, <1>n, <1>m, <1>o
<1>4. row \in [Leads -> Row] /\ \A l \in Leads : ~row[l].exists => row[l] = NoRow
  <2>1. \A l \in Leads : row[l] \in Row /\ (~row[l].exists => row[l] = NoRow)
    BY <1>2, <1>3, <1>n, NoRowType
  <2>2. row = [l \in Leads |-> row[l]]
    BY <1>1
  <2>. QED  BY <2>1, <2>2
<1>5. req = [r \in Requests |-> Idle("new")]
  BY DEF Init
<1>6. TypeInv
  <2>1. told \in [Leads -> {"yes", "no", "excused"}]
    BY <1>1
  <2>2. /\ rule \in [open : BOOLEAN, start : Openings] /\ exception \in Exceptions
        /\ edits \in 0 .. MaxEdits /\ faults \in 0 .. MaxFaults
    <3>1. rule \in [open : {TRUE}, start : Openings]
      BY DEF Init
    <3>2. rule \in [open : BOOLEAN, start : Openings]
      BY <3>1
    <3>. QED  BY <3>2, BookingsAssumption DEF Init, Exceptions
  <2>3. req \in [Requests -> ReqType] /\ \A r \in Requests : Shaped(req[r])
    BY <1>5, IdleType, IdleHolds
  <2>. QED  BY <1>4, <2>1, <2>2, <2>3 DEF TypeInv
<1>7. RowsInv
  <2>1. \A r \in Requests : Knowing(req[r])
    BY <1>5, IdleHolds
  <2>2. ~Conflict(row)
    <3>1. \A l \in Leads : row[l].live => l \in {a, b}
      BY <1>3, NoRowType
    <3>2. row[a].live /\ row[b].live => row[a].email # row[b].email
      BY <1>1, <1>2, <1>3, <1>n, NoRowType
    <3>. QED  BY <3>1, <3>2 DEF Conflict
  <2>. QED  BY <2>1, <2>2 DEF RowsInv
<1>8. ToldInv
  <2>1. ASSUME NEW l \in Leads, told[l] = "no", row[l].exists
        PROVE  row[l].live /\ row[l].insp # "Confirmed"
    <3>1. l # b
      BY <1>1, <2>1
    <3>2. l = a
      BY <1>3, <2>1, <3>1, NoRowType
    <3>. QED  BY <1>3, <1>n, <3>2, Nulls
  <2>. QED  BY <2>1 DEF ToldInv
<1>9. OffersInv
  BY <1>5, IdleHolds DEF OffersInv
<1>. QED  BY <1>6, <1>7, <1>8, <1>9 DEF BInv

LEMMA BNext ==
  ASSUME BInv, [Next]_vars
  PROVE  BInv'
<1>1. CASE UNCHANGED vars
  BY <1>1 DEF vars, BInv, TypeInv, RowsInv, Conflict, Knowing, ToldInv, Telling, OffersInv, Offered,
     Picked, Taken
<1>2. ASSUME NEW r \in Requests,
             \/ AskSlots(r) \/ PickSlot(r)
             \/ \E e \in Addresses \union {None} : LookUp(r, e)
             \/ \E l \in Leads :
                  Insert(r, l) \/ ReadToUpdate(r, l) \/ ReadToDelete(r, l) \/ ReadToRestore(r, l)
             \/ \E S \in SUBSET Leads : BulkDelete(r, S) \/ BulkRestore(r, S)
             \/ Update(r) \/ Delete(r) \/ Restore(r) \/ CommitFails(r) \/ Tell(r) \/ TellFails(r)
      PROVE  BInv'
  <2>1. CASE AskSlots(r)
    BY <2>1, AskSlotsKeeps
  <2>2. CASE PickSlot(r)
    BY <2>2, PickSlotKeeps
  <2>3. CASE \E e \in Addresses \union {None} : LookUp(r, e)
    BY <2>3, LookUpKeeps
  <2>4. ASSUME NEW l \in Leads, Insert(r, l) PROVE BInv'
    BY <2>4, InsertKeeps
  <2>5. ASSUME NEW l \in Leads, ReadToUpdate(r, l) PROVE BInv'
    BY <2>5, ReadToUpdateKeeps
  <2>6. ASSUME NEW l \in Leads, ReadToDelete(r, l) PROVE BInv'
    BY <2>6, ReadKeeps, LiveExist DEF ReadToDelete, BInv
  <2>7. ASSUME NEW l \in Leads, ReadToRestore(r, l) PROVE BInv'
    BY <2>7, ReadKeeps DEF ReadToRestore
  <2>8. ASSUME NEW S \in SUBSET Leads, BulkDelete(r, S) PROVE BInv'
    BY <2>8, BulkDeleteKeeps
  <2>9. ASSUME NEW S \in SUBSET Leads, BulkRestore(r, S) PROVE BInv'
    BY <2>9, BulkRestoreKeeps
  <2>10. CASE Update(r)
    BY <2>10, UpdateKeeps
  <2>11. CASE Delete(r)
    BY <2>11, DeleteKeeps
  <2>12. CASE Restore(r)
    BY <2>12, RestoreKeeps
  <2>13. CASE CommitFails(r)
    BY <2>13, CommitFailsKeeps
  <2>14. CASE Tell(r)
    BY <2>14, TellKeeps
  <2>15. CASE TellFails(r)
    BY <2>15, TellFailsKeeps
  <2>. QED  BY <1>2, <2>1, <2>2, <2>3, <2>4, <2>5, <2>6, <2>7, <2>8, <2>9, <2>10, <2>11, <2>12,
               <2>13, <2>14, <2>15
<1>3. CASE UpsertRule
  BY <1>3, RuleKeeps
<1>4. CASE ChangeException
  BY <1>4, ExceptionKeeps
<1>. QED  BY <1>1, <1>2, <1>3, <1>4 DEF Next

LEMMA BInvariant == Spec => []BInv
<1>1. BInv /\ [Next]_vars => BInv'
  BY BNext
<1>. QED  BY BInit, <1>1, PTL DEF Spec

----------------------------------------------------------------------------
(* The theorems.                                                           *)

LEMMA TypeOKFollows == BInv => TypeOK
<1>. SUFFICES ASSUME BInv PROVE TypeOK
  OBVIOUS
<1>1. \A l, k \in Leads : l # k /\ row[l].live /\ row[k].live /\ row[l].email # None
                          => row[l].email # row[k].email
  BY DEF BInv, RowsInv, Conflict
<1>2. \A r \in Requests : req[r].pc \in {"new", "asked", "picked", "commit", "tell", "done"}
                          /\ req[r].img \in Row
  BY DEF BInv, TypeInv, ReqType
<1>3. rule \in Rules
  BY BookingsAssumption DEF BInv, TypeInv, Rules
<1>. QED  BY <1>1, <1>2, <1>3 DEF TypeOK, BInv, TypeInv

\* Whoever is confirmed and does not know is about to be told.
LEMMA ConfirmedFollows == BInv => ConfirmedAreTold
<1>. SUFFICES ASSUME BInv, NEW l \in Leads,
                     row[l].live, row[l].insp = "Confirmed", told[l] = "no"
              PROVE  \E r \in Requests : req[r].pc = "tell" /\ req[r].id = l
  BY DEF ConfirmedAreTold
<1>1. row[l].exists
  BY LiveExist DEF BInv
<1>2. PICK r \in Requests : Telling(r, l)
  BY <1>1 DEF BInv, ToldInv
<1>. QED  BY <1>2 DEF Telling

\* The form and the handlers, the index, the listeners: no two leads that are
\* not deleted share an address, and a client whose inspection is confirmed has
\* been told of it as it stands or is about to be, but where Knows excuses it.
THEOREM LeadsCorrect == Spec => []LeadsAreConsistent
<1>1. BInv => LeadsAreConsistent
  BY TypeOKFollows, ConfirmedFollows DEF LeadsAreConsistent
<1>. QED  BY BInvariant, <1>1, PTL

\* r changes rows.
Saves(r) ==
  \/ \E l \in Leads : Insert(r, l)
  \/ \E S \in SUBSET Leads : BulkDelete(r, S) \/ BulkRestore(r, S)
  \/ Update(r) \/ Delete(r) \/ Restore(r)

\* Whatever else happens leaves the rows alone.
LEMMA RowWriters ==
  ASSUME [Next]_vars, row' # row
  PROVE  \E r \in Requests : Saves(r)
<1>1. ASSUME NEW r \in Requests, AskSlots(r) \/ PickSlot(r) \/ CommitFails(r) \/ Tell(r) \/ TellFails(r)
      PROVE  FALSE
  BY <1>1 DEF AskSlots, PickSlot, CommitFails, Tell, TellFails
<1>2. ASSUME NEW r \in Requests, NEW e \in Addresses \union {None}, LookUp(r, e)
      PROVE  FALSE
  BY <1>2 DEF LookUp
<1>3. ASSUME NEW r \in Requests, NEW l \in Leads,
             ReadToUpdate(r, l) \/ ReadToDelete(r, l) \/ ReadToRestore(r, l)
      PROVE  FALSE
  BY <1>3 DEF ReadToUpdate, ReadToDelete, ReadToRestore
<1>4. ~UpsertRule /\ ~ChangeException /\ ~UNCHANGED vars
  BY DEF UpsertRule, ChangeException, vars
<1>. QED  BY <1>1, <1>2, <1>3, <1>4 DEF Next, Saves

\* And marks what others hold.
LEMMA SavesMarks ==
  ASSUME NEW r \in Requests, Saves(r), row' # row
  PROVE  \E q, S, rows : req' = Marked(r, q, S, rows)
<1>1. ASSUME NEW l \in Leads, Insert(r, l) PROVE \E q, S, rows : req' = Marked(r, q, S, rows)
  BY <1>1 DEF Insert
<1>2. ASSUME NEW S \in SUBSET Leads, BulkDelete(r, S)
      PROVE  \E q, T, rows : req' = Marked(r, q, T, rows)
  BY <1>2 DEF BulkDelete
<1>3. ASSUME NEW S, RestoreAll(r, S) PROVE \E q, T, rows : req' = Marked(r, q, T, rows)
  BY <1>3 DEF RestoreAll
<1>4. CASE Update(r)
  BY <1>4 DEF Update
<1>5. CASE Delete(r)
  BY <1>5 DEF Delete
<1>. QED  BY <1>1, <1>2, <1>3, <1>4, <1>5 DEF Saves, BulkRestore, Restore

\* An update that knows the row as it is leaves a lead that has declined alone.
LEMMA UpdateKeepsDeclined ==
  ASSUME BInv, NEW r \in Requests, Update(r), NEW l \in Leads,
         row[l].lead = "Declined", row'[l].lead # "Declined"
  PROVE  Writes(r) /\ req[r].id = l /\ req[r].unseen
<1>i. PICK img : img = req[r].img
  OBVIOUS
<1>p. PICK patch : patch = req[r].patch
  OBVIOUS
<1>1. /\ req[r].pc = "commit" /\ req[r].op = "update" /\ req[r].id \in Leads
      /\ img \in Row /\ patch \in Patched
      /\ patch.lead = Keep \/ CanMove(img.lead, patch.lead)
      /\ req[r].unseen \/ img = row[req[r].id]
  BY <1>i, <1>p DEF Update, BInv, TypeInv, Shaped, ReqType, RowsInv, Knowing
<1>n. PICK new : new = [Updated(img, patch) EXCEPT !.live = row[req[r].id].live]
  OBVIOUS
<1>2. /\ row' = [row EXCEPT ![req[r].id] = new]
      /\ req'[r] = Ended(req[r].id, Announced(img, new))
  <2>1. row' # row
    OBVIOUS
  <2>. QED  BY <2>1, <1>i, <1>p, <1>n DEF Update, Marked
<1>3. req[r].id = l /\ row'[l] = new
  BY <1>1, <1>2 DEF BInv, TypeInv
<1>4. Writes(r)
  <2>1. Announced(img, new) \in SUBSET {"confirmed", "rescheduled", "cancelled"}
    BY DEF Announced
  <2>2. req'[r].pc \in {"tell", "done"}
    BY <1>1, <1>2, <2>1, EndedType
  <2>. QED  BY <1>1, <2>2 DEF Writes
<1>5. req[r].unseen
  <2>1. SUFFICES ASSUME img = row[l] PROVE FALSE
    BY <1>1, <1>3
  <2>2. patch.lead = Keep
    BY <1>1, <2>1 DEF CanMove
  <2>3. new.lead = img.lead
    <3>1. PICK u \in Row : u = Updated(img, patch) /\ u.lead = img.lead
      BY <1>1, <2>2, UpdatedType
    <3>2. new = [u EXCEPT !.live = row[req[r].id].live]
      BY <1>n, <3>1
    <3>. QED  BY <3>1, <3>2 DEF Row
  <2>. QED  BY <1>3, <2>1, <2>3
<1>. QED  BY <1>3, <1>4, <1>5

\* Every other write leaves the status of a lead alone.
LEMMA OthersKeepDeclined ==
  ASSUME BInv, NEW r \in Requests, NEW l \in Leads, row[l].lead = "Declined",
         \/ \E k \in Leads : Insert(r, k)
         \/ \E S \in SUBSET Leads : BulkDelete(r, S) \/ BulkRestore(r, S)
         \/ Delete(r) \/ Restore(r)
  PROVE  row'[l].lead = "Declined"
<1>o. PICK old \in Row : old = row[l]
  BY DEF BInv, TypeInv
<1>1. old.lead = "Declined" /\ [old EXCEPT !.live = TRUE].lead = "Declined"
      /\ [old EXCEPT !.live = FALSE].lead = "Declined"
  BY <1>o DEF Row
<1>2. ASSUME NEW k \in Leads, Insert(r, k) PROVE row'[l].lead = "Declined"
  <2>1. k # l
    BY <1>2, <1>o, <1>1, NoRowType, Nulls DEF Insert, BInv, TypeInv
  <2>. QED  BY <1>2, <2>1, <1>o, <1>1 DEF Insert, BInv, TypeInv
<1>3. ASSUME NEW S \in SUBSET Leads, BulkDelete(r, S) PROVE row'[l].lead = "Declined"
  BY <1>3, <1>o, <1>1 DEF BulkDelete
<1>4. ASSUME NEW S \in SUBSET Leads, RestoreAll(r, S) PROVE row'[l].lead = "Declined"
  BY <1>4, <1>o, <1>1 DEF RestoreAll
<1>5. ASSUME NEW S \in SUBSET Leads, BulkRestore(r, S) PROVE row'[l].lead = "Declined"
  <2>1. {k \in S : row[k].exists} \in SUBSET Leads
    OBVIOUS
  <2>. QED  BY <1>4, <1>5, <2>1 DEF BulkRestore
<1>6. CASE Delete(r)
  <2>1. req[r].id \in Leads /\ row' = [row EXCEPT ![req[r].id].live = FALSE]
    BY <1>6 DEF Delete, BInv, TypeInv, Shaped
  <2>2. CASE req[r].id = l
    BY <2>1, <2>2, <1>o, <1>1 DEF BInv, TypeInv
  <2>3. CASE req[r].id # l
    BY <2>1, <2>3, <1>o, <1>1 DEF BInv, TypeInv
  <2>. QED  BY <2>2, <2>3
<1>7. CASE Restore(r)
  <2>1. {req[r].id} \in SUBSET Leads
    BY <1>7 DEF Restore, BInv, TypeInv, Shaped
  <2>. QED  BY <1>4, <1>7, <2>1 DEF Restore
<1>. QED  BY <1>2, <1>3, <1>5, <1>6, <1>7

\* A lead that has declined stays so, unless an update brings back the image of
\* the row it had read before.
THEOREM DeclinedStays == Spec => DeclinedIsFinal
<1>1. ASSUME BInv, [Next]_vars, NEW l \in Leads,
             row[l].lead = "Declined", row'[l].lead # "Declined"
      PROVE  \E r \in Requests : Writes(r) /\ req[r].id = l /\ req[r].unseen
  <2>1. row' # row
    BY <1>1
  <2>2. PICK r \in Requests : Saves(r)
    BY <1>1, <2>1, RowWriters
  <2>3. Update(r)
    BY <1>1, <2>2, OthersKeepDeclined DEF Saves
  <2>. QED  BY <1>1, <2>3, UpdateKeepsDeclined
<1>2. BInv /\ [Next]_vars =>
        [\A l \in Leads :
           row[l].lead = "Declined" /\ row'[l].lead # "Declined" =>
             \E r \in Requests : Writes(r) /\ req[r].id = l /\ req[r].unseen]_vars
  BY <1>1
<1>. QED  BY BInvariant, <1>2, PTL DEF Spec, DeclinedIsFinal

\* An update that knows the row as it is changes its address only to the one it gives.
LEMMA UpdateKeepsAddress ==
  ASSUME BInv, NEW r \in Requests, Update(r), NEW l \in Leads, row'[l].email # row[l].email
  PROVE  /\ Writes(r) /\ req[r].id = l
         /\ req[r].unseen \/ req[r].patch.email = row'[l].email
<1>i. PICK img : img = req[r].img
  OBVIOUS
<1>p. PICK patch : patch = req[r].patch
  OBVIOUS
<1>1. /\ req[r].pc = "commit" /\ req[r].op = "update" /\ req[r].id \in Leads
      /\ img \in Row /\ patch \in Patched
      /\ req[r].unseen \/ img = row[req[r].id]
  BY <1>i, <1>p DEF Update, BInv, TypeInv, Shaped, ReqType, RowsInv, Knowing
<1>n. PICK new : new = [Updated(img, patch) EXCEPT !.live = row[req[r].id].live]
  OBVIOUS
<1>2. /\ row' = [row EXCEPT ![req[r].id] = new]
      /\ req'[r] = Ended(req[r].id, Announced(img, new))
  <2>1. row' # row
    OBVIOUS
  <2>. QED  BY <2>1, <1>i, <1>p, <1>n DEF Update, Marked
<1>3. req[r].id = l /\ row'[l] = new
  BY <1>1, <1>2 DEF BInv, TypeInv
<1>4. Writes(r)
  <2>1. Announced(img, new) \in SUBSET {"confirmed", "rescheduled", "cancelled"}
    BY DEF Announced
  <2>2. req'[r].pc \in {"tell", "done"}
    BY <1>1, <1>2, <2>1, EndedType
  <2>. QED  BY <1>1, <2>2 DEF Writes
<1>5. req[r].unseen \/ patch.email = new.email
  <2>1. PICK u \in Row : /\ u = Updated(img, patch)
                         /\ u.email = IF patch.email = Keep THEN img.email ELSE patch.email
    BY <1>1, UpdatedType
  <2>2. new.email = u.email
    <3>1. new = [u EXCEPT !.live = row[req[r].id].live]
      BY <1>n, <2>1
    <3>. QED  BY <3>1 DEF Row
  <2>. QED  BY <1>1, <1>3, <2>1, <2>2
<1>. QED  BY <1>3, <1>4, <1>5, <1>p

\* Every other write leaves the address of a lead alone.
LEMMA OthersKeepAddress ==
  ASSUME BInv, NEW r \in Requests, NEW l \in Leads, row[l].exists,
         \/ \E k \in Leads : Insert(r, k)
         \/ \E S \in SUBSET Leads : BulkDelete(r, S) \/ BulkRestore(r, S)
         \/ Delete(r) \/ Restore(r)
  PROVE  row'[l].email = row[l].email
<1>o. PICK old \in Row : old = row[l]
  BY DEF BInv, TypeInv
<1>1. /\ [old EXCEPT !.live = TRUE].email = old.email
      /\ [old EXCEPT !.live = FALSE].email = old.email
  BY <1>o DEF Row
<1>2. ASSUME NEW k \in Leads, Insert(r, k) PROVE row'[l].email = row[l].email
  BY <1>2 DEF Insert, BInv, TypeInv
<1>3. ASSUME NEW S \in SUBSET Leads, BulkDelete(r, S) PROVE row'[l].email = row[l].email
  BY <1>3, <1>o, <1>1 DEF BulkDelete
<1>4. ASSUME NEW S \in SUBSET Leads, RestoreAll(r, S) PROVE row'[l].email = row[l].email
  BY <1>4, <1>o, <1>1 DEF RestoreAll
<1>5. ASSUME NEW S \in SUBSET Leads, BulkRestore(r, S) PROVE row'[l].email = row[l].email
  <2>1. {k \in S : row[k].exists} \in SUBSET Leads
    OBVIOUS
  <2>. QED  BY <1>4, <1>5, <2>1 DEF BulkRestore
<1>6. CASE Delete(r)
  <2>1. req[r].id \in Leads /\ row' = [row EXCEPT ![req[r].id].live = FALSE]
    BY <1>6 DEF Delete, BInv, TypeInv, Shaped
  <2>2. CASE req[r].id = l
    BY <2>1, <2>2, <1>o, <1>1 DEF BInv, TypeInv
  <2>3. CASE req[r].id # l
    BY <2>1, <2>3, <1>o DEF BInv, TypeInv
  <2>. QED  BY <2>2, <2>3
<1>7. CASE Restore(r)
  <2>1. {req[r].id} \in SUBSET Leads
    BY <1>7 DEF Restore, BInv, TypeInv, Shaped
  <2>. QED  BY <1>4, <1>7, <2>1 DEF Restore
<1>. QED  BY <1>2, <1>3, <1>5, <1>6, <1>7

\* The address of a lead changes only by an update that gives the new one, or by
\* one that brings back the image of the row it had read before.
THEOREM AddressesKept == Spec => AddressesAreKept
<1>1. ASSUME BInv, [Next]_vars, NEW l \in Leads, row[l].exists, row'[l].email # row[l].email
      PROVE  \E r \in Requests : /\ Writes(r) /\ req[r].id = l
                                 /\ req[r].unseen \/ req[r].patch.email = row'[l].email
  <2>1. row' # row
    BY <1>1
  <2>2. PICK r \in Requests : Saves(r)
    BY <1>1, <2>1, RowWriters
  <2>3. Update(r)
    BY <1>1, <2>2, OthersKeepAddress DEF Saves
  <2>. QED  BY <1>1, <2>3, UpdateKeepsAddress
<1>2. BInv /\ [Next]_vars =>
        [\A l \in Leads :
           row[l].exists /\ row'[l].email # row[l].email =>
             \E r \in Requests : /\ Writes(r) /\ req[r].id = l
                                 /\ req[r].unseen \/ req[r].patch.email = row'[l].email]_vars
  BY <1>1
<1>. QED  BY BInvariant, <1>2, PTL DEF Spec, AddressesAreKept

\* A start that is offered is more than the buffer from every inspection that counts.
LEMMA OfferedIsFar ==
  ASSUME Zone = 0, NEW opening, NEW T \in SUBSET Minutes, NEW u \in T,
         NEW t \in Minutes, t \in Generated(opening, T)
  PROVE  Far(t, u)
<1>1. Clock(u) = u
  BY DEF Clock, Minutes
<1>2. ~(u - Buffer <= t /\ t <= u + Buffer)
  BY <1>1 DEF Generated, IsBlocked
<1>. QED  BY <1>2 DEF Buffer, Far, Minutes

LEMMA TakenType == TypeInv => Taken(row) \in SUBSET Minutes
BY BookingsAssumption DEF TypeInv, Taken, Row

\* Only the request that writes ends.
LEMMA WriterAlone ==
  ASSUME TypeInv, NEW r \in Requests, NEW q, NEW S, NEW rows, req' = Marked(r, q, S, rows),
         NEW s \in Requests, Writes(s)
  PROVE  s = r
<1>1. SUFFICES ASSUME s # r PROVE req'[s].pc = req[s].pc
  BY DEF Writes
<1>r. PICK rec \in ReqType : rec = req[s]
  BY DEF TypeInv
<1>2. PICK u, o : req'[s] = [rec EXCEPT !.unseen = u, !.outdated = o]
  BY <1>1, <1>r DEF Marked
<1>3. req'[s].pc = rec.pc
  BY <1>2 DEF ReqType
<1>. QED  BY <1>r, <1>3

\* The request that carries a picked time and changes a row books just that time.
LEMMA BooksPicked ==
  ASSUME BInv, [Next]_vars, NEW r \in Requests, NEW l \in Leads,
         Writes(r), HasPicked(r), row'[l] # row[l]
  PROVE  row'[l].time = Picked(req[r])
<1>1. row' # row
  OBVIOUS
<1>2. PICK s \in Requests : Saves(s)
  BY <1>1, RowWriters
<1>3. s = r
  <2>1. PICK q, S, rows : req' = Marked(s, q, S, rows)
    BY <1>1, <1>2, SavesMarks
  <2>. QED  BY <2>1, WriterAlone DEF BInv
<1>4. /\ req[r].pc = "commit" /\ Shaped(req[r]) /\ Picked(req[r]) \in Times
  BY PickedTime DEF Writes, BInv, TypeInv
<1>5. req[r].op \in {"create", "update"}
  BY <1>4, UntouchedType, Nulls DEF Shaped, ReqType, Picked
<1>6. CASE req[r].op = "create"
  <2>1. PICK k \in Leads : Insert(r, k)
    BY <1>2, <1>3, <1>4, <1>6 DEF Saves, BulkDelete, BulkRestore, Update, Delete, Restore
  <2>2. row' = [row EXCEPT ![k] = req[r].img] /\ k = l
    BY <2>1 DEF Insert, BInv, TypeInv
  <2>. QED  BY <1>6, <2>2 DEF Picked, BInv, TypeInv
<1>7. CASE req[r].op = "update"
  <2>1. Update(r)
    BY <1>2, <1>3, <1>4, <1>7 DEF Saves, BulkDelete, BulkRestore, Insert, Delete, Restore
  <2>i. PICK img : img = req[r].img
    OBVIOUS
  <2>p. PICK patch : patch = req[r].patch
    OBVIOUS
  <2>n. PICK new : new = [Updated(img, patch) EXCEPT !.live = row[req[r].id].live]
    OBVIOUS
  <2>2. row' = [row EXCEPT ![req[r].id] = new]
    BY <1>1, <2>1, <2>i, <2>p, <2>n DEF Update
  <2>3. row'[l] = new
    BY <2>2 DEF BInv, TypeInv
  <2>4. img \in Row /\ patch \in Patched /\ patch.time = Picked(req[r])
    BY <1>4, <1>7, <2>i, <2>p DEF Shaped, ReqType, Picked
  <2>5. new.time = patch.time
    <3>1. PICK u \in Row : u = Updated(img, patch) /\ u.time = patch.time
      BY <1>4, <2>4, UpdatedType, Nulls
    <3>2. new = [u EXCEPT !.live = row[req[r].id].live]
      BY <2>n, <3>1
    <3>. QED  BY <3>1, <3>2 DEF Row
  <2>. QED  BY <2>3, <2>4, <2>5
<1>. QED  BY <1>5, <1>6, <1>7

\* Where times are stored in the zone of the server, what is booked from an offer
\* that still holds is more than seven hours from every other inspection that counts,
\* on a day that is open.
THEOREM BookingsSpaced ==
  ASSUME Zone = 0
  PROVE  Spec => BookingsAreSpaced
<1>1. ASSUME BInv, [Next]_vars, NEW r \in Requests, NEW l \in Leads,
             Writes(r), ~req[r].outdated, HasPicked(r), row'[l] # row[l]
      PROVE  /\ exception # "closed" /\ rule.open
             /\ \A k \in Leads \ {l} :
                  row[k].live /\ row[k].insp \in {"Pending", "Confirmed"} /\ row[k].time # None
                  => Far(row'[l].time, row[k].time)
  <2>1. Picked(req[r]) \in Times /\ row'[l].time = Picked(req[r])
    BY <1>1, BooksPicked, PickedTime DEF BInv, TypeInv
  <2>2. /\ exception # "closed" /\ rule.open
        /\ Picked(req[r]) \in Generated(rule.start, Taken(row))
    BY <1>1, <2>1 DEF BInv, OffersInv, Offered
  <2>3. ASSUME NEW k \in Leads \ {l},
               row[k].live, row[k].insp \in {"Pending", "Confirmed"}, row[k].time # None
        PROVE  Far(row'[l].time, row[k].time)
    <3>1. row[k].time \in Taken(row)
      BY <2>3 DEF Taken
    <3>2. Taken(row) \in SUBSET Minutes /\ Picked(req[r]) \in Minutes
      BY <2>1, <1>1, TakenType, BookingsAssumption DEF BInv
    <3>. QED  BY <2>1, <2>2, <3>1, <3>2, OfferedIsFar
  <2>. QED  BY <2>2, <2>3
<1>2. BInv /\ [Next]_vars =>
        [\A r \in Requests, l \in Leads :
           Writes(r) /\ ~req[r].outdated /\ HasPicked(r) /\ row'[l] # row[l] =>
             /\ exception # "closed" /\ rule.open
             /\ \A k \in Leads \ {l} :
                  row[k].live /\ row[k].insp \in {"Pending", "Confirmed"} /\ row[k].time # None
                  => Far(row'[l].time, row[k].time)]_vars
  BY <1>1
<1>. QED  BY BInvariant, <1>2, PTL DEF Spec, BookingsAreSpaced

=============================================================================
