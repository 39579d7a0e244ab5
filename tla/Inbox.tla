------------------------------- MODULE Inbox -------------------------------
(***************************************************************************)
(* Entries that visitors leave and administrators read, delete and restore *)
(* (src/src/modules/contact-support, src/src/modules/retell-calls), and    *)
(* the dashboard that events keep up to date.  A message of the contact    *)
(* form is read into an aggregate and saved with both its marks; the       *)
(* record of a call is changed by one conditional statement, in bulk after *)
(* a query for the ids.  Which of the two it is, is chosen at the start.   *)
(***************************************************************************)
EXTENDS Naturals

CONSTANTS
  Entries,
  Clerks,   \* requests of administrators and visitors, served once each
  None,
  MaxDrops  \* bound: crashes, mails that fail, transactions that are rolled back

InboxAssumption == MaxDrops \in Nat /\ None \notin Entries

VARIABLES
  kind,    \* "message" or "call"
  entry,   \* the rows
  clerk,   \* what each request does
  board,   \* the dashboard: entries it shows, and those it shows as read
  mailed,  \* mails handed to the queue, to administrators and to the visitor
  crossed, \* auxiliary: entries whose events came in another order than their
           \* commits, or that two requests changed at once
  missed,  \* auxiliary: entries whose event or mail a fault has lost, or whose mail
           \* was skipped for want of recipients
  drops

inboxVars == <<kind, entry, clerk, board, mailed, crossed, missed, drops>>

NoEntry == [state |-> "none", read |-> FALSE]
Free(pc) == [pc |-> pc, op |-> "", ids |-> {}, img |-> NoEntry, unseen |-> {}]

Of(state) == {e \in Entries : entry[e].state = state}

\* Calls are there already, and the dashboard has listed them.
Init ==
  /\ kind \in {"message", "call"}
  /\ entry = [e \in Entries |-> IF kind = "call" THEN [state |-> "live", read |-> FALSE] ELSE NoEntry]
  /\ clerk = [c \in Clerks |-> Free("new")]
  /\ board = [shown |-> IF kind = "call" THEN Entries ELSE {}, read |-> {}]
  /\ mailed = {} /\ crossed = {} /\ missed = {}
  /\ drops = 0

Drop == drops < MaxDrops /\ drops' = drops + 1

Does(c, r) == clerk' = [clerk EXCEPT ![c] = r]
Ends(c)    == Does(c, Free("done"))

\* c changes S while other requests hold what they have read of it.
Noticed(c, S, r) ==
  clerk' = [d \in Clerks |->
    IF d = c THEN r
    ELSE IF clerk[d].pc = "commit" THEN [clerk[d] EXCEPT !.unseen = @ \union (S \intersect clerk[d].ids)]
    ELSE clerk[d]]

\* Entries with an event on its way, apart from those of c.
Pending(c) == UNION {clerk[d].ids : d \in {x \in Clerks \ {c} : clerk[x].pc = "event"}}

Removed == {"delete", "bulkDelete"}
Brought == {"restore", "bulkRestore"}

\* The state an operation leads from and to; reading leads nowhere.
From(op) == IF op \in Brought THEN "deleted" ELSE "live"
To(op)   == IF op \in Removed THEN "deleted" ELSE "live"

----------------------------------------------------------------------------
(* The contact form.                                                       *)

\* CreateContactSupportUseCase: the row and its strict audit entry.
Submit(c, e) ==
  /\ clerk[c].pc = "new" /\ kind = "message"
  /\ entry[e].state = "none"
  /\ entry' = [entry EXCEPT ![e] = [state |-> "live", read |-> FALSE]]
  /\ Does(c, [Free("event") EXCEPT !.op = "create", !.ids = {e}])
  /\ UNCHANGED <<kind, board, mailed, crossed, missed, drops>>

\* MUTANT of Read: the aggregate comes from a cache filled when it was created.
ReadCached(c, e, op) ==
  /\ clerk[c].pc = "new" /\ kind = "message"
  /\ entry[e].state # "none"
  /\ Does(c, [pc |-> "commit", op |-> op, ids |-> {e}, unseen |-> {},
              img |-> [state |-> From(op), read |-> FALSE]])
  /\ UNCHANGED <<kind, entry, board, mailed, crossed, missed, drops>>

\* findById looks at live rows, findByIdWithDeleted, for a restoration, at all
\* of them; softDelete and restore refuse what is deleted or live already.
Read(c, e, op) ==
  /\ clerk[c].pc = "new" /\ kind = "message"
  /\ entry[e].state = From(op)
  /\ Does(c, [pc |-> "commit", op |-> op, ids |-> {e}, unseen |-> {}, img |-> entry[e]])
  /\ UNCHANGED <<kind, entry, board, mailed, crossed, missed, drops>>

MarkRead(c, e) == Read(c, e, "read")
Delete(c, e)   == Read(c, e, "delete")
Restore(c, e)  == Read(c, e, "restore")

\* The aggregate after markAsRead, softDelete or restore.
Changed(img, op) == IF op = "read" THEN [img EXCEPT !.read = TRUE] ELSE [img EXCEPT !.state = To(op)]

\* save: both marks come from the image, then the audit entry and the commit.
\* Only reading is announced.
Save(c) ==
  LET e == CHOOSE x \in clerk[c].ids : TRUE IN
  /\ clerk[c].pc = "commit" /\ kind = "message"
  /\ entry' = [entry EXCEPT ![e] = Changed(clerk[c].img, clerk[c].op)]
  /\ Noticed(c, {e}, IF clerk[c].op = "read" THEN [Free("event") EXCEPT !.op = "read", !.ids = {e}]
                     ELSE [Free("done") EXCEPT !.op = clerk[c].op])
  /\ UNCHANGED <<kind, board, mailed, crossed, missed, drops>>

----------------------------------------------------------------------------
(* Statements over rows as they are.                                       *)

\* MUTANT of Flip: the statement no longer asks for the state it leads from.
FlipAny(c, S, op) ==
  /\ clerk[c].pc = "new"
  /\ S \subseteq Of("live") \union Of("deleted") /\ S # {}
  /\ entry' = [e \in Entries |-> IF e \in S THEN Changed(entry[e], op) ELSE entry[e]]
  /\ Noticed(c, S, IF kind = "call" /\ op # "read" THEN [Free("event") EXCEPT !.op = op, !.ids = S]
                   ELSE [Free("done") EXCEPT !.op = op])
  /\ crossed' = crossed \union (S \intersect Pending(c))
  /\ UNCHANGED <<kind, board, mailed, missed, drops>>

\* One updateMany with the state in its condition; a call that was not there is
\* an error.
Flip(c, S, op) ==
  /\ clerk[c].pc = "new"
  /\ S \subseteq Of(From(op)) /\ S # {}
  /\ entry' = [e \in Entries |-> IF e \in S THEN Changed(entry[e], op) ELSE entry[e]]
  /\ Noticed(c, S, IF kind = "call" /\ op # "read" THEN [Free("event") EXCEPT !.op = op, !.ids = S]
                   ELSE [Free("done") EXCEPT !.op = op])
  /\ crossed' = crossed \union (S \intersect Pending(c))
  /\ UNCHANGED <<kind, board, mailed, missed, drops>>

MarkCallRead(c, e) == kind = "call" /\ Flip(c, {e}, "read")
DeleteCall(c, e)   == kind = "call" /\ Flip(c, {e}, "delete")
RestoreCall(c, e)  == kind = "call" /\ Flip(c, {e}, "restore")

BulkDelete(c, S)  == kind = "message" /\ Flip(c, S, "bulkDelete")
BulkRestore(c, S) == kind = "message" /\ Flip(c, S, "bulkRestore")

\* bulkTransition: "Snapshot the matching ids, then flip them with a SINGLE
\* updateMany".
Snapshot(c, S, op) ==
  /\ clerk[c].pc = "new" /\ kind = "call"
  /\ S \intersect Of(From(op)) # {}
  /\ Does(c, [Free("commit") EXCEPT !.op = op, !.ids = S \intersect Of(From(op))])
  /\ UNCHANGED <<kind, entry, board, mailed, crossed, missed, drops>>

BulkDeleteCalls(c, S)  == Snapshot(c, S, "bulkDelete")
BulkRestoreCalls(c, S) == Snapshot(c, S, "bulkRestore")

FlipSnapshot(c) ==
  LET S == clerk[c].ids IN
  /\ clerk[c].pc = "commit" /\ kind = "call"
  /\ entry' = [e \in Entries |-> IF e \in S THEN Changed(entry[e], clerk[c].op) ELSE entry[e]]
  /\ Noticed(c, S, [Free("event") EXCEPT !.op = clerk[c].op, !.ids = S])
  /\ crossed' = crossed \union (S \intersect Pending(c))
  /\ UNCHANGED <<kind, board, mailed, missed, drops>>

\* The audit entry fails: nothing happened.
Rollback(c) ==
  /\ clerk[c].pc = "commit"
  /\ Drop
  /\ Ends(c)
  /\ UNCHANGED <<kind, entry, board, mailed, crossed, missed>>

----------------------------------------------------------------------------
(* After the commit: the cache, the event, its listeners.                  *)

\* MUTANT of Broadcast: the listener does not know of events with many ids.
BroadcastSingly(c) ==
  /\ clerk[c].pc = "event" /\ clerk[c].op # "create"
  /\ board' = CASE clerk[c].op = "delete"  -> [board EXCEPT !.shown = @ \ clerk[c].ids]
                [] clerk[c].op = "restore" -> [board EXCEPT !.shown = @ \union clerk[c].ids]
                [] clerk[c].op = "read"    -> [board EXCEPT !.read = @ \union clerk[c].ids]
                [] OTHER                   -> board
  /\ Ends(c)
  /\ UNCHANGED <<kind, entry, mailed, crossed, missed, drops>>

\* CallRealtimeListener, ContactSupportReadListener.
Broadcast(c) ==
  /\ clerk[c].pc = "event" /\ clerk[c].op # "create"
  /\ board' = CASE clerk[c].op \in Removed -> [board EXCEPT !.shown = @ \ clerk[c].ids]
                [] clerk[c].op \in Brought -> [board EXCEPT !.shown = @ \union clerk[c].ids]
                [] OTHER                   -> [board EXCEPT !.read = @ \union clerk[c].ids]
  /\ Ends(c)
  /\ UNCHANGED <<kind, entry, mailed, crossed, missed, drops>>

\* ContactSupportCreatedListener looks for the row; deleted, it is dropped.
Look(c) ==
  /\ clerk[c].pc = "event" /\ clerk[c].op = "create"
  /\ IF clerk[c].ids \subseteq Of("live") THEN Does(c, [clerk[c] EXCEPT !.pc = "admins"]) ELSE Ends(c)
  /\ UNCHANGED <<kind, entry, board, mailed, crossed, missed, drops>>

\* MUTANT of Mail: the error of the first mail ends the listener.
MailOrStop(c, to, next) ==
  /\ clerk[c].pc = to
  /\ \/ /\ mailed' = mailed \union {<<to, e>> : e \in clerk[c].ids}
        /\ Does(c, [clerk[c] EXCEPT !.pc = next])
        /\ UNCHANGED <<missed, drops>>
     \/ /\ Drop
        /\ missed' = missed \union {<<to, e>> : e \in clerk[c].ids}
        /\ Ends(c)
        /\ UNCHANGED mailed
  /\ UNCHANGED <<kind, entry, board, crossed>>

\* notifyAdminsNewRequest, sendSubmissionConfirmation: each in a try of its own.  One
\* may fail, or be skipped by the mailer, which finds nobody to mail; both go on.
Mail(c, to, next) ==
  /\ clerk[c].pc = to
  /\ Does(c, [clerk[c] EXCEPT !.pc = next])
  /\ \/ /\ mailed' = mailed \union {<<to, e>> : e \in clerk[c].ids}
        /\ UNCHANGED <<missed, drops>>
     \/ /\ Drop \/ UNCHANGED drops
        /\ missed' = missed \union {<<to, e>> : e \in clerk[c].ids}
        /\ UNCHANGED mailed
  /\ UNCHANGED <<kind, entry, board, crossed>>

Show(c) ==
  /\ clerk[c].pc = "show"
  /\ board' = [board EXCEPT !.shown = @ \union clerk[c].ids]
  /\ Ends(c)
  /\ UNCHANGED <<kind, entry, mailed, crossed, missed, drops>>

\* The process stops after the commit: events are in its memory only.  A listener
\* that cannot read the row, outside of any try, ends as well.
Stop(c) ==
  /\ clerk[c].pc \in {"event", "admins", "visitor", "show"}
  /\ Drop
  /\ missed' = missed \union ({"admins", "visitor", "board"} \X clerk[c].ids)
  /\ Ends(c)
  /\ UNCHANGED <<kind, entry, board, mailed, crossed>>

----------------------------------------------------------------------------

Next ==
  \E c \in Clerks :
    \/ \E e \in Entries :
         \/ Submit(c, e) \/ MarkRead(c, e) \/ Delete(c, e) \/ Restore(c, e)
         \/ MarkCallRead(c, e) \/ DeleteCall(c, e) \/ RestoreCall(c, e)
    \/ \E S \in SUBSET Entries :
         \/ BulkDelete(c, S) \/ BulkRestore(c, S)
         \/ BulkDeleteCalls(c, S) \/ BulkRestoreCalls(c, S)
    \/ Save(c) \/ FlipSnapshot(c) \/ Rollback(c)
    \/ Broadcast(c) \/ Look(c) \/ Show(c) \/ Stop(c)
    \/ Mail(c, "admins", "visitor") \/ Mail(c, "visitor", "show")

Spec == Init /\ [][Next]_inboxVars

----------------------------------------------------------------------------
(* Properties.                                                             *)

\* Every variable keeps its type.
InboxTypeOK ==
  /\ entry \in [Entries -> [state : {"none", "live", "deleted"}, read : BOOLEAN]]
  /\ \A c \in Clerks :
       /\ clerk[c].pc \in {"new", "commit", "event", "admins", "visitor", "show", "done"}
       /\ clerk[c].ids \subseteq Entries /\ clerk[c].unseen \subseteq clerk[c].ids
  /\ board.shown \subseteq Entries /\ board.read \subseteq Entries
  /\ mailed \subseteq {"admins", "visitor"} \X Entries
  /\ drops \in 0 .. MaxDrops

\* A mark is changed only by a request that is about it: a deleted entry does not
\* come back because it was read, a read one does not become new because it was
\* deleted, unless the request read the row before another one changed it.
MarksLoseOnlyToOverlap ==
  [][\A e \in Entries :
       \/ \E c \in Clerks : clerk[c].pc = "commit" /\ e \in clerk[c].unseen
       \/ /\ entry[e].read => entry'[e].read
          /\ entry[e].state = "deleted" /\ entry'[e].state = "live" =>
               \E c \in Clerks : clerk'[c] # clerk[c] /\ clerk'[c].op \in Brought]_inboxVars

\* What the record of a call announces has happened: every entry of an event has
\* changed by that request, unless the ids were read before another one changed
\* them ("no spurious audit + WS broadcast").
EventsTellChanges ==
  [][\A c \in Clerks :
       clerk[c].pc # "event" /\ clerk'[c].pc = "event" =>
         \A e \in clerk'[c].ids : entry'[e] # entry[e] \/ e \in clerk[c].unseen
                                  \/ clerk'[c].op = "read"]_inboxVars

\* The dashboard shows the calls that are live, once the events are through, but
\* for those whose event was lost or overtook another one.
BoardShowsCalls ==
  kind = "call" =>
    \A e \in Entries :
      \/ (e \in board.shown) = (entry[e].state = "live")
      \/ \E c \in Clerks : clerk[c].pc = "event" /\ e \in clerk[c].ids
      \/ e \in crossed \/ <<"board", e>> \in missed

\* A message that is through was mailed and shown: no mail that fails keeps the
\* other or the dashboard from it, and none that is skipped; it was deleted before
\* anybody looked, or lost.
MessagesAreTold ==
  kind = "message" =>
    \A e \in Entries :
      entry[e].state # "none" =>
        \/ \E c \in Clerks : clerk[c].op = "create" /\ e \in clerk[c].ids
        \/ \A to \in {"admins", "visitor"} : <<to, e>> \in mailed \union missed
           /\ (e \in board.shown \/ <<"board", e>> \in missed)
        \/ e \notin board.shown /\ \A to \in {"admins", "visitor"} : <<to, e>> \notin mailed

=============================================================================
