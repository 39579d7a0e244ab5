---------------------------- MODULE RetellIngest ----------------------------
(***************************************************************************)
(* Calls recorded from Retell (src/src/modules/retell-calls), and the mail *)
(* about a new one.  Retell delivers the event of an analysed call up to   *)
(* Deliveries times, until it is answered; the office may synchronise      *)
(* calls and delete and restore records meanwhile.  For one call: the      *)
(* records of different calls do not meet.                                 *)
(***************************************************************************)
EXTENDS MailQueue

CONSTANTS
  Rows,       \* records of the call, each the subject of a mail
  Deliveries, \* how often Retell delivers the event
  MaxAdmin    \* bound: deletions, each of which may be undone, and edits of the company

ASSUME RetellIngestAssumption == Rows \subseteq Mails \ Poison /\ Deliveries \in Nat /\ MaxAdmin \in Nat

VARIABLES
  call,   \* what Retell knows: "none", "ended", "analyzed"
  row,    \* the records
  hook,   \* the deliveries
  sync,   \* a synchronisation
  admin,  \* deletions and edits of the company so far
  lost,   \* records whose event or alert was lost (auxiliary)
  address \* whether the company has an e-mail address

retellVars == <<call, row, hook, sync, admin, lost, address>>
vars == <<mailVars, retellVars>>

NoRow == [live |-> FALSE, data |-> "none", by |-> "none"]

Init ==
  /\ MailInit
  /\ call = "none"
  /\ row  = [r \in Rows |-> NoRow]
  /\ hook = [d \in 1 .. Deliveries |-> [pc |-> "new", row |-> None]]
  /\ sync = [pc |-> "new", row |-> None, data |-> "none", behind |-> FALSE]
  /\ admin = 0
  /\ lost = {}
  /\ address = TRUE

\* The record upsertByCallId finds, and the one an insert makes.
Live == {r \in Rows : row[r].live}
Found == IF Live = {} THEN None ELSE CHOOSE r \in Live : TRUE
HasFree == \E r \in Rows : row[r].data = "none"
Fresh == CHOOSE r \in Rows : row[r].data = "none"

Answered(d) == hook[d].pc = "ok"
Running(d)  == hook[d].pc \in {"write", "emit"}

\* Retell analyses the call some time after it has ended (external).
CallGoesOn ==
  /\ call # "analyzed"
  /\ call' = IF call = "none" THEN "ended" ELSE "analyzed"
  /\ UNCHANGED <<mailVars, row, hook, sync, admin, lost, address>>

\* MUTANT of Deliver: every event is acknowledged before it is handled.
DeliverOnce(d) ==
  /\ call = "analyzed" /\ hook[d].pc = "new"
  /\ \A e \in 1 .. d - 1 : hook[e].pc # "new" /\ hook[e].pc \notin {"ok", "failed"}
  /\ hook' = [hook EXCEPT ![d] = [pc |-> "write", row |-> Found]]
  /\ UNCHANGED <<mailVars, call, row, sync, admin, lost, address>>

\* A delivery: the first, or the next one after a failure or for want of an answer.
Deliver(d) ==
  /\ call = "analyzed" /\ hook[d].pc = "new"
  /\ \A e \in 1 .. d - 1 : hook[e].pc # "new" /\ ~Answered(e)
  /\ hook' = [hook EXCEPT ![d] = [pc |-> "write", row |-> Found]]
  /\ UNCHANGED <<mailVars, call, row, sync, admin, lost, address>>

\* MUTANT of HookWrite: the event goes out for an update, too.
HookWriteAndTell(d) ==
  /\ hook[d].pc = "write" /\ hook[d].row # None
  /\ row' = [row EXCEPT ![hook[d].row].data = "analyzed"]
  /\ hook' = [hook EXCEPT ![d].pc = "emit"]
  /\ UNCHANGED <<mailVars, call, sync, admin, lost, address>>

\* MUTANT of HookWrite: the loser of two inserts is content.
HookWriteContent(d) ==
  /\ hook[d].pc = "write" /\ hook[d].row = None /\ Live # {}
  /\ hook' = [hook EXCEPT ![d] = [pc |-> "ok", row |-> Found]]
  /\ UNCHANGED <<mailVars, call, row, sync, admin, lost, address>>

\* upsertByCallId and commit.  A row found is updated by its id, deleted or not.
\* When an insert meets the unique index the transaction is aborted, reading in it
\* again fails, and Retell gets an error.
HookWrite(d) ==
  /\ hook[d].pc = "write"
  /\ \/ /\ hook[d].row # None
        /\ row' = [row EXCEPT ![hook[d].row].data = "analyzed"]
        /\ hook' = [hook EXCEPT ![d].pc = "ok"]
     \/ /\ hook[d].row = None /\ Live # {}
        /\ hook' = [hook EXCEPT ![d].pc = "failed"]
        /\ UNCHANGED row
     \/ /\ hook[d].row = None /\ Live = {} /\ HasFree
        /\ row' = [row EXCEPT ![Fresh] = [live |-> TRUE, data |-> "analyzed", by |-> "webhook"]]
        /\ hook' = [hook EXCEPT ![d] = [pc |-> "emit", row |-> Fresh]]
  /\ sync' = [sync EXCEPT !.behind = @ \/ (sync.pc \in {"fetched", "write"} /\ row' # row)]
  /\ UNCHANGED <<mailVars, call, admin, lost, address>>

\* The transaction fails.
HookFails(d) ==
  /\ hook[d].pc = "write"
  /\ Fault
  /\ hook' = [hook EXCEPT ![d] = [pc |-> "failed", row |-> None]]
  /\ UNCHANGED <<mail, breaker, up, call, row, sync, admin, lost, address>>

\* The event of an insert; its listener mails the record, deleted or not.
NotifyNewCall(d) ==
  /\ hook[d].pc = "emit" /\ address
  /\ \/ mail' = Enqueued(hook[d].row) /\ UNCHANGED faults
     \/ mail' = SentAtOnce(hook[d].row) /\ Fault
  /\ hook' = [hook EXCEPT ![d].pc = "ok"]
  /\ UNCHANGED <<breaker, up, call, row, sync, admin, lost, address>>

\* Or it makes no mail: it cannot read the record or the company, or the company has
\* no address.  The delivery is answered all the same.
SkipAlert(d) ==
  /\ hook[d].pc = "emit"
  /\ Fault \/ (~address /\ UNCHANGED faults)
  /\ lost' = lost \union {hook[d].row}
  /\ hook' = [hook EXCEPT ![d].pc = "ok"]
  /\ UNCHANGED <<mail, breaker, up, call, row, sync, admin, address>>

Emit(d) == NotifyNewCall(d) \/ SkipAlert(d)

\* SyncCallsUseCase: the list is fetched before the transaction that writes it.
SyncFetch ==
  /\ sync.pc = "new" /\ call # "none"
  /\ sync' = [sync EXCEPT !.pc = "fetched", !.data = call]
  /\ UNCHANGED <<mailVars, call, row, hook, admin, lost, address>>

SyncFind ==
  /\ sync.pc = "fetched"
  /\ sync' = [sync EXCEPT !.pc = "write", !.row = Found]
  /\ UNCHANGED <<mailVars, call, row, hook, admin, lost, address>>

SyncDone == [pc |-> "done", row |-> None, data |-> "none", behind |-> sync.behind]

\* The same upsert, without an event.
SyncWrite ==
  /\ sync.pc = "write"
  /\ sync' = SyncDone
  /\ \/ sync.row # None /\ row' = [row EXCEPT ![sync.row].data = sync.data]
     \/ sync.row = None /\ Live # {} /\ UNCHANGED row
     \/ /\ sync.row = None /\ Live = {} /\ HasFree
        /\ row' = [row EXCEPT ![Fresh] = [live |-> TRUE, data |-> sync.data, by |-> "sync"]]
  /\ UNCHANGED <<mailVars, call, hook, admin, lost, address>>

\* DeleteCallUseCase and RestoreCallUseCase, and the bulk ones: one update each, of
\* rows in the other state; the index turns down a restoration next to a live row.
Delete(r) ==
  /\ row[r].live /\ admin < MaxAdmin
  /\ row' = [row EXCEPT ![r].live = FALSE]
  /\ admin' = admin + 1
  /\ UNCHANGED <<mailVars, call, hook, sync, lost, address>>

\* MUTANT of Restore: next to a live row as well.
RestoreAnyway(r) ==
  /\ row[r].data # "none" /\ ~row[r].live
  /\ row' = [row EXCEPT ![r].live = TRUE]
  /\ UNCHANGED <<mailVars, call, hook, sync, admin, lost, address>>

Restore(r) ==
  /\ row[r].data # "none" /\ Live = {}
  /\ row' = [row EXCEPT ![r].live = TRUE]
  /\ UNCHANGED <<mailVars, call, hook, sync, admin, lost, address>>

\* UpdateCompanyDataSchema takes an empty address as well as another one.
EditCompany ==
  /\ admin < MaxAdmin
  /\ address' = ~address
  /\ admin' = admin + 1
  /\ UNCHANGED <<mailVars, call, row, hook, sync, lost>>

\* The backend stops and starts again, its worker with it.
Crash ==
  /\ Fault
  /\ WorkerStops
  /\ hook' = [d \in 1 .. Deliveries |-> IF Running(d) THEN [pc |-> "failed", row |-> None] ELSE hook[d]]
  /\ lost' = lost \union {hook[d].row : d \in {e \in 1 .. Deliveries : hook[e].pc = "emit"}}
  /\ sync' = IF sync.pc = "new" THEN sync ELSE SyncDone
  /\ UNCHANGED <<up, call, row, admin, address>>

Hook(d) == Deliver(d) \/ HookWrite(d) \/ Emit(d)

Next ==
  \/ MailNext /\ UNCHANGED retellVars
  \/ CallGoesOn
  \/ \E d \in 1 .. Deliveries : Hook(d) \/ HookFails(d)
  \/ SyncFetch \/ SyncFind \/ SyncWrite
  \/ \E r \in Rows : Delete(r) \/ Restore(r)
  \/ EditCompany
  \/ Crash

\* Retell delivers and the backend answers; the worker works and time passes.
Fairness ==
  /\ WF_vars(CallGoesOn)
  /\ \A d \in 1 .. Deliveries : WF_vars(Hook(d))
  /\ WF_vars(Process /\ UNCHANGED retellVars)
  /\ WF_vars(Tick /\ UNCHANGED retellVars)

Spec == Init /\ [][Next]_vars /\ Fairness

----------------------------------------------------------------------------
(* Properties.                                                             *)

\* Every variable keeps its type, and a call has one record that is not deleted.
TypeOK ==
  /\ MailTypeOK
  /\ row \in [Rows -> [live : BOOLEAN, data : {"none", "ended", "analyzed"},
                       by : {"none", "webhook", "sync"}]]
  /\ Cardinality(Live) <= 1
  /\ \A d \in 1 .. Deliveries : hook[d].pc \in {"new", "write", "emit", "ok", "failed"}
  /\ admin \in 0 .. MaxAdmin /\ lost \subseteq Rows /\ address \in BOOLEAN

\* Deliveries of one event, however many arrive and in whatever order with a
\* synchronisation, make exactly one mail for a record they insert and none for
\* one they find; it is lost only in a crash between the commit and the event, when
\* the listener cannot read the record or the company, or for want of an address.
InsertsAreMailed ==
  \A r \in Rows :
    /\ mail[r].st # "none" => row[r].by = "webhook"
    /\ row[r].by = "webhook" /\ mail[r].st = "none" =>
         r \in lost \/ \E d \in 1 .. Deliveries : hook[d].pc = "emit" /\ hook[d].row = r

\* The analysis a delivery was answered for stays on its record, unless a
\* synchronisation that fetched the call before writes its older image back.
AnalysesAreKept ==
  \A d \in 1 .. Deliveries :
    hook[d].pc \in {"emit", "ok"} /\ row[hook[d].row].data # "analyzed" => sync.behind

\* Every analysed call is on record in the end with its analysis, unless every
\* delivery has failed or an older image has been written back.
CallsAreRecorded ==
  <>[](\/ \E r \in Rows : row[r].data = "analyzed"
       \/ \A d \in 1 .. Deliveries : hook[d].pc = "failed"
       \/ sync.behind)

\* Deliveries do what they are answered for: one record, one mail, and the
\* analysis, at a bounded number of calls to the provider.
DeliveriesAreKept ==
  TypeOK /\ InsertsAreMailed /\ AnalysesAreKept /\ ProviderCallsAreBounded

\* Every call is on record and every mail is sent or given up in the end.
EverythingSettles == CallsAreRecorded /\ MailsAreSettled

=============================================================================
