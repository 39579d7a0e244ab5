--------------------------- MODULE CampaignExport ---------------------------
(***************************************************************************)
(* The campaign export pipeline (src/src/modules/campaigns): the HTTP      *)
(* request creates a generation in a database transaction and emits an     *)
(* in-process event; a listener turns the event into a BullMQ job; one of  *)
(* the worker's concurrent slots processes the job, saving the aggregate   *)
(* after every step and uploading one zip per funnel stage to R2; a user   *)
(* may hard-delete the campaign at any moment.  The process that runs all  *)
(* this may crash, after which BullMQ hands the stalled job out again.     *)
(***************************************************************************)
EXTENDS Naturals

CONSTANTS
  Campaigns,   \* generation ids
  Workers,     \* slots of the processor (concurrency: 2)
  NStages,     \* funnel stages of a campaign, processed in order 1..NStages
  NoCampaign,  \* an idle slot's campaign
  NoWorker,    \* the holder of a job nobody runs
  MaxAttempts, \* attempts: 3
  MaxStalls,   \* BullMQ's maxStalledCount, 1 by default
  MaxFaults,   \* bound: database and Redis calls that throw
  MaxCrashes   \* bound: crashes of the process (and locks that expire too early)

ASSUME NStagesAssumption == NStages \in Nat \ {0}
ASSUME BoundsAssumption ==
  /\ MaxAttempts \in Nat \ {0}
  /\ MaxStalls \in Nat
  /\ MaxFaults \in Nat
  /\ MaxCrashes \in Nat
ASSUME NullsAssumption == NoCampaign \notin Campaigns /\ NoWorker \notin Workers

VARIABLES
  tx,       \* the transaction of the request that creates the campaign
  emitted,  \* campaigns whose CampaignExportRequestedEvent awaits the listener
  row,      \* status column of campaign_generations, "absent" if no row
  reportRow,\* the row's analysis_report_key is set
  stageRow, \* campaign_stage_exports: outcome stored for every stage
  job,      \* the BullMQ job of every campaign
  work,     \* what every worker slot is doing, with its aggregate in memory
  store,    \* objects in R2: <<c, s>> is a stage zip, <<c, 0>> the report
  ready,    \* stages announced by campaign.stage.ready
  told,     \* final outcomes announced by campaign.export.completed
  faults,   \* calls that have thrown so far
  crashes   \* crashes so far

vars == <<tx, emitted, row, reportRow, stageRow, job, work, store, ready,
          told, faults, crashes>>

requestVars == <<tx, emitted>>
dbVars      == <<row, reportRow, stageRow>>
outVars     == <<ready, told>>

Stages   == 1..NStages
Terminal == {"completed", "failed", "partial"}
Statuses == {"pending", "processing"} \union Terminal
Results  == {"empty", "ok", "error"}
Points   == {"started", "researched", "scored", "detected", "reported",
             "finished", "failed"}
PCs      == {"idle", "load", "research", "generate", "detect", "export",
             "attach", "report", "update", "upsert", "announce", "unsaved",
             "return"}

\* A slot of the worker: the await it is at, its campaign, and the aggregate
\* it holds in memory (status, stage results, report), with the stage of the
\* loop it is in, the stage save() is upserting and which save() that is.
Runs == [pc : PCs, c : Campaigns \union {NoCampaign}, status : Statuses,
         results : [Stages -> Results], report : BOOLEAN,
         at : Stages, up : Stages, point : Points]

Jobs == [st : {"none", "waiting", "active", "completed", "failed"},
         by : Workers \union {NoWorker}, attempts : Nat, stalls : Nat]

Idle == [pc |-> "idle", c |-> NoCampaign, status |-> "pending",
         results |-> [s \in Stages |-> "empty"], report |-> FALSE,
         at |-> 1, up |-> 1, point |-> "started"]

NoJob == [st |-> "none", by |-> NoWorker, attempts |-> 0, stalls |-> 0]

Init ==
  /\ tx        = [c \in Campaigns |-> "none"]
  /\ emitted   = {}
  /\ row       = [c \in Campaigns |-> "absent"]
  /\ reportRow = [c \in Campaigns |-> FALSE]
  /\ stageRow  = [c \in Campaigns |-> [s \in Stages |-> "empty"]]
  /\ job       = [c \in Campaigns |-> NoJob]
  /\ work      = [w \in Workers |-> Idle]
  /\ store     = {}
  /\ ready     = {}
  /\ told      = [c \in Campaigns |-> {}]
  /\ faults    = 0
  /\ crashes   = 0

----------------------------------------------------------------------------
(* The status machine and the aggregate.                                   *)

Rank(s) == CASE s = "pending"    -> 0
             [] s = "processing" -> 1
             [] s = "completed"  -> 2
             [] s = "failed"     -> 3
             [] OTHER            -> 4

isTerminal(s) == s \in Terminal

\* MUTANT of canTransitionTo: the guard is gone.
anyTransition(s, next) == TRUE

canTransitionTo(s, next) == Rank(next) >= Rank(s) \/ isTerminal(next)

\* The status complete() gives an aggregate with these stage results.
Outcome(results) ==
  LET hasFailures  == \E s \in Stages : results[s] = "error"
      hasSuccesses == \E s \in Stages : results[s] = "ok"
  IN  IF hasFailures
      THEN IF hasSuccesses THEN "partial" ELSE "failed"
      ELSE "completed"

(* The worker's next record: each of these runs to the next await.         *)

\* await campaignRepo.save(aggregate), called at this point of process().
Save(r, point) == [r EXCEPT !.pc = "update", !.up = 1, !.point = point]

\* MUTANT of FailRun: the failure is not saved.
FailUnsaved(r) == [r EXCEPT !.status = "failed", !.pc = "return"]

\* The outer catch: aggregate.fail(...), then save.
FailRun(r) == Save([r EXCEPT !.status = "failed"], "failed")

\* MUTANT of FinishRun: the outcome is announced but not saved.
FinishUnsaved(r) == [r EXCEPT !.status = Outcome(r.results), !.pc = "announce"]

\* aggregate.complete(), then save.
FinishRun(r) == Save([r EXCEPT !.status = Outcome(r.results)], "finished")

\* attachStageResult, then the next stage of the loop or the report.
Attach(r, result) ==
  [r EXCEPT !.results[r.at] = result,
            !.pc = IF r.at < NStages THEN "generate" ELSE "report",
            !.at = IF r.at < NStages THEN @ + 1 ELSE @]

\* Where process() continues after a save that returns.
Saved(r) ==
  CASE r.point = "started"    -> [r EXCEPT !.pc = "research"]
    [] r.point = "researched" -> [r EXCEPT !.pc = "generate"]
    [] r.point = "scored"     -> [r EXCEPT !.pc = "detect"]
    [] r.point = "detected"   -> [r EXCEPT !.pc = "export"]
    [] r.point = "reported"   -> FinishRun(r)
    [] OTHER                  -> [r EXCEPT !.pc = "announce"]

\* Where process() continues after a save that throws: the outer catch, the
\* catch of the optional step, of the stage, or the innermost catch.
SaveThrew(r) ==
  CASE r.point \in {"started", "finished"} -> FailRun(r)
    [] r.point = "researched"              -> [r EXCEPT !.pc = "generate"]
    [] r.point = "scored"                  -> Attach(r, "error")
    [] r.point = "detected"                -> [r EXCEPT !.pc = "export"]
    [] r.point = "reported"                -> FinishRun(r)
    [] OTHER                               -> [r EXCEPT !.pc = "unsaved"]

----------------------------------------------------------------------------
(* Request and event.                                                      *)

\* requestGeneration inside @Transactional: row, placeholder stage rows and
\* strict audit are written in the transaction, and the event is emitted
\* before the transaction commits.  An earlier throw leaves nothing behind.
Request(c) ==
  /\ tx[c] = "none"
  /\ tx'      = [tx EXCEPT ![c] = "open"]
  /\ emitted' = emitted \union {c}
  /\ UNCHANGED <<dbVars, job, work, store, outVars, faults, crashes>>

CommitRequest(c) ==
  /\ tx[c] = "open"
  /\ tx'  = [tx EXCEPT ![c] = "committed"]
  /\ row' = [row EXCEPT ![c] = "pending"]
  /\ UNCHANGED <<emitted, reportRow, stageRow, job, work, store, outVars,
                 faults, crashes>>

\* The commit itself fails: the event has been emitted all the same.
RollbackRequest(c) ==
  /\ tx[c] = "open"
  /\ faults < MaxFaults
  /\ faults' = faults + 1
  /\ tx' = [tx EXCEPT ![c] = "aborted"]
  /\ UNCHANGED <<emitted, dbVars, job, work, store, outVars, crashes>>

\* The listener adds the job under the deterministic id of the campaign; an
\* id that exists is ignored.
Enqueue(c) ==
  /\ c \in emitted
  /\ emitted' = emitted \ {c}
  /\ job' = [job EXCEPT ![c] = IF @.st = "none"
                               THEN [@ EXCEPT !.st = "waiting"] ELSE @]
  /\ UNCHANGED <<tx, dbVars, work, store, outVars, faults, crashes>>

\* queue.add throws in the async listener: the event is lost.
EnqueueFails(c) ==
  /\ c \in emitted
  /\ faults < MaxFaults
  /\ faults' = faults + 1
  /\ emitted' = emitted \ {c}
  /\ UNCHANGED <<tx, dbVars, job, work, store, outVars, crashes>>

\* DeleteCampaignHandler: stage rows and row in one transaction; the objects
\* in R2 and the job are left alone.
Delete(c) ==
  /\ row[c] # "absent"
  /\ row'       = [row EXCEPT ![c] = "absent"]
  /\ reportRow' = [reportRow EXCEPT ![c] = FALSE]
  /\ stageRow'  = [stageRow EXCEPT ![c] = [s \in Stages |-> "empty"]]
  /\ UNCHANGED <<requestVars, job, work, store, outVars, faults, crashes>>

----------------------------------------------------------------------------
(* The worker.                                                             *)

\* BullMQ hands a waiting job to a free slot of the processor.
Take(w, c) ==
  /\ work[w].pc = "idle"
  /\ job[c].st = "waiting"
  /\ job'  = [job EXCEPT ![c].st = "active", ![c].by = w]
  /\ work' = [work EXCEPT ![w] = [Idle EXCEPT !.pc = "load", !.c = c]]
  /\ UNCHANGED <<requestVars, dbVars, store, outVars, faults, crashes>>

\* findById, then markProcessing; a campaign that is not there ends the job,
\* one that may not go back to processing is failed by the outer catch.
Load(w) ==
  LET c == work[w].c
      r == [work[w] EXCEPT !.status = row[c], !.results = stageRow[c],
                           !.report = reportRow[c]]
  IN  /\ work[w].pc = "load"
      /\ work' = [work EXCEPT ![w] =
           IF row[c] = "absent" THEN [@ EXCEPT !.pc = "return"]
           ELSE IF canTransitionTo(row[c], "processing")
                THEN Save([r EXCEPT !.status = "processing"], "started")
                ELSE FailRun(r)]
      /\ UNCHANGED <<requestVars, dbVars, job, store, outVars, faults, crashes>>

\* findById throws: the only error process() lets BullMQ see.
LoadThrows(w) ==
  LET c == work[w].c
      n == job[c].attempts + 1
  IN  /\ work[w].pc = "load"
      /\ faults < MaxFaults
      /\ faults' = faults + 1
      /\ work' = [work EXCEPT ![w] = Idle]
      /\ job'  = [job EXCEPT ![c] =
           IF @.by # w THEN @
           ELSE [@ EXCEPT !.st = IF n < MaxAttempts THEN "waiting" ELSE "failed",
                          !.by = NoWorker, !.attempts = n]]
      /\ UNCHANGED <<requestVars, dbVars, store, outVars, crashes>>

\* save(): the update of the row, with every column of the aggregate.
UpdateRow(w) ==
  LET r == work[w]
  IN  /\ r.pc = "update"
      /\ row[r.c] # "absent"
      /\ row'       = [row EXCEPT ![r.c] = r.status]
      /\ reportRow' = [reportRow EXCEPT ![r.c] = r.report]
      /\ work'      = [work EXCEPT ![w].pc = "upsert"]
      /\ UNCHANGED <<requestVars, stageRow, job, store, outVars, faults, crashes>>

\* save(): the upsert of the next stage result.
UpsertStage(w) ==
  LET r == work[w]
  IN  /\ r.pc = "upsert"
      /\ row[r.c] # "absent"
      /\ stageRow' = [stageRow EXCEPT ![r.c][r.up] = r.results[r.up]]
      /\ work' = [work EXCEPT ![w] =
           IF r.up < NStages THEN [r EXCEPT !.up = r.up + 1] ELSE Saved(r)]
      /\ UNCHANGED <<requestVars, row, reportRow, job, store, outVars, faults,
                     crashes>>

\* Either statement of save() throws: the row is gone, or the database fails.
SaveThrows(w) ==
  LET r == work[w]
  IN  /\ r.pc \in {"update", "upsert"}
      /\ \/ row[r.c] = "absent" /\ UNCHANGED faults
         \/ faults < MaxFaults /\ faults' = faults + 1
      /\ work' = [work EXCEPT ![w] = SaveThrew(r)]
      /\ UNCHANGED <<requestVars, dbVars, job, store, outVars, crashes>>

\* An optional step: its error is logged and the run goes on without it.
Research(w) ==
  /\ work[w].pc = "research"
  /\ work' = [work EXCEPT ![w] = Save(@, "researched")]
  /\ UNCHANGED <<requestVars, dbVars, job, store, outVars, faults, crashes>>

ResearchFails(w) ==
  /\ work[w].pc = "research"
  /\ work' = [work EXCEPT ![w].pc = "generate"]
  /\ UNCHANGED <<requestVars, dbVars, job, store, outVars, faults, crashes>>

\* The quality loop returns content, whose scores are saved.
Generate(w) ==
  /\ work[w].pc = "generate"
  /\ work' = [work EXCEPT ![w] = Save(@, "scored")]
  /\ UNCHANGED <<requestVars, dbVars, job, store, outVars, faults, crashes>>

Detect(w) ==
  /\ work[w].pc = "detect"
  /\ work' = [work EXCEPT ![w] = Save(@, "detected")]
  /\ UNCHANGED <<requestVars, dbVars, job, store, outVars, faults, crashes>>

DetectFails(w) ==
  /\ work[w].pc = "detect"
  /\ work' = [work EXCEPT ![w].pc = "export"]
  /\ UNCHANGED <<requestVars, dbVars, job, store, outVars, faults, crashes>>

\* MUTANT of UploadZip: the upload is not awaited, and never arrives.
UploadZipNotAwaited(w) ==
  LET r == work[w]
  IN  /\ r.pc = "export"
      /\ work' = [work EXCEPT ![w].pc = "attach"]
      /\ UNCHANGED <<requestVars, dbVars, job, store, outVars, faults, crashes>>

\* Audio, images, brief and zip are built in memory and the zip is uploaded.
UploadZip(w) ==
  LET r == work[w]
  IN  /\ r.pc = "export"
      /\ store' = store \union {<<r.c, r.at>>}
      /\ work'  = [work EXCEPT ![w].pc = "attach"]
      /\ UNCHANGED <<requestVars, dbVars, job, outVars, faults, crashes>>

\* upload() has returned: the success is attached in memory and announced;
\* the next save will persist it.
AttachZip(w) ==
  LET r == work[w]
  IN  /\ r.pc = "attach"
      /\ ready' = ready \union {<<r.c, r.at>>}
      /\ work'  = [work EXCEPT ![w] = Attach(r, "ok")]
      /\ UNCHANGED <<requestVars, dbVars, job, store, told, faults, crashes>>

\* The stage's catch: the generator, the brief, the zip or the upload threw.
\* A zip whose upload timed out may be in the bucket already ("attach").
StageFails(w) ==
  /\ work[w].pc \in {"generate", "export", "attach"}
  /\ work' = [work EXCEPT ![w] = Attach(@, "error")]
  /\ UNCHANGED <<requestVars, dbVars, job, store, outVars, faults, crashes>>

UploadReport(w) ==
  LET r == work[w]
  IN  /\ r.pc = "report"
      /\ store' = store \union {<<r.c, 0>>}
      /\ work'  = [work EXCEPT ![w] = Save([r EXCEPT !.report = TRUE], "reported")]
      /\ UNCHANGED <<requestVars, dbVars, job, outVars, faults, crashes>>

\* The report is best effort; an upload that timed out may have landed.
ReportFails(w) ==
  LET r == work[w]
  IN  /\ r.pc = "report"
      /\ store' \in {store, store \union {<<r.c, 0>>}}
      /\ work'  = [work EXCEPT ![w] = FinishRun(r)]
      /\ UNCHANGED <<requestVars, dbVars, job, outVars, faults, crashes>>

\* The final event, pushed to the campaign's room and to its owner.
Announce(w) ==
  LET r == work[w]
  IN  /\ r.pc = "announce"
      /\ told' = [told EXCEPT ![r.c] = @ \union {r.status}]
      /\ work' = [work EXCEPT ![w].pc = "return"]
      /\ UNCHANGED <<requestVars, dbVars, job, store, ready, faults, crashes>>

\* process() returns and BullMQ completes the job if the slot still holds it.
Return(w) ==
  LET c == work[w].c
  IN  /\ work[w].pc \in {"return", "unsaved"}
      /\ work' = [work EXCEPT ![w] = Idle]
      /\ job'  = [job EXCEPT ![c] = IF @.by # w THEN @
                    ELSE [@ EXCEPT !.st = "completed", !.by = NoWorker]]
      /\ UNCHANGED <<requestVars, dbVars, store, outVars, faults, crashes>>

----------------------------------------------------------------------------
(* Crash and redelivery.                                                   *)

\* The process dies: the open transactions roll back, the events in memory
\* and the runs are gone; PostgreSQL, Redis and R2 stay.
Crash ==
  /\ crashes < MaxCrashes
  /\ crashes' = crashes + 1
  /\ tx'      = [c \in Campaigns |-> IF tx[c] = "open" THEN "aborted" ELSE tx[c]]
  /\ emitted' = {}
  /\ work'    = [w \in Workers |-> Idle]
  /\ UNCHANGED <<dbVars, job, store, outVars, faults>>

\* Nobody renews the job's lock: BullMQ's stalled check puts the job back, or
\* fails it when it has stalled too often.
Lost(c) == job[c].st = "active" /\ \A w \in Workers : work[w].c # c

Redeliver(c) ==
  /\ job' = [job EXCEPT ![c] =
       [@ EXCEPT !.st = IF job[c].stalls < MaxStalls THEN "waiting" ELSE "failed",
                 !.by = NoWorker, !.stalls = job[c].stalls + 1]]
  /\ UNCHANGED <<requestVars, dbVars, work, store, outVars, faults>>

Stalled(c) == Lost(c) /\ Redeliver(c) /\ UNCHANGED crashes

----------------------------------------------------------------------------

Step(w) ==
  \/ Load(w) \/ UpdateRow(w) \/ UpsertStage(w) \/ SaveThrows(w)
  \/ Research(w) \/ ResearchFails(w) \/ Generate(w) \/ Detect(w)
  \/ DetectFails(w) \/ UploadZip(w) \/ AttachZip(w) \/ StageFails(w)
  \/ UploadReport(w) \/ ReportFails(w) \/ Announce(w) \/ Return(w)

Next ==
  \/ \E c \in Campaigns :
       \/ Request(c) \/ CommitRequest(c) \/ RollbackRequest(c)
       \/ Enqueue(c) \/ EnqueueFails(c) \/ Delete(c) \/ Stalled(c)
  \/ \E w \in Workers, c \in Campaigns : Take(w, c)
  \/ \E w \in Workers : Step(w) \/ LoadThrows(w)
  \/ Crash

Spec == Init /\ [][Next]_vars

\* Requests commit, the event loop runs its listeners, BullMQ hands out the
\* waiting jobs and checks for stalled ones, and a run that can go on does.
Fairness ==
  /\ \A c \in Campaigns :
       /\ WF_vars(CommitRequest(c))
       /\ WF_vars(Enqueue(c))
       /\ WF_vars(Stalled(c))
       /\ WF_vars(\E w \in Workers : Take(w, c))
  /\ \A w \in Workers : WF_vars(Step(w))

FairSpec == Spec /\ Fairness

----------------------------------------------------------------------------
(* Properties.                                                             *)

\* Every variable keeps its type.
TypeOK ==
  /\ tx \in [Campaigns -> {"none", "open", "committed", "aborted"}]
  /\ emitted \subseteq Campaigns
  /\ row \in [Campaigns -> Statuses \union {"absent"}]
  /\ reportRow \in [Campaigns -> BOOLEAN]
  /\ stageRow \in [Campaigns -> [Stages -> Results]]
  /\ job \in [Campaigns -> Jobs]
  /\ work \in [Workers -> Runs]
  /\ store \subseteq Campaigns \X (0..NStages)
  /\ ready \subseteq Campaigns \X Stages
  /\ told \in [Campaigns -> SUBSET Terminal]
  /\ faults \in 0..MaxFaults
  /\ crashes \in 0..MaxCrashes

\* A download link a user can see, in the status answer or in a
\* campaign.stage.ready push, always leads to an object in the bucket,
\* whatever failed, was redelivered or ran twice.
LinksResolve ==
  /\ ready \subseteq store
  /\ \A c \in Campaigns, s \in Stages :
       stageRow[c][s] = "ok" => <<c, s>> \in store
  /\ \A c \in Campaigns : reportRow[c] => <<c, 0>> \in store

\* When the final event goes out, the database already says the same: the
\* status is stored, and so is the result of every stage it is derived from
\* (unless the user has deleted the campaign in between).
AnnouncedIsStored ==
  \A w \in Workers :
    LET c == work[w].c
        o == work[w].status
    IN  work[w].pc = "announce" /\ row[c] # "absent" =>
          /\ row[c] = o
          /\ o = "completed" => \A s \in Stages : stageRow[c][s] = "ok"
          /\ o = "partial" => /\ \E s \in Stages : stageRow[c][s] = "ok"
                              /\ \E s \in Stages : stageRow[c][s] = "error"

\* The pipeline implements the lifecycle promised to users: a status never
\* moves back, a deleted campaign never comes back, and an outcome that is
\* pushed is the one stored.
Lifecycle == INSTANCE CampaignLifecycle WITH
               accepted <- {c \in Campaigns : tx[c] = "committed"},
               status   <- row,
               told     <- told

LifecycleSpec == Lifecycle!Spec

\* BullMQ has given the job up: it stalled or failed once too often.
GivenUp(c) == job[c].st = "failed"

\* The innermost catch has swallowed the save of the failure itself.
FailureUnsaved(c) == \E w \in Workers : work[w].c = c /\ work[w].pc = "unsaved"

\* The job is done, but a run that had lost it has saved over the outcome.
Overwritten(c) ==
  /\ job[c].st = "completed"
  /\ row[c] \notin Terminal
  /\ \E w \in Workers : work[w].c = c

\* A job that is handed out while the campaign's row is visible brings the
\* campaign to a final status (or finds it deleted) for good, although
\* process() swallows its errors, the process may crash and a second run may
\* save over the first.  Three things only leave it in processing: the queue
\* gives the job up, the database also refuses to store the failure, or the
\* process dies after a run that had lost the job to another saved over the
\* outcome of that other run (an early expiry of the lock is the first of the
\* crashes, the death of the process a later one).
DeliveredStaysSettled ==
  \A c \in Campaigns :
    (job[c].st = "waiting" /\ row[c] # "absent")
      ~> ([](row[c] \in Terminal \union {"absent"})
            \/ GivenUp(c) \/ FailureUnsaved(c)
            \/ \E n \in 1..(MaxCrashes - 1) :
                 Overwritten(c) /\ crashes = n /\ <>(crashes > n))

============================================================================
