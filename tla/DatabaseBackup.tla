--------------------------- MODULE DatabaseBackup ---------------------------
(***************************************************************************)
(* The backups of the database (src/src/modules/backup): a run inserts a   *)
(* row, dumps the database to a temporary file, uploads the dump to R2 and *)
(* flips the row, each stage without the transaction of the others.  A run *)
(* is started by the daily cron or by an administrator; retention prunes   *)
(* after every completed run, and an administrator may delete any row at   *)
(* any time.  Backups are numbered in the order of createdAt.              *)
(***************************************************************************)
EXTENDS Naturals, FiniteSets

CONSTANTS
  Keep,       \* BACKUP_RETENTION_COUNT: 30
  MaxBackups, \* bound: runs
  MaxDeletes, \* bound: deletions by an administrator
  MaxFaults   \* bound: crashes of the process, and calls of pg_dump, R2 and
              \* PostgreSQL that fail

ASSUME BackupAssumption == {Keep, MaxBackups, MaxDeletes, MaxFaults} \subseteq Nat

Backups == 1 .. MaxBackups

VARIABLES
  row,       \* the status of every row of database_backups
  bucket,    \* dumps in R2, each under the key of its backup
  tmp,       \* files in BACKUP_TMP_DIR; those left are dumps that threw, or whose
             \* process has died
  run,       \* where RunBackupHandler is, and what it knows of its file
  prune,     \* the retention run that the completion of a backup has started
  removing,  \* deleted rows whose dump is still to be deleted
  excused,   \* auxiliary: runs hit by a fault, a crash or a deletion on the way
  undeleted, \* auxiliary: dumps whose deletion R2 refused, or nobody came to try
  stale,     \* auxiliary: backups that have been beyond the newest Keep
  deletes, faults

vars == <<row, bucket, tmp, run, prune, removing, excused, undeleted, stale,
          deletes, faults>>
counters == <<deletes, faults>>

Statuses == {"none", "PENDING", "COMPLETED", "FAILED", "gone"}
PCs      == {"none", "dump", "upload", "complete", "announce", "fail",
             "finally", "done"}
Runs     == [pc : PCs, file : BOOLEAN]
Prunes   == [pc : {"none", "find", "object", "row"}, todo : SUBSET Backups]

At(pc) == [pc |-> pc, file |-> FALSE]
Quiet  == [pc |-> "none", todo |-> {}]

Init ==
  /\ row      = [b \in Backups |-> "none"]
  /\ bucket   = {}
  /\ tmp      = [b \in Backups |-> "none"]
  /\ run      = [b \in Backups |-> At("none")]
  /\ prune    = [b \in Backups |-> Quiet]
  /\ removing = {}
  /\ excused  = {}
  /\ undeleted = {}
  /\ stale    = {}
  /\ deletes  = 0
  /\ faults   = 0

----------------------------------------------------------------------------
(* The rows.                                                               *)

Completed(r) == {b \in Backups : r[b] = "COMPLETED"}

\* findCompletedBeyond: the completed rows after the newest Keep.
Beyond(r) == {b \in Completed(r) : Cardinality({c \in Completed(r) : c > b}) >= Keep}

\* What GET backups/:id/download goes to R2 for.
Downloadable(b) == row[b] = "COMPLETED"

\* The next one in the order of the query.
Newest(S) == CHOOSE b \in S : \A c \in S : c <= b

\* MUTANT of Flip: the aggregate does not look at the status.
FlipAnyhow(b, status) ==
  /\ row[b] # "gone"
  /\ row' = [row EXCEPT ![b] = status]

\* markCompleted and markFailed: the row is read again and must be PENDING.
Flip(b, status) ==
  /\ row[b] = "PENDING"
  /\ row' = [row EXCEPT ![b] = status]

Fault == faults < MaxFaults /\ faults' = faults + 1

Goto(b, pc) == run' = [run EXCEPT ![b].pc = pc]

----------------------------------------------------------------------------
(* RunBackupHandler.                                                       *)

\* insertPending commits.  The cron waits for the run it has started
\* (waitForCompletion) but an administrator waits for nobody, so a run may
\* begin at any time.
Trigger(b) ==
  /\ row[b] = "none" /\ \A c \in Backups : c < b => row[c] # "none"
  /\ row' = [row EXCEPT ![b] = "PENDING"]
  /\ run' = [run EXCEPT ![b] = At("dump")]
  /\ UNCHANGED <<bucket, tmp, prune, removing, excused, undeleted, stale, counters>>

\* dump(): the file is complete, and the handler has its path.
Dump(b) ==
  /\ run[b].pc = "dump"
  /\ tmp' = [tmp EXCEPT ![b] = "whole"]
  /\ run' = [run EXCEPT ![b] = [@ EXCEPT !.pc = "upload", !.file = TRUE]]
  /\ UNCHANGED <<row, bucket, prune, removing, excused, undeleted, stale, counters>>

\* dump() throws: pg_dump fails, is killed after 30 minutes or writes nothing.
\* The file may have been created by then; the handler has no path.
DumpFails(b) ==
  /\ run[b].pc = "dump"
  /\ Fault
  /\ tmp' \in {tmp, [tmp EXCEPT ![b] = "left"]}
  /\ Goto(b, "fail")
  /\ UNCHANGED <<row, bucket, prune, removing, excused, undeleted, stale, deletes>>

Upload(b) ==
  /\ run[b].pc = "upload"
  /\ bucket' = bucket \union {b}
  /\ Goto(b, "complete")
  /\ UNCHANGED <<row, tmp, prune, removing, excused, undeleted, stale, counters>>

\* The PUT fails, or its answer is lost.
UploadFails(b) ==
  /\ run[b].pc = "upload"
  /\ Fault
  /\ bucket' \in {bucket, bucket \union {b}}
  /\ excused' = excused \union {b}
  /\ Goto(b, "fail")
  /\ UNCHANGED <<row, tmp, prune, removing, undeleted, stale, deletes>>

\* markCompleted commits, with its audit entry.
Complete(b) ==
  /\ run[b].pc = "complete"
  /\ Flip(b, "COMPLETED")
  /\ stale' = stale \union Beyond(row')
  /\ Goto(b, "announce")
  /\ UNCHANGED <<bucket, tmp, prune, removing, excused, undeleted, counters>>

\* markCompleted throws: the row is gone.
Lost(b) ==
  /\ run[b].pc = "complete" /\ row[b] = "gone"
  /\ Goto(b, "fail")
  /\ UNCHANGED <<row, bucket, tmp, prune, removing, excused, undeleted, stale, counters>>

\* markCompleted throws: PostgreSQL or the strict audit fails and nothing is
\* written, or the answer to the commit is lost.
CompleteFails(b) ==
  /\ run[b].pc = "complete"
  /\ Fault
  /\ UNCHANGED row \/ Flip(b, "COMPLETED")
  /\ stale' = stale \union Beyond(row')
  /\ excused' = excused \union {b}
  /\ Goto(b, "fail")
  /\ UNCHANGED <<bucket, tmp, prune, removing, undeleted, deletes>>

\* MUTANT of Announce: the event is never emitted.
AnnounceNothing(b) ==
  /\ run[b].pc = "announce"
  /\ Goto(b, "finally")
  /\ UNCHANGED <<row, bucket, tmp, prune, removing, excused, undeleted, stale, counters>>

\* The event backup.completed starts a retention run nobody waits for.
Announce(b) ==
  /\ run[b].pc = "announce"
  /\ prune' = [prune EXCEPT ![b] = [pc |-> "find", todo |-> {}]]
  /\ Goto(b, "finally")
  /\ UNCHANGED <<row, bucket, tmp, removing, excused, undeleted, stale, counters>>

\* MUTANT of Fail: the outer catch only logs.
FailLogged(b) ==
  /\ run[b].pc = "fail"
  /\ Goto(b, "finally")
  /\ UNCHANGED <<row, bucket, tmp, prune, removing, excused, undeleted, stale, counters>>

\* The outer catch: markFailed commits, or throws because the row is gone or
\* terminal, which the inner catch logs.
Fail(b) ==
  /\ run[b].pc = "fail"
  /\ Flip(b, "FAILED") \/ (row[b] # "PENDING" /\ UNCHANGED row)
  /\ Goto(b, "finally")
  /\ UNCHANGED <<bucket, tmp, prune, removing, excused, undeleted, stale, counters>>

\* "if even this fails the row stays PENDING".
FailFails(b) ==
  /\ run[b].pc = "fail"
  /\ Fault
  /\ excused' = excused \union {b}
  /\ Goto(b, "finally")
  /\ UNCHANGED <<row, bucket, tmp, prune, removing, undeleted, stale, deletes>>

\* MUTANT of Finally: the file is deleted after a success only.
FinallyIfCompleted(b) ==
  /\ run[b].pc = "finally"
  /\ tmp' = IF row[b] = "COMPLETED" THEN [tmp EXCEPT ![b] = "none"] ELSE tmp
  /\ run' = [run EXCEPT ![b] = At("done")]
  /\ UNCHANGED <<row, bucket, prune, removing, excused, undeleted, stale, counters>>

\* finally: the file is deleted if the handler has its path.
Finally(b) ==
  /\ run[b].pc = "finally"
  /\ tmp' = IF run[b].file THEN [tmp EXCEPT ![b] = "none"] ELSE tmp
  /\ run' = [run EXCEPT ![b] = At("done")]
  /\ UNCHANGED <<row, bucket, prune, removing, excused, undeleted, stale, counters>>

----------------------------------------------------------------------------
(* BackupRetentionListener.                                                *)

\* What a listener that is through with its list, or has a list, does next.
Listed(b, todo) ==
  prune' = [prune EXCEPT ![b] = IF todo = {} THEN Quiet ELSE [pc |-> "object", todo |-> todo]]

\* MUTANT of Find: one completed backup more is taken.
FindOneMore(b) ==
  /\ prune[b].pc = "find"
  /\ Listed(b, {c \in Completed(row) : Cardinality({d \in Completed(row) : d > c}) + 1 >= Keep})
  /\ UNCHANGED <<row, bucket, tmp, run, removing, excused, undeleted, stale, counters>>

Find(b) ==
  /\ prune[b].pc = "find"
  /\ Listed(b, Beyond(row))
  /\ UNCHANGED <<row, bucket, tmp, run, removing, excused, undeleted, stale, counters>>

\* storage.delete, which swallows what R2 throws: the row goes next either way.
PruneObject(b) ==
  LET c == Newest(prune[b].todo)
  IN  /\ prune[b].pc = "object"
      /\ prune' = [prune EXCEPT ![b].pc = "row"]
      /\ \/ bucket' = bucket \ {c} /\ UNCHANGED <<undeleted, faults>>
         \/ Fault /\ undeleted' = undeleted \union {c} /\ UNCHANGED bucket
      /\ UNCHANGED <<row, tmp, run, removing, excused, stale, deletes>>

\* repo.delete of a row that may be gone already, or that PostgreSQL keeps:
\* either way the listener goes on with the next one.
PruneRow(b) ==
  LET c == Newest(prune[b].todo)
  IN  /\ prune[b].pc = "row"
      /\ Listed(b, prune[b].todo \ {c})
      /\ \/ row' = [row EXCEPT ![c] = "gone"] /\ UNCHANGED faults
         \/ Fault /\ UNCHANGED row
      /\ UNCHANGED <<bucket, tmp, run, removing, excused, undeleted, stale, deletes>>

----------------------------------------------------------------------------
(* DeleteBackupHandler.                                                    *)

\* MUTANT of Delete: the dump of a completed backup is forgotten.
DeleteRowOnly(b) ==
  /\ row[b] \in {"PENDING", "COMPLETED", "FAILED"} /\ deletes < MaxDeletes
  /\ deletes' = deletes + 1
  /\ row' = [row EXCEPT ![b] = "gone"]
  /\ excused' = IF row[b] = "PENDING" THEN excused \union {b} ELSE excused
  /\ UNCHANGED <<bucket, tmp, run, prune, removing, undeleted, stale, faults>>

\* MUTANT of Delete: the row is only marked.
DeleteSoftly(b) ==
  /\ row[b] \in {"PENDING", "COMPLETED", "FAILED"} /\ deletes < MaxDeletes
  /\ deletes' = deletes + 1
  /\ row' = [row EXCEPT ![b] = "deleted"]
  /\ UNCHANGED <<bucket, tmp, run, prune, removing, excused, undeleted, stale, faults>>

\* runWrite commits, whatever the status.  Only a completed row has a key.
Delete(b) ==
  /\ row[b] \in {"PENDING", "COMPLETED", "FAILED"} /\ deletes < MaxDeletes
  /\ deletes' = deletes + 1
  /\ row' = [row EXCEPT ![b] = "gone"]
  /\ removing' = IF row[b] = "COMPLETED" THEN removing \union {b} ELSE removing
  /\ excused' = IF row[b] = "PENDING" THEN excused \union {b} ELSE excused
  /\ UNCHANGED <<bucket, tmp, run, prune, undeleted, stale, faults>>

\* storage.delete after the commit.
RemoveObject(b) ==
  /\ b \in removing
  /\ removing' = removing \ {b}
  /\ \/ bucket' = bucket \ {b} /\ UNCHANGED <<undeleted, faults>>
     \/ Fault /\ undeleted' = undeleted \union {b} /\ UNCHANGED bucket
  /\ UNCHANGED <<row, tmp, run, prune, excused, stale, deletes>>

----------------------------------------------------------------------------

Active(b) == run[b].pc \notin {"none", "done"}

\* The process exits; what it was doing is not taken up again.
Crash ==
  /\ Fault
  /\ excused' = excused \union {b \in Backups : Active(b)}
  /\ undeleted' = undeleted \union removing
  /\ run' = [b \in Backups |-> IF Active(b) THEN At("done") ELSE run[b]]
  /\ prune' = [b \in Backups |-> Quiet]
  /\ removing' = {}
  /\ tmp' = [b \in Backups |-> IF tmp[b] = "whole" THEN "left" ELSE tmp[b]]
  /\ UNCHANGED <<row, bucket, stale, deletes>>

\* What the event loop goes on with.
Step(b) ==
  \/ Dump(b) \/ DumpFails(b) \/ Upload(b) \/ UploadFails(b) \/ Complete(b)
  \/ Lost(b) \/ CompleteFails(b) \/ Announce(b) \/ Fail(b) \/ FailFails(b)
  \/ Finally(b)

Prune(b) == Find(b) \/ PruneObject(b) \/ PruneRow(b)

Next ==
  \/ \E b \in Backups : Trigger(b) \/ Step(b) \/ Prune(b) \/ Delete(b) \/ RemoveObject(b)
  \/ Crash

Fairness == \A b \in Backups : WF_vars(Step(b)) /\ WF_vars(Prune(b)) /\ WF_vars(RemoveObject(b))

Spec == Init /\ [][Next]_vars /\ Fairness

----------------------------------------------------------------------------
(* Properties.                                                             *)

\* Every variable keeps its type, and no counter passes its bound.
TypeOK ==
  /\ row \in [Backups -> Statuses]
  /\ {bucket, removing, excused, undeleted, stale} \subseteq SUBSET Backups
  /\ tmp \in [Backups -> {"none", "whole", "left"}]
  /\ run \in [Backups -> Runs]
  /\ prune \in [Backups -> Prunes]
  /\ deletes \in 0 .. MaxDeletes /\ faults \in 0 .. MaxFaults

\* A dump in R2 that no completed row points to belongs to a run or a deletion
\* under way, with two kinds of exceptions.  Its run failed or lost its row; or
\* its deletion failed: storage.delete swallows that, the row goes all the same,
\* and retention, which lists rows, never comes back for it.  (The comments of
\* BackupRetentionListener, "If R2 fails the DB row stays", and of
\* DeleteBackupHandler, "Orphaned blobs are cleaned up by the retention listener
\* on the next backup", say that such a dump cannot be or does not stay.)
OrphansAreExcused ==
  \A b \in bucket :
    \/ row[b] = "COMPLETED" \/ b \in removing \/ run[b].pc = "complete"
    \/ b \in excused
    \/ b \in undeleted

\* A download that finds no dump in R2 is of a backup that retention was
\* entitled to take: at some time there were Keep newer ones.
LostDumpsWereStale ==
  \A b \in Backups : Downloadable(b) /\ b \notin bucket => b \in stale

\* "rows transition PENDING -> terminal exactly once, then are immutable":
\* also the outer catch, which runs after a commit that succeeded, keeps to it.
TerminalIsFinal ==
  [][\A b \in Backups :
       row[b] \in {"COMPLETED", "FAILED"} => row'[b] \in {row[b], "gone"}]_vars

\* "Always remove the temp file - disk pressure is a real failure mode": a dump
\* that succeeded leaves the disk with its run, however the run ends, unless the
\* process dies.
TempFilesAreRemoved == \A b \in Backups : tmp[b] = "whole" => Active(b)

\* Runs end: again and again no row is PENDING but those whose run the process
\* did not survive, or whose flip to FAILED PostgreSQL refused as well.
RunsEnd == []<>(\A b \in Backups : row[b] = "PENDING" => b \in excused)

\* "the window is always enforced, including after a manual trigger": again and
\* again there are no backups beyond the newest Keep, unless a call or the
\* process has failed.
WindowIsEnforced == []<>(Beyond(row) = {} \/ faults > 0)

\* Every copy of a dump is accounted for, in R2 and on the disk: none is left
\* without a row or a run, and none is missed by a row.
DumpsAreAccountedFor ==
  TypeOK /\ OrphansAreExcused /\ LostDumpsWereStale /\ TempFilesAreRemoved

\* Runs end, and end once.
RunsEndOnce == RunsEnd /\ TerminalIsFinal

=============================================================================
