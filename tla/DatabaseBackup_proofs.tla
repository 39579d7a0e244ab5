------------------------ MODULE DatabaseBackup_proofs ------------------------
(***************************************************************************)
(* What DatabaseBackup guarantees, for every number of backups, deletions  *)
(* and faults and every retention window: no dump in R2 is without a row,  *)
(* a run or an excuse, no row misses a dump that retention was not         *)
(* entitled to, and every dump leaves the disk.                            *)
(***************************************************************************)
EXTENDS DatabaseBackup, TLAPS, FiniteSetTheorems, WellFoundedInduction

----------------------------------------------------------------------------
(* The inductive invariant.                                                *)

Past == {"announce", "fail", "finally", "done"}  \* where a run goes on from its flip

\* What the row of a backup says of its run.
RowsFollowRuns ==
  \A b \in Backups :
    /\ run[b].pc = "none" <=> row[b] = "none"
    /\ run[b].pc \in {"dump", "upload", "complete"}
       => row[b] = "PENDING" \/ (row[b] = "gone" /\ b \in excused)
    /\ row[b] \in {"COMPLETED", "FAILED"} => run[b].pc \in Past
    /\ run[b].pc = "complete" => b \in bucket \* nothing takes the dump of a run

\* What is deleted was completed, and is past its run.
RemovalsArePast == \A b \in removing : row[b] = "gone" /\ run[b].pc \in Past

\* What retention takes was completed, and has been beyond the newest Keep.
PrunesArePast ==
  \A b \in Backups :
    /\ \A c \in prune[b].todo : row[c] \in {"COMPLETED", "gone"} /\ run[c].pc \in Past /\ c \in stale
    /\ prune[b].pc = "row" => Newest(prune[b].todo) \notin bucket \/ Newest(prune[b].todo) \in undeleted

StaleIsNoted == Beyond(row) \subseteq stale

\* A file that is whole is of a run that will delete it.
FilesHaveRuns == \A b \in Backups : tmp[b] = "whole" => Active(b) /\ run[b].file

TypeInv ==
  /\ row \in [Backups -> Statuses]
  /\ bucket \subseteq Backups /\ removing \subseteq Backups /\ stale \subseteq Backups
  /\ excused \subseteq Backups /\ undeleted \subseteq Backups
  /\ tmp \in [Backups -> {"none", "whole", "left"}]
  /\ run \in [Backups -> Runs]
  /\ prune \in [Backups -> Prunes]
  /\ \A b \in Backups : prune[b].pc \in {"object", "row"} <=> prune[b].todo # {}
  /\ deletes \in 0 .. MaxDeletes /\ faults \in 0 .. MaxFaults

BackupInv ==
  /\ TypeInv /\ RowsFollowRuns /\ RemovalsArePast /\ PrunesArePast /\ StaleIsNoted /\ FilesHaveRuns
  /\ OrphansAreExcused /\ LostDumpsWereStale
----------------------------------------------------------------------------
(* Sets of backups.                                                        *)

LEMMA Constants == Keep \in Nat /\ MaxBackups \in Nat /\ MaxDeletes \in Nat /\ MaxFaults \in Nat
BY BackupAssumption

LEMMA BackupsFinite == IsFiniteSet(Backups) /\ Backups \subseteq Nat
BY Constants, FS_Interval DEF Backups

\* The listener takes a backup of its list.
LEMMA NewestIsOne ==
  ASSUME NEW S \in SUBSET Backups, S # {}
  PROVE  Newest(S) \in S
<1> DEFINE T == {MaxBackups - b : b \in S}
<1>1. T \subseteq Nat /\ T # {}
  BY Constants DEF Backups
<1>2. PICK m \in T : \A t \in T : ~(<<t, m>> \in OpToRel(<, Nat))
  BY <1>1, NatLessThanWellFounded, WFMin
<1>3. PICK b \in S : m = MaxBackups - b
  OBVIOUS
<1>4. ASSUME NEW c \in S
      PROVE  c <= b
  <2>1. MaxBackups - c \in Nat /\ m \in Nat /\ MaxBackups - c \in T
    BY <1>1
  <2>2. ~(MaxBackups - c < m)
    BY <1>2, <2>1 DEF OpToRel
  <2> QED
    BY <1>3, <2>1, <2>2, Constants DEF Backups
<1>5. \E x \in S : \A c \in S : c <= x
  BY <1>4
<1> QED
  BY <1>5 DEF Newest

\* A backup that is beyond the window of fewer completed ones was beyond it before.
LEMMA BeyondShrinks ==
  ASSUME NEW r, NEW s, Completed(s) \subseteq Completed(r)
  PROVE  Beyond(s) \subseteq Beyond(r)
<1> SUFFICES ASSUME NEW b \in Beyond(s)
             PROVE  b \in Beyond(r)
  OBVIOUS
<1> DEFINE A == {c \in Completed(s) : c > b}
           B == {c \in Completed(r) : c > b}
<1>1. B \subseteq Backups
  BY DEF Completed
<1>2. IsFiniteSet(B)
  BY <1>1, BackupsFinite, FS_Subset
<1>3. A \subseteq B
  OBVIOUS
<1>4. IsFiniteSet(A) /\ Cardinality(A) <= Cardinality(B)
  BY <1>2, <1>3, FS_Subset
<1>5. Cardinality(A) \in Nat /\ Cardinality(B) \in Nat
  BY <1>2, <1>4, FS_CardinalityType
<1>6. Cardinality(A) >= Keep
  BY DEF Beyond
<1> HIDE DEF A, B
<1>7. Cardinality(B) >= Keep
  BY <1>4, <1>5, <1>6, Constants
<1> USE DEF A, B
<1> QED
  BY <1>7 DEF Beyond

----------------------------------------------------------------------------
(* The types.                                                              *)

LEMMA TypeInit == Init => TypeInv
BY Constants DEF Init, TypeInv, Statuses, Runs, PCs, Prunes, At, Quiet

LEMMA TypeStep == TypeInv /\ [Next]_vars => TypeInv'
<1> SUFFICES ASSUME TypeInv, [Next]_vars
             PROVE  TypeInv'
  OBVIOUS
<1> USE Constants DEF TypeInv, Statuses, counters, Fault
<1>1. ASSUME NEW b \in Backups, NEW pc \in PCs, Goto(b, pc)
      PROVE  run' \in [Backups -> Runs]
  BY <1>1 DEF Goto, Runs
<1>2. ASSUME NEW b \in Backups, NEW S \in SUBSET Backups, Listed(b, S)
      PROVE  /\ prune' \in [Backups -> Prunes]
             /\ \A c \in Backups : prune'[c].pc \in {"object", "row"} <=> prune'[c].todo # {}
  BY <1>2 DEF Listed, Prunes, Quiet
<1>3. ASSUME NEW b \in Backups, Trigger(b)
      PROVE  TypeInv'
  BY <1>3 DEF Trigger, Runs, PCs, At
<1>4. ASSUME NEW b \in Backups, Dump(b) \/ Finally(b)
      PROVE  TypeInv'
  <2>1. [run[b] EXCEPT !.pc = "upload", !.file = TRUE] \in Runs /\ At("done") \in Runs
    BY DEF Runs, PCs, At
  <2>2. run' \in [Backups -> Runs]
    BY <1>4, <2>1 DEF Dump, Finally
  <2> QED
    BY <1>4, <2>2 DEF Dump, Finally
<1>5. ASSUME NEW b \in Backups, DumpFails(b) \/ Upload(b) \/ UploadFails(b) \/ Lost(b) \/ FailFails(b)
      PROVE  TypeInv'
  BY <1>1, <1>5 DEF DumpFails, Upload, UploadFails, Lost, FailFails, PCs
<1>6. ASSUME NEW b \in Backups, Complete(b) \/ CompleteFails(b) \/ Fail(b)
      PROVE  TypeInv'
  <2>1. row' \in [Backups -> Statuses] /\ Beyond(row') \subseteq Backups
    BY <1>6 DEF Complete, CompleteFails, Fail, Flip, Beyond, Completed
  <2> QED
    BY <1>1, <1>6, <2>1 DEF Complete, CompleteFails, Fail, PCs
<1>7. ASSUME NEW b \in Backups, Announce(b)
      PROVE  TypeInv'
  BY <1>1, <1>7 DEF Announce, PCs, Prunes
<1>8. ASSUME NEW b \in Backups, Find(b)
      PROVE  TypeInv'
  <2>1. Beyond(row) \subseteq Backups
    BY DEF Beyond, Completed
  <2> QED
    BY <1>2, <1>8, <2>1 DEF Find
<1>9. ASSUME NEW b \in Backups, PruneObject(b)
      PROVE  TypeInv'
  <2>1. /\ prune' \in [Backups -> Prunes]
        /\ \A c \in Backups : prune'[c].pc \in {"object", "row"} <=> prune'[c].todo # {}
    BY <1>9 DEF PruneObject, Prunes
  <2>2. Newest(prune[b].todo) \in Backups
    BY <1>9, NewestIsOne DEF PruneObject, Prunes
  <2> QED
    BY <1>9, <2>1, <2>2 DEF PruneObject
<1>10. ASSUME NEW b \in Backups, PruneRow(b)
       PROVE  TypeInv'
  <2>1. /\ prune' \in [Backups -> Prunes]
        /\ \A c \in Backups : prune'[c].pc \in {"object", "row"} <=> prune'[c].todo # {}
    BY <1>2, <1>10 DEF PruneRow, Prunes
  <2> QED
    BY <1>10, <2>1 DEF PruneRow
<1>11. ASSUME NEW b \in Backups, Delete(b) \/ RemoveObject(b)
       PROVE  TypeInv'
  BY <1>11 DEF Delete, RemoveObject
<1>12. CASE Crash
  BY <1>12 DEF Crash, Runs, PCs, At, Prunes, Quiet
<1>13. CASE UNCHANGED vars
  BY <1>13 DEF vars
<1> QED
  BY <1>3, <1>4, <1>5, <1>6, <1>7, <1>8, <1>9, <1>10, <1>11, <1>12, <1>13 DEF Next, Step, Prune

----------------------------------------------------------------------------
(* Every step keeps the invariant.                                         *)

LEMMA BackupInit == Init => BackupInv
<1> SUFFICES ASSUME Init
             PROVE  BackupInv
  OBVIOUS
<1>1. TypeInv
  BY TypeInit
<1>2. RowsFollowRuns /\ RemovalsArePast /\ PrunesArePast /\ FilesHaveRuns
  BY DEF Init, RowsFollowRuns, RemovalsArePast, PrunesArePast, FilesHaveRuns, At, Quiet
<1>3. StaleIsNoted
  BY DEF Init, StaleIsNoted, Beyond, Completed
<1> QED
  BY <1>1, <1>2, <1>3 DEF BackupInv, Init, OrphansAreExcused, LostDumpsWereStale, Downloadable

\* The run of b goes from pc to another step, with its file.
Going(b, pc) ==
  /\ run'[b].pc = pc /\ run'[b].file = run[b].file
  /\ \A c \in Backups \ {b} : run'[c] = run[c]

LEMMA GotoGoes ==
  ASSUME TypeInv, NEW b \in Backups, NEW pc, Goto(b, pc)
  PROVE  Going(b, pc)
BY DEF Goto, Going, TypeInv, Runs

\* What the row of c says of its run.
RowFollows(c) ==
  /\ run[c].pc = "none" <=> row[c] = "none"
  /\ run[c].pc \in {"dump", "upload", "complete"}
     => row[c] = "PENDING" \/ (row[c] = "gone" /\ c \in excused)
  /\ row[c] \in {"COMPLETED", "FAILED"} => run[c].pc \in Past
  /\ run[c].pc = "complete" => c \in bucket

\* What a step does to the runs, the rows and the dumps of the others.
LEMMA RunsGoOn ==
  ASSUME TypeInv, NEW b \in Backups, Step(b), NEW c \in Backups, run[c].pc \in Past
  PROVE  run'[c].pc \in Past
<1>1. \A pc : Goto(b, pc) => Going(b, pc)
  BY GotoGoes
<1>2. CASE Dump(b) \/ Finally(b)
  BY <1>2 DEF Dump, Finally, Past, At, TypeInv
<1>3. CASE ~(Dump(b) \/ Finally(b))
  BY <1>1, <1>3
     DEF Step, DumpFails, Upload, UploadFails, Complete, Lost, CompleteFails, Announce, Fail, FailFails,
         Past, Going
<1> QED
  BY <1>2, <1>3

LEMMA PastStays ==
  ASSUME BackupInv, Next, NEW c \in Backups, run[c].pc \in Past
  PROVE  run'[c].pc \in Past
<1> TypeInv /\ row[c] # "none"
  BY DEF BackupInv, RowsFollowRuns, Past
<1>1. ASSUME NEW b \in Backups, Trigger(b)
      PROVE  run'[c].pc \in Past
  BY <1>1 DEF Trigger, TypeInv
<1>2. ASSUME NEW b \in Backups, Step(b)
      PROVE  run'[c].pc \in Past
  BY <1>2, RunsGoOn
<1>3. ASSUME NEW b \in Backups, Prune(b) \/ Delete(b) \/ RemoveObject(b)
      PROVE  run'[c].pc \in Past
  BY <1>3 DEF Prune, Find, PruneObject, PruneRow, Delete, RemoveObject
<1>4. CASE Crash
  BY <1>4 DEF Crash, At, Past
<1> QED
  BY <1>1, <1>2, <1>3, <1>4 DEF Next

\* A row that was completed is completed or gone, and what is stale stays so.
LEMMA RowsOnly ==
  ASSUME TypeInv, Next, NEW c \in Backups
  PROVE  /\ row[c] \in {"COMPLETED", "gone"} => row'[c] \in {row[c], "gone"}
         /\ row[c] = "FAILED" => row'[c] \in {"FAILED", "gone"}
         /\ stale \subseteq stale' /\ (excused \subseteq excused') /\ (undeleted \subseteq undeleted')
<1>1. \A b \in Backups : \A s : Flip(b, s) => row[c] = "PENDING" \/ row'[c] = row[c]
  BY DEF Flip, TypeInv
<1>2. ASSUME NEW b \in Backups, Step(b)
      PROVE  /\ row[c] = "PENDING" \/ row'[c] = row[c]
             /\ stale \subseteq stale' /\ (excused \subseteq excused') /\ (undeleted \subseteq undeleted')
  BY <1>1, <1>2
     DEF Step, Dump, DumpFails, Upload, UploadFails, Complete, Lost, CompleteFails, Announce, Fail,
         FailFails, Finally
<1>3. ASSUME NEW b \in Backups, Trigger(b) \/ Delete(b) \/ RemoveObject(b)
      PROVE  /\ row[c] \in {"COMPLETED", "gone"} => row'[c] \in {row[c], "gone"}
             /\ row[c] = "FAILED" => row'[c] \in {"FAILED", "gone"}
             /\ stale \subseteq stale' /\ (excused \subseteq excused') /\ (undeleted \subseteq undeleted')
  BY <1>3 DEF Trigger, Delete, RemoveObject, TypeInv
<1>4. ASSUME NEW b \in Backups, Prune(b)
      PROVE  /\ row'[c] \in {row[c], "gone"}
             /\ stale \subseteq stale' /\ (excused \subseteq excused') /\ (undeleted \subseteq undeleted')
  BY <1>4 DEF Prune, Find, PruneObject, PruneRow, TypeInv
<1>5. CASE Crash
  BY <1>5 DEF Crash
<1> QED
  BY <1>2, <1>3, <1>4, <1>5 DEF Next

\* A dump appears only while its run uploads it.
LEMMA BucketOnly ==
  ASSUME TypeInv, Next, NEW c \in Backups, c \in bucket', c \notin bucket
  PROVE  run[c].pc = "upload"
BY DEF Next, Trigger, Step, Dump, DumpFails, Upload, UploadFails, Complete, Lost, CompleteFails, Announce,
       Fail, FailFails, Finally, Prune, Find, PruneObject, PruneRow, Delete, RemoveObject, Crash

LEMMA RowsStep == BackupInv /\ TypeInv' /\ Next => RowsFollowRuns'
<1> SUFFICES ASSUME BackupInv, TypeInv', Next, NEW c \in Backups
             PROVE  RowFollows(c)'
  BY DEF RowsFollowRuns, RowFollows
<1> TypeInv /\ RowFollows(c)
  BY DEF BackupInv, RowsFollowRuns, RowFollows
<1>1. ASSUME NEW b \in Backups, Trigger(b)
      PROVE  RowFollows(c)'
  BY <1>1 DEF Trigger, RowFollows, At, Past, TypeInv
<1>2. ASSUME NEW b \in Backups, Dump(b)
      PROVE  RowFollows(c)'
  <2>1. run'[b].pc = "upload" /\ (c # b => run'[c] = run[c])
    BY <1>2 DEF Dump, TypeInv, Runs
  <2> QED
    BY <1>2, <2>1 DEF Dump, RowFollows, Past, counters
<1>3. ASSUME NEW b \in Backups,
             DumpFails(b) \/ Upload(b) \/ UploadFails(b) \/ Lost(b) \/ Announce(b) \/ FailFails(b)
      PROVE  RowFollows(c)'
  <2>1. \A pc : Goto(b, pc) => Going(b, pc)
    BY GotoGoes
  <2> QED
    BY <1>3, <2>1 DEF Going, DumpFails, Upload, UploadFails, Lost, Announce, FailFails, RowFollows, Past
<1>4. ASSUME NEW b \in Backups, Complete(b) \/ CompleteFails(b) \/ Fail(b)
      PROVE  RowFollows(c)'
  <2>1. \A pc : Goto(b, pc) => Going(b, pc)
    BY GotoGoes
  <2>2. \A s : Flip(b, s) => row[b] = "PENDING" /\ row'[b] = s /\ (c # b => row'[c] = row[c])
    BY DEF Flip, TypeInv
  <2> QED
    BY <1>4, <2>1, <2>2 DEF Going, Complete, CompleteFails, Fail, RowFollows, Past
<1>5. ASSUME NEW b \in Backups, Finally(b)
      PROVE  RowFollows(c)'
  BY <1>5 DEF Finally, RowFollows, At, Past, TypeInv
<1>6. ASSUME NEW b \in Backups, Find(b)
      PROVE  RowFollows(c)'
  BY <1>6 DEF Find, RowFollows
<1>7. ASSUME NEW b \in Backups, PruneObject(b) \/ PruneRow(b)
      PROVE  RowFollows(c)'
  <2>1. PICK n \in Backups : n = Newest(prune[b].todo) /\ run[n].pc \in Past /\ row[n] \in {"COMPLETED", "gone"}
    BY <1>7, NewestIsOne DEF PruneObject, PruneRow, BackupInv, PrunesArePast, TypeInv, Prunes
  <2> QED
    BY <1>7, <2>1 DEF PruneObject, PruneRow, RowFollows, Past, TypeInv
<1>8. ASSUME NEW b \in Backups, Delete(b)
      PROVE  RowFollows(c)'
  BY <1>8 DEF Delete, RowFollows, Past, TypeInv
<1>9. ASSUME NEW b \in Backups, RemoveObject(b)
      PROVE  RowFollows(c)'
  BY <1>9 DEF RemoveObject, RowFollows, Past, BackupInv, RemovalsArePast
<1>10. CASE Crash
  BY <1>10 DEF Crash, RowFollows, Active, At, Past, TypeInv
<1> QED
  BY <1>1, <1>2, <1>3, <1>4, <1>5, <1>6, <1>7, <1>8, <1>9, <1>10 DEF Next, Step, Prune

LEMMA RemovalsStep == BackupInv /\ TypeInv' /\ Next => RemovalsArePast'
<1> SUFFICES ASSUME BackupInv, TypeInv', Next, NEW c \in removing'
             PROVE  row'[c] = "gone" /\ run'[c].pc \in Past
  BY DEF RemovalsArePast
<1>1. /\ TypeInv /\ c \in Backups
      /\ c \in removing => row[c] = "gone" /\ run[c].pc \in Past
      /\ row[c] = "COMPLETED" => run[c].pc \in Past
      /\ run[c].pc = "none" => row[c] = "none"
  BY DEF BackupInv, RemovalsArePast, RowsFollowRuns, TypeInv
<1>2. ASSUME NEW b \in Backups, Trigger(b)
      PROVE  row'[c] = "gone" /\ run'[c].pc \in Past
  BY <1>1, <1>2 DEF Trigger, TypeInv
<1>3. ASSUME NEW b \in Backups, Step(b)
      PROVE  row'[c] = "gone" /\ run'[c].pc \in Past
  <2>1. c \in removing
    BY <1>3 DEF Step, Dump, DumpFails, Upload, UploadFails, Complete, Lost, CompleteFails, Announce, Fail,
                FailFails, Finally
  <2>2. row'[c] = "gone"
    <3>1. \A s : Flip(b, s) => row'[c] = row[c]
      BY <1>1, <2>1 DEF Flip, TypeInv
    <3> QED
      BY <1>1, <1>3, <2>1, <3>1
         DEF Step, Dump, DumpFails, Upload, UploadFails, Complete, Lost, CompleteFails, Announce, Fail,
             FailFails, Finally
  <2>3. run'[c].pc \in Past
    BY <1>1, <1>3, <2>1, RunsGoOn
  <2> QED
    BY <2>2, <2>3
<1>4. ASSUME NEW b \in Backups, Prune(b)
      PROVE  row'[c] = "gone" /\ run'[c].pc \in Past
  BY <1>1, <1>4 DEF Prune, Find, PruneObject, PruneRow, TypeInv
<1>5. ASSUME NEW b \in Backups, Delete(b) \/ RemoveObject(b)
      PROVE  row'[c] = "gone" /\ run'[c].pc \in Past
  BY <1>1, <1>5 DEF Delete, RemoveObject, TypeInv
<1>6. CASE Crash
  BY <1>6 DEF Crash
<1> QED
  BY <1>2, <1>3, <1>4, <1>5, <1>6 DEF Next

\* A backup that retention may take stays so.
Taken(c) == row[c] \in {"COMPLETED", "gone"} /\ run[c].pc \in Past /\ c \in stale
NotMissed(c) == c \notin bucket \/ c \in undeleted
Kept(b) ==
  /\ \A c \in prune[b].todo : Taken(c)
  /\ prune[b].pc = "row" => NotMissed(Newest(prune[b].todo))

\* What a step does to the retention run of b.
LEMMA PruneMoves ==
  ASSUME TypeInv, Next, NEW b \in Backups
  PROVE  \/ prune'[b] = prune[b] \/ prune'[b].todo = {}
         \/ Find(b) \/ PruneObject(b) \/ PruneRow(b)
<1>1. ASSUME NEW a \in Backups, Trigger(a) \/ Delete(a) \/ RemoveObject(a)
      PROVE  prune'[b] = prune[b]
  BY <1>1 DEF Trigger, Delete, RemoveObject
<1>2. ASSUME NEW a \in Backups, Step(a)
      PROVE  prune'[b] = prune[b] \/ prune'[b].todo = {}
  BY <1>2 DEF TypeInv, Step, Dump, DumpFails, Upload, UploadFails, Complete, Lost, CompleteFails, Announce,
              Fail, FailFails, Finally
<1>3. ASSUME NEW a \in Backups, Prune(a), a # b
      PROVE  prune'[b] = prune[b]
  <2>1. \A S : Listed(a, S) => prune'[b] = prune[b]
    BY <1>3 DEF Listed, TypeInv
  <2> QED
    BY <1>3, <2>1 DEF Prune, Find, PruneObject, PruneRow, TypeInv
<1>4. CASE Crash
  BY <1>4 DEF Crash, Quiet
<1> QED
  BY <1>1, <1>2, <1>3, <1>4 DEF Next, Prune

LEMMA TakenStays ==
  ASSUME BackupInv, Next, NEW c \in Backups, Taken(c)
  PROVE  Taken(c)' /\ (NotMissed(c) => NotMissed(c)')
<1> TypeInv
  BY DEF BackupInv
<1>1. run'[c].pc \in Past
  BY PastStays DEF Taken
<1>2. /\ row[c] \in {"COMPLETED", "gone"} => row'[c] \in {row[c], "gone"}
      /\ stale \subseteq stale' /\ (excused \subseteq excused') /\ (undeleted \subseteq undeleted')
  BY RowsOnly
<1>3. c \in bucket' => c \in bucket
  BY BucketOnly DEF Taken, Past
<1> QED
  BY <1>1, <1>2, <1>3 DEF Taken, NotMissed

LEMMA PrunesStep == BackupInv /\ TypeInv' /\ Next => PrunesArePast'
<1> SUFFICES ASSUME BackupInv, TypeInv', Next, NEW b \in Backups
             PROVE  Kept(b)'
  BY DEF PrunesArePast, Kept, Taken, NotMissed
<1>1. /\ TypeInv
      /\ Kept(b) /\ prune[b].todo \subseteq Backups
      /\ prune[b].pc \in {"object", "row"} <=> prune[b].todo # {}
      /\ prune'[b].pc \in {"object", "row"} <=> prune'[b].todo # {}
  BY DEF BackupInv, PrunesArePast, Kept, Taken, NotMissed, TypeInv, Prunes
<1>2. \A c \in prune[b].todo : Taken(c)' /\ (NotMissed(c) => NotMissed(c)')
  BY <1>1, TakenStays DEF Kept
<1>3. CASE prune'[b] = prune[b]
  <2>1. \A c \in prune'[b].todo : Taken(c)'
    BY <1>2, <1>3
  <2>2. ASSUME prune'[b].pc = "row"
        PROVE  NotMissed(Newest(prune[b].todo))'
    <3>1. PICK n \in prune[b].todo : n = Newest(prune[b].todo)
      BY <1>1, <1>3, <2>2, NewestIsOne
    <3>2. NotMissed(n)'
      BY <1>1, <1>2, <1>3, <2>2, <3>1 DEF Kept
    <3> QED
      BY <1>3, <3>1, <3>2 DEF NotMissed
  <2> QED
    BY <1>3, <2>1, <2>2 DEF Kept, NotMissed
<1>4. CASE prune'[b].todo = {}
  BY <1>1, <1>4 DEF Kept
<1>5. CASE Find(b)
  <2>1. prune'[b].pc # "row" /\ prune'[b].todo \subseteq Beyond(row)
    BY <1>1, <1>5 DEF Find, Listed, Quiet, TypeInv
  <2>2. \A c \in Beyond(row) : c \in Backups /\ Taken(c)
    BY DEF BackupInv, StaleIsNoted, RowsFollowRuns, Beyond, Completed, Taken
  <2>3. \A c \in Beyond(row) : Taken(c)'
    BY <2>2, TakenStays
  <2> QED
    BY <2>1, <2>3 DEF Kept
<1>6. CASE PruneObject(b)
  <2>1. PICK n \in prune[b].todo : n = Newest(prune[b].todo)
    BY <1>1, <1>6, NewestIsOne DEF PruneObject
  <2>2. prune'[b].todo = prune[b].todo
    BY <1>1, <1>6 DEF PruneObject, TypeInv, Prunes
  <2>3. NotMissed(n)'
    BY <1>6, <2>1 DEF PruneObject, NotMissed
  <2>4. NotMissed(Newest(prune[b].todo))'
    BY <2>1, <2>2, <2>3 DEF NotMissed
  <2> QED
    BY <1>2, <2>2, <2>4 DEF Kept, NotMissed
<1>7. CASE PruneRow(b)
  <2>1. prune'[b].pc # "row" /\ prune'[b].todo \subseteq prune[b].todo
    BY <1>1, <1>7 DEF PruneRow, Listed, Quiet, TypeInv
  <2> QED
    BY <1>2, <2>1 DEF Kept
<1> QED
  BY <1>1, <1>3, <1>4, <1>5, <1>6, <1>7, PruneMoves

LEMMA StaleStep == BackupInv /\ TypeInv' /\ Next => StaleIsNoted'
<1> SUFFICES ASSUME BackupInv, TypeInv', Next
             PROVE  Beyond(row') \subseteq stale'
  BY DEF StaleIsNoted
<1>1. TypeInv /\ Beyond(row) \subseteq stale
  BY DEF BackupInv, StaleIsNoted
<1>2. CASE \E b \in Backups : Complete(b) \/ CompleteFails(b)
  BY <1>2 DEF Complete, CompleteFails
<1>3. ASSUME \A b \in Backups : ~(Complete(b) \/ CompleteFails(b))
      PROVE  Beyond(row') \subseteq stale'
  <2>1. Completed(row') \subseteq Completed(row)
    BY <1>1, <1>3
       DEF Completed, TypeInv, Next, Trigger, Step, Dump, DumpFails, Upload, UploadFails, Lost, Announce, Fail,
           Flip, FailFails, Finally, Prune, Find, PruneObject, PruneRow, Delete, RemoveObject, Crash
  <2>2. Beyond(row') \subseteq Beyond(row)
    BY <2>1, BeyondShrinks
  <2>3. \A c \in Backups : stale \subseteq stale'
    BY <1>1, RowsOnly
  <2>4. Beyond(row') \subseteq Backups
    BY DEF Beyond, Completed
  <2> QED
    BY <1>1, <2>2, <2>3, <2>4
<1> QED
  BY <1>2, <1>3

LEMMA FilesStep == BackupInv /\ TypeInv' /\ Next => FilesHaveRuns'
<1> SUFFICES ASSUME BackupInv, TypeInv', Next, NEW c \in Backups, tmp'[c] = "whole"
             PROVE  Active(c)' /\ run'[c].file
  BY DEF FilesHaveRuns
<1>1. /\ TypeInv
      /\ tmp[c] = "whole" => Active(c) /\ run[c].file
      /\ run[c].pc = "none" <=> row[c] = "none"
  BY DEF BackupInv, FilesHaveRuns, RowsFollowRuns
<1>2. ASSUME NEW b \in Backups, Trigger(b)
      PROVE  Active(c)' /\ run'[c].file
  BY <1>1, <1>2 DEF Trigger, Active, TypeInv
<1>3. ASSUME NEW b \in Backups, Dump(b)
      PROVE  Active(c)' /\ run'[c].file
  <2>1. run'[b].pc = "upload"
    BY <1>1, <1>3 DEF Dump, TypeInv, Runs
  <2>2. run'[b].file
    <3>1. PICK r : r = run[b]
      OBVIOUS
    <3>2. r \in Runs /\ run' = [run EXCEPT ![b] = [r EXCEPT !.pc = "upload", !.file = TRUE]]
      BY <1>1, <1>3, <3>1 DEF Dump, TypeInv
    <3>3. [r EXCEPT !.pc = "upload", !.file = TRUE].file
      BY <3>2, Zenon DEF Runs
    <3>4. run'[b] = [r EXCEPT !.pc = "upload", !.file = TRUE]
      BY <1>1, <3>2 DEF TypeInv
    <3> QED
      BY <3>3, <3>4, Zenon
  <2>3. b # c => run'[c] = run[c] /\ tmp'[c] = tmp[c]
    BY <1>1, <1>3 DEF Dump, TypeInv
  <2> QED
    BY <1>1, <2>1, <2>2, <2>3 DEF Active
<1>4. ASSUME NEW b \in Backups, Finally(b)
      PROVE  Active(c)' /\ run'[c].file
  <2>1. b # c => run'[c] = run[c] /\ tmp'[c] = tmp[c]
    BY <1>1, <1>4 DEF Finally, TypeInv
  <2>2. b # c
    BY <1>1, <1>4 DEF Finally, TypeInv
  <2> QED
    BY <1>1, <2>1, <2>2 DEF Active
<1>5. ASSUME NEW b \in Backups, Step(b), ~Dump(b), ~Finally(b)
      PROVE  Active(c)' /\ run'[c].file
  <2>1. tmp[c] = "whole"
    BY <1>1, <1>5
       DEF TypeInv, Step, DumpFails, Upload, UploadFails, Complete, Lost, CompleteFails, Announce, Fail, FailFails
  <2>2. PICK pc \in PCs \ {"none", "done"} : Goto(b, pc)
    BY <1>5
       DEF Step, DumpFails, Upload, UploadFails, Complete, Lost, CompleteFails, Announce, Fail, FailFails, PCs
  <2>3. Going(b, pc)
    BY <1>1, <2>2, GotoGoes
  <2> QED
    BY <1>1, <2>1, <2>2, <2>3 DEF Going, Active
<1>6. ASSUME NEW b \in Backups, Prune(b) \/ Delete(b) \/ RemoveObject(b)
      PROVE  Active(c)' /\ run'[c].file
  BY <1>1, <1>6 DEF Prune, Find, PruneObject, PruneRow, Delete, RemoveObject, Active
<1>7. CASE Crash
  BY <1>7 DEF Crash
<1> QED
  BY <1>2, <1>3, <1>4, <1>5, <1>6, <1>7 DEF Next

\* The dump of c is pointed to, being removed, excused or being registered.
Accounted(c) == row[c] = "COMPLETED" \/ c \in removing \/ c \in excused \union undeleted \/ run[c].pc = "complete"

LEMMA OrphansStep == BackupInv /\ TypeInv' /\ Next => OrphansAreExcused'
<1> SUFFICES ASSUME BackupInv, TypeInv', Next, NEW c \in bucket'
             PROVE  Accounted(c)'
  BY DEF OrphansAreExcused, Accounted
<1>1. /\ TypeInv /\ c \in Backups
      /\ c \in bucket => Accounted(c)
      /\ run[c].pc = "none" => row[c] = "none"
      /\ run[c].pc = "complete" => row[c] = "PENDING" \/ (row[c] = "gone" /\ c \in excused)
      /\ row[c] = "COMPLETED" => run[c].pc \in Past
  BY DEF BackupInv, OrphansAreExcused, Accounted, RowsFollowRuns, TypeInv
<1>2. \A b \in Backups : \A pc : Goto(b, pc) => Going(b, pc)
  BY <1>1, GotoGoes
<1>3. ASSUME NEW b \in Backups, Trigger(b)
      PROVE  Accounted(c)'
  BY <1>1, <1>3 DEF Trigger, Accounted, TypeInv
<1>4. ASSUME NEW b \in Backups, Dump(b) \/ Finally(b)
      PROVE  Accounted(c)'
  BY <1>1, <1>4 DEF Dump, Finally, Accounted, TypeInv
<1>5. ASSUME NEW b \in Backups, DumpFails(b) \/ Upload(b) \/ UploadFails(b) \/ Announce(b) \/ FailFails(b)
      PROVE  Accounted(c)'
  BY <1>1, <1>2, <1>5 DEF DumpFails, Upload, UploadFails, Announce, FailFails, Going, Accounted
<1>6. ASSUME NEW b \in Backups, Lost(b)
      PROVE  Accounted(c)'
  BY <1>1, <1>2, <1>6 DEF Lost, Going, Accounted
<1>7. ASSUME NEW b \in Backups, Complete(b) \/ CompleteFails(b) \/ Fail(b)
      PROVE  Accounted(c)'
  <2>1. \A s : Flip(b, s) => row[b] = "PENDING" /\ row'[b] = s /\ (c # b => row'[c] = row[c])
    BY <1>1 DEF Flip, TypeInv
  <2> QED
    BY <1>1, <1>2, <1>7, <2>1 DEF Complete, CompleteFails, Fail, Going, Accounted
<1>8. ASSUME NEW b \in Backups, Prune(b)
      PROVE  Accounted(c)'
  <2>1. CASE Find(b)
    BY <1>1, <2>1 DEF Find, Accounted
  <2>2. CASE PruneObject(b)
    BY <1>1, <2>2 DEF PruneObject, Accounted
  <2>3. CASE PruneRow(b)
    <3>1. Newest(prune[b].todo) \notin bucket \/ Newest(prune[b].todo) \in undeleted
      BY <2>3 DEF PruneRow, BackupInv, PrunesArePast
    <3>2. PICK n : n = Newest(prune[b].todo)
      OBVIOUS
    <3> QED
      BY <1>1, <2>3, <3>1, <3>2 DEF PruneRow, Accounted, TypeInv
  <2> QED
    BY <1>8, <2>1, <2>2, <2>3 DEF Prune
<1>9. ASSUME NEW b \in Backups, Delete(b) \/ RemoveObject(b)
      PROVE  Accounted(c)'
  BY <1>1, <1>9 DEF Delete, RemoveObject, Accounted, TypeInv
<1>10. CASE Crash
  BY <1>1, <1>10 DEF Crash, Accounted, Active
<1> QED
  BY <1>3, <1>4, <1>5, <1>6, <1>7, <1>8, <1>9, <1>10 DEF Next, Step

LEMMA LostStep == BackupInv /\ TypeInv' /\ Next => LostDumpsWereStale'
<1> SUFFICES ASSUME BackupInv, TypeInv', Next, NEW c \in Backups, row'[c] = "COMPLETED", c \notin bucket'
             PROVE  c \in stale'
  BY DEF LostDumpsWereStale, Downloadable
<1>1. /\ TypeInv /\ stale \subseteq stale'
      /\ row[c] = "COMPLETED" /\ c \notin bucket => c \in stale
      /\ run[c].pc = "complete" => c \in bucket
      /\ c \in removing => row[c] = "gone"
  <2>1. TypeInv
    BY DEF BackupInv
  <2>2. stale \subseteq stale'
    BY <2>1, RowsOnly
  <2> QED
    BY <2>1, <2>2 DEF BackupInv, LostDumpsWereStale, Downloadable, RowsFollowRuns, RemovalsArePast
<1>2. ASSUME NEW b \in Backups, Complete(b) \/ CompleteFails(b) \/ Fail(b)
      PROVE  c \in stale'
  <2>1. \A s : Flip(b, s) => row'[b] = s /\ (c # b => row'[c] = row[c])
    BY <1>1 DEF Flip, TypeInv
  <2> QED
    BY <1>1, <1>2, <2>1 DEF Complete, CompleteFails, Fail
<1>3. ASSUME NEW b \in Backups, Step(b), ~(Complete(b) \/ CompleteFails(b) \/ Fail(b))
      PROVE  c \in stale'
  BY <1>1, <1>3 DEF Step, Dump, DumpFails, Upload, UploadFails, Lost, Announce, FailFails, Finally
<1>4. ASSUME NEW b \in Backups, Trigger(b) \/ Delete(b) \/ RemoveObject(b)
      PROVE  c \in stale'
  BY <1>1, <1>4 DEF Trigger, Delete, RemoveObject, TypeInv
<1>5. ASSUME NEW b \in Backups, Prune(b)
      PROVE  c \in stale'
  <2>1. CASE Find(b)
    BY <1>1, <2>1 DEF Find
  <2>2. CASE PruneObject(b)
    <3>1. prune[b].todo \subseteq stale /\ prune[b].todo \subseteq Backups /\ prune[b].todo # {}
      BY <1>1, <2>2 DEF PruneObject, BackupInv, PrunesArePast, TypeInv, Prunes
    <3>2. PICK n \in stale : n = Newest(prune[b].todo)
      BY <3>1, NewestIsOne
    <3> QED
      BY <1>1, <2>2, <3>2 DEF PruneObject
  <2>3. CASE PruneRow(b)
    BY <1>1, <2>3 DEF PruneRow, TypeInv
  <2> QED
    BY <1>5, <2>1, <2>2, <2>3 DEF Prune
<1>6. CASE Crash
  BY <1>1, <1>6 DEF Crash
<1> QED
  BY <1>2, <1>3, <1>4, <1>5, <1>6 DEF Next

----------------------------------------------------------------------------
(* The theorems.                                                           *)

LEMMA BackupStep == BackupInv /\ [Next]_vars => BackupInv'
<1> SUFFICES ASSUME BackupInv, [Next]_vars
             PROVE  BackupInv'
  OBVIOUS
<1>1. TypeInv'
  BY TypeStep DEF BackupInv
<1>2. CASE Next
  BY <1>1, <1>2, RowsStep, RemovalsStep, PrunesStep, StaleStep, FilesStep, OrphansStep, LostStep DEF BackupInv
<1>3. CASE UNCHANGED vars
  BY <1>1, <1>3
     DEF vars, BackupInv, RowsFollowRuns, RemovalsArePast, PrunesArePast, StaleIsNoted, FilesHaveRuns, Active,
         OrphansAreExcused, LostDumpsWereStale, Downloadable
<1> QED
  BY <1>2, <1>3

LEMMA BackupInvariant == Spec => []BackupInv
<1> QED
  BY BackupInit, BackupStep, PTL DEF Spec

\* Every variable keeps its type: a listener that is about to take a dump or a
\* row has one to take, and no counter passes its bound.
THEOREM TypeCorrect == Spec => []TypeOK
<1>1. BackupInv => TypeOK
  BY DEF BackupInv, TypeInv, TypeOK
<1> QED
  BY <1>1, BackupInvariant, PTL

\* Every copy of a dump is accounted for, in R2 and on the disk, however runs,
\* retention and deletions interleave and whatever fails in between.
THEOREM DumpsCorrect == Spec => []DumpsAreAccountedFor
<1>1. BackupInv => DumpsAreAccountedFor
  BY DEF BackupInv, TypeInv, TypeOK, DumpsAreAccountedFor, FilesHaveRuns, TempFilesAreRemoved
<1> QED
  BY <1>1, BackupInvariant, PTL

\* A row that is COMPLETED or FAILED keeps its status until it is deleted, also
\* when the outer catch of its run follows a commit whose answer was lost.
THEOREM TerminalStays == Spec => TerminalIsFinal
<1>1. ASSUME BackupInv, [Next]_vars
      PROVE  [\A b \in Backups : row[b] \in {"COMPLETED", "FAILED"} => row'[b] \in {row[b], "gone"}]_vars
  <2>1. CASE Next
    <3>1. ASSUME NEW b \in Backups, row[b] \in {"COMPLETED", "FAILED"}
          PROVE  row'[b] \in {row[b], "gone"}
      <4>1. TypeInv
        BY <1>1 DEF BackupInv
      <4> QED
        BY <2>1, <3>1, <4>1, RowsOnly
    <3> QED
      BY <3>1
  <2>2. CASE UNCHANGED vars
    BY <2>2
  <2> QED
    BY <1>1, <2>1, <2>2
<1> QED
  BY <1>1, BackupInvariant, PTL DEF Spec, TerminalIsFinal

=============================================================================
