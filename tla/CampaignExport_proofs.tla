----------------------- MODULE CampaignExport_proofs -----------------------
(***************************************************************************)
(* Theorems about the export pipeline, for any set of campaigns, any number *)
(* of worker slots and stages, and any number of faults and crashes.  The  *)
(* first part holds even when locks expire.  The second part is about      *)
(* Spec: the pipeline implements CampaignLifecycle, and announces what it  *)
(* has stored.  It rests on one invariant: a slot that runs a campaign is  *)
(* alone with it, and what it holds in memory agrees with what its saves   *)
(* have put into the database so far.                                      *)
(***************************************************************************)
EXTENDS CampaignOverlap, TLAPS

----------------------------------------------------------------------------
(* The operators that compute a worker's next record.                      *)

LEMMA SaveType ==
  ASSUME NEW r \in Runs, NEW point \in Points
  PROVE  /\ Save(r, point) \in Runs
         /\ Save(r, point).pc = "update"
         /\ Save(r, point).point = point
         /\ Save(r, point).c = r.c
         /\ Save(r, point).status = r.status
         /\ Save(r, point).results = r.results
         /\ Save(r, point).report = r.report
<1>1. "update" \in PCs
  BY DEF PCs
<1>2. 1 \in Stages
  BY NStagesAssumption DEF Stages
<1>3. QED
  BY <1>1, <1>2 DEF Save, Runs

LEMMA FailRunType ==
  ASSUME NEW r \in Runs
  PROVE  /\ FailRun(r) \in Runs
         /\ FailRun(r).pc = "update"
         /\ FailRun(r).point = "failed"
         /\ FailRun(r).c = r.c
         /\ FailRun(r).status = "failed"
         /\ FailRun(r).results = r.results
         /\ FailRun(r).report = r.report
<1> DEFINE q == [r EXCEPT !.status = "failed"]
<1>1. "failed" \in Statuses /\ "failed" \in Points
  BY DEF Statuses, Terminal, Points
<1>2. /\ q \in Runs
      /\ q.c = r.c
      /\ q.status = "failed"
      /\ q.results = r.results
      /\ q.report = r.report
  BY <1>1 DEF Runs
<1>3. FailRun(r) = Save(q, "failed")
  BY DEF FailRun
<1> HIDE DEF q
<1>4. QED
  BY <1>1, <1>2, <1>3, SaveType

LEMMA OutcomeType ==
  ASSUME NEW results
  PROVE  Outcome(results) \in Terminal
BY DEF Outcome, Terminal

LEMMA FinishRunType ==
  ASSUME NEW r \in Runs
  PROVE  /\ FinishRun(r) \in Runs
         /\ FinishRun(r).pc = "update"
         /\ FinishRun(r).point = "finished"
         /\ FinishRun(r).c = r.c
         /\ FinishRun(r).status = Outcome(r.results)
         /\ FinishRun(r).status \in Terminal
         /\ FinishRun(r).results = r.results
         /\ FinishRun(r).report = r.report
<1> DEFINE q == [r EXCEPT !.status = Outcome(r.results)]
<1>1. Outcome(r.results) \in Terminal
  BY OutcomeType
<1>2. /\ q \in Runs
      /\ q.c = r.c
      /\ q.status = Outcome(r.results)
      /\ q.results = r.results
      /\ q.report = r.report
  BY <1>1 DEF Runs, Statuses
<1>3. FinishRun(r) = Save(q, "finished")
  BY DEF FinishRun
<1>4. "finished" \in Points
  BY DEF Points
<1> HIDE DEF q
<1>5. QED
  BY <1>1, <1>2, <1>3, <1>4, SaveType

LEMMA AttachType ==
  ASSUME NEW r \in Runs, NEW result \in Results
  PROVE  /\ Attach(r, result) \in Runs
         /\ Attach(r, result).pc \in {"generate", "report"}
         /\ Attach(r, result).c = r.c
         /\ Attach(r, result).status = r.status
         /\ Attach(r, result).results = [r.results EXCEPT ![r.at] = result]
         /\ Attach(r, result).report = r.report
<1>1. "generate" \in PCs /\ "report" \in PCs
  BY DEF PCs
<1>2. r.at \in Stages /\ (r.at < NStages => r.at + 1 \in Stages)
  BY NStagesAssumption DEF Stages, Runs
<1>3. [r.results EXCEPT ![r.at] = result] \in [Stages -> Results]
  BY DEF Runs
<1>4. CASE r.at < NStages
  BY <1>1, <1>2, <1>3, <1>4 DEF Attach, Runs
<1>5. CASE ~(r.at < NStages)
  BY <1>1, <1>2, <1>3, <1>5 DEF Attach, Runs
<1>6. QED
  BY <1>4, <1>5

\* What the shape of a run says beyond its type: a slot that is not idle has
\* a campaign, and a final save carries a final status.
WellFormed(r) ==
  /\ r.pc # "idle" => r.c \in Campaigns
  /\ r.pc = "announce" => r.status \in Terminal
  /\ r.pc \in {"update", "upsert"} /\ r.point \in {"finished", "failed"} =>
       r.status \in Terminal

\* q continues the run r: same campaign, no success that r did not have.
Continues(r, q) ==
  /\ q \in Runs
  /\ WellFormed(q)
  /\ q.c = r.c
  /\ \A s \in Stages : q.results[s] = "ok" => r.results[s] = "ok"
  /\ q.report = r.report
  /\ q.pc # "attach"

LEMMA GoesTo ==
  ASSUME NEW r \in Runs, WellFormed(r), r.pc # "idle",
         NEW pc \in PCs \ {"announce", "update", "upsert", "attach"}
  PROVE  Continues(r, [r EXCEPT !.pc = pc])
BY DEF Continues, WellFormed, Runs

LEMMA SaveContinues ==
  ASSUME NEW r \in Runs, WellFormed(r), r.pc # "idle",
         NEW point \in Points \ {"finished", "failed"}
  PROVE  Continues(r, Save(r, point))
BY SaveType DEF Continues, WellFormed

LEMMA FailRunContinues ==
  ASSUME NEW r \in Runs, WellFormed(r), r.pc # "idle"
  PROVE  Continues(r, FailRun(r))
<1>1. "failed" \in Terminal
  BY DEF Terminal
<1>2. QED
  BY <1>1, FailRunType DEF Continues, WellFormed

LEMMA FinishRunContinues ==
  ASSUME NEW r \in Runs, WellFormed(r), r.pc # "idle"
  PROVE  Continues(r, FinishRun(r))
BY FinishRunType DEF Continues, WellFormed

LEMMA FailedStageContinues ==
  ASSUME NEW r \in Runs, WellFormed(r), r.pc # "idle"
  PROVE  Continues(r, Attach(r, "error"))
<1> DEFINE q == Attach(r, "error")
<1>1. "error" \in Results
  BY DEF Results
<1>2. /\ q \in Runs
      /\ q.pc \in {"generate", "report"}
      /\ q.c = r.c
      /\ q.results = [r.results EXCEPT ![r.at] = "error"]
      /\ q.report = r.report
  BY <1>1, AttachType
<1>3. r.results \in [Stages -> Results]
  BY DEF Runs
<1> HIDE DEF q
<1>4. \A s \in Stages : q.results[s] = "ok" => r.results[s] = "ok"
  BY <1>2, <1>3
<1>5. WellFormed(q)
  BY <1>2 DEF WellFormed
<1>6. QED
  BY <1>2, <1>4, <1>5 DEF Continues, q

LEMMA SavedContinues ==
  ASSUME NEW r \in Runs, WellFormed(r), r.pc = "upsert"
  PROVE  Continues(r, Saved(r))
<1>1. {"research", "generate", "detect", "export"}
        \subseteq PCs \ {"announce", "update", "upsert", "attach"}
  BY DEF PCs
<1>2. CASE r.point = "reported"
  BY <1>2, FinishRunContinues DEF Saved
<1>3. CASE r.point \in {"started", "researched", "scored", "detected"}
  BY <1>1, <1>3, GoesTo DEF Saved
<1>4. CASE r.point \in {"finished", "failed"}
  <2>1. Saved(r) = [r EXCEPT !.pc = "announce"]
    BY <1>4 DEF Saved
  <2>2. "announce" \in PCs /\ r.status \in Terminal
    BY <1>4 DEF PCs, WellFormed
  <2>3. QED
    BY <2>1, <2>2 DEF Continues, WellFormed, Runs
<1>5. QED
  BY <1>2, <1>3, <1>4 DEF Runs, Points

LEMMA SaveThrewContinues ==
  ASSUME NEW r \in Runs, WellFormed(r), r.pc \in {"update", "upsert"}
  PROVE  Continues(r, SaveThrew(r))
<1>1. {"generate", "export", "unsaved"}
        \subseteq PCs \ {"announce", "update", "upsert", "attach"}
  BY DEF PCs
<1>2. CASE r.point \in {"started", "finished"}
  BY <1>2, FailRunContinues DEF SaveThrew
<1>3. CASE r.point \in {"researched", "detected", "failed"}
  BY <1>1, <1>3, GoesTo DEF SaveThrew
<1>4. CASE r.point = "scored"
  BY <1>4, FailedStageContinues DEF SaveThrew
<1>5. CASE r.point = "reported"
  BY <1>5, FinishRunContinues DEF SaveThrew
<1>6. QED
  BY <1>2, <1>3, <1>4, <1>5 DEF Runs, Points

----------------------------------------------------------------------------
(* Type correctness.                                                       *)

TypeInv == TypeOK /\ \A w \in Workers : WellFormed(work[w])

LEMMA IdleType == Idle \in Runs /\ WellFormed(Idle)
<1>1. 1 \in Stages
  BY NStagesAssumption DEF Stages
<1>2. QED
  BY <1>1 DEF Idle, Runs, WellFormed, PCs, Statuses, Results, Points

\* A step of one slot that gives it a well-formed record keeps the types of
\* all slots.
LEMMA WorkUpdate ==
  ASSUME TypeInv, NEW w \in Workers, NEW q \in Runs, WellFormed(q),
         work' = [work EXCEPT ![w] = q]
  PROVE  /\ work' \in [Workers -> Runs]
         /\ \A v \in Workers : WellFormed(work'[v])
BY DEF TypeInv, TypeOK

LEMMA TypeInit == Init => TypeInv
<1> SUFFICES ASSUME Init PROVE TypeInv
  OBVIOUS
<1>1. NoJob \in Jobs
  BY DEF NoJob, Jobs
<1>2. work \in [Workers -> Runs] /\ \A w \in Workers : WellFormed(work[w])
  BY IdleType DEF Init
<1>3. faults \in 0..MaxFaults /\ crashes \in 0..MaxCrashes
  BY BoundsAssumption DEF Init
<1>4. QED
  BY <1>1, <1>2, <1>3 DEF Init, TypeInv, TypeOK, Results

LEMMA RequestTypes ==
  ASSUME TypeInv, NEW c \in Campaigns,
         \/ Request(c) \/ CommitRequest(c) \/ RollbackRequest(c)
         \/ Enqueue(c) \/ EnqueueFails(c) \/ Delete(c)
  PROVE  TypeInv'
<1> USE DEF TypeInv, TypeOK, requestVars, dbVars, outVars
<1>1. CASE Request(c)
  BY <1>1 DEF Request
<1>2. CASE CommitRequest(c)
  BY <1>2 DEF CommitRequest, Statuses
<1>3. CASE RollbackRequest(c)
  BY <1>3, BoundsAssumption DEF RollbackRequest
<1>4. CASE Enqueue(c)
  BY <1>4 DEF Enqueue, Jobs
<1>5. CASE EnqueueFails(c)
  BY <1>5, BoundsAssumption DEF EnqueueFails
<1>6. CASE Delete(c)
  BY <1>6 DEF Delete, Results
<1>7. QED
  BY <1>1, <1>2, <1>3, <1>4, <1>5, <1>6

LEMMA CountStep ==
  ASSUME NEW max \in Nat, NEW n \in 0..max, n < max
  PROVE  n + 1 \in 0..max
OBVIOUS

\* A job that ends, waits again or is put back stays a job.
LEMMA JobType ==
  ASSUME NEW j \in Jobs,
         NEW st \in {"none", "waiting", "active", "completed", "failed"},
         NEW n \in Nat
  PROVE  /\ [j EXCEPT !.st = st, !.by = NoWorker] \in Jobs
         /\ [j EXCEPT !.st = st, !.by = NoWorker, !.attempts = n] \in Jobs
         /\ [j EXCEPT !.st = st, !.by = NoWorker, !.stalls = n] \in Jobs
BY DEF Jobs

LEMMA CrashTypes ==
  ASSUME TypeInv, Crash
  PROVE  TypeInv'
BY IdleType, BoundsAssumption
   DEF Crash, TypeInv, TypeOK, dbVars, outVars

LEMMA RedeliverTypes ==
  ASSUME TypeInv, NEW c \in Campaigns, Redeliver(c), crashes' \in 0..MaxCrashes
  PROVE  TypeInv'
<1> DEFINE st == IF job[c].stalls < MaxStalls THEN "waiting" ELSE "failed"
           j  == [job[c] EXCEPT !.st = st, !.by = NoWorker,
                                !.stalls = job[c].stalls + 1]
<1>1. job[c] \in Jobs /\ job[c].stalls + 1 \in Nat
  BY DEF TypeInv, TypeOK, Jobs
<1>2. j \in Jobs
  BY <1>1, JobType
<1>3. job' = [job EXCEPT ![c] = j]
  BY DEF Redeliver
<1> HIDE DEF j
<1>4. QED
  BY <1>2, <1>3 DEF Redeliver, TypeInv, TypeOK, requestVars, dbVars, outVars

LEMMA TakeTypes ==
  ASSUME TypeInv, NEW w \in Workers, NEW c \in Campaigns, Take(w, c)
  PROVE  TypeInv'
<1> DEFINE q == [Idle EXCEPT !.pc = "load", !.c = c]
           j == [job[c] EXCEPT !.st = "active", !.by = w]
<1>1. q \in Runs
  BY IdleType DEF Runs, PCs
<1>2. WellFormed(q)
  BY DEF WellFormed, Idle
<1>3. work' \in [Workers -> Runs] /\ \A v \in Workers : WellFormed(work'[v])
  BY <1>1, <1>2, WorkUpdate DEF Take
<1>4. j \in Jobs
  <2>1. job[c] \in Jobs
    BY DEF TypeInv, TypeOK
  <2>2. QED
    BY <2>1 DEF Jobs
<1>5. job' = [job EXCEPT ![c] = j]
  BY DEF Take
<1> HIDE DEF j
<1>6. job' \in [Campaigns -> Jobs]
  BY <1>4, <1>5 DEF TypeInv, TypeOK
<1>7. QED
  BY <1>3, <1>6 DEF Take, TypeInv, TypeOK, requestVars, dbVars, outVars

LEMMA LoadThrowsTypes ==
  ASSUME TypeInv, NEW w \in Workers, LoadThrows(w)
  PROVE  TypeInv'
<1> DEFINE c  == work[w].c
           n  == job[c].attempts + 1
           st == IF n < MaxAttempts THEN "waiting" ELSE "failed"
           j  == IF job[c].by # w THEN job[c]
                 ELSE [job[c] EXCEPT !.st = st, !.by = NoWorker, !.attempts = n]
<1>1. work' \in [Workers -> Runs] /\ \A v \in Workers : WellFormed(work'[v])
  BY IdleType, WorkUpdate DEF LoadThrows
<1>2. c \in Campaigns
  BY DEF LoadThrows, WellFormed, TypeInv
<1>3. job[c] \in Jobs /\ n \in Nat
  BY <1>2 DEF TypeInv, TypeOK, Jobs
<1>4. j \in Jobs
  BY <1>3, JobType
<1>5. job' = [job EXCEPT ![c] = j]
  BY DEF LoadThrows
<1>6. faults' \in 0..MaxFaults
  BY BoundsAssumption, CountStep DEF LoadThrows, TypeInv, TypeOK
<1> HIDE DEF j, c
<1>7. job' \in [Campaigns -> Jobs]
  BY <1>2, <1>4, <1>5 DEF TypeInv, TypeOK
<1>8. QED
  BY <1>1, <1>6, <1>7
     DEF LoadThrows, TypeInv, TypeOK, requestVars, dbVars, outVars

LEMMA ReturnTypes ==
  ASSUME TypeInv, NEW w \in Workers, Return(w)
  PROVE  TypeInv'
<1> DEFINE c == work[w].c
           j == IF job[c].by # w THEN job[c]
                ELSE [job[c] EXCEPT !.st = "completed", !.by = NoWorker]
<1>1. work' \in [Workers -> Runs] /\ \A v \in Workers : WellFormed(work'[v])
  BY IdleType, WorkUpdate DEF Return
<1>2. c \in Campaigns
  BY DEF Return, WellFormed, TypeInv
<1>3. j \in Jobs
  BY <1>2, JobType DEF TypeInv, TypeOK
<1>4. job' = [job EXCEPT ![c] = j]
  BY DEF Return
<1> HIDE DEF j, c
<1>5. job' \in [Campaigns -> Jobs]
  BY <1>2, <1>3, <1>4 DEF TypeInv, TypeOK
<1>6. QED
  BY <1>1, <1>5
     DEF Return, TypeInv, TypeOK, requestVars, dbVars, outVars

\* The steps of a run: each gives the slot a record that continues the run,
\* or one that differs in a way its own case spells out.
LEMMA RunContinues ==
  ASSUME TypeInv, NEW w \in Workers,
         \/ SaveThrows(w) \/ Research(w) \/ ResearchFails(w) \/ Generate(w)
         \/ Detect(w) \/ DetectFails(w) \/ StageFails(w) \/ ReportFails(w)
  PROVE  \E q : Continues(work[w], q) /\ work' = [work EXCEPT ![w] = q]
<1>1. work[w] \in Runs /\ WellFormed(work[w])
  BY DEF TypeInv, TypeOK
<1>2. {"generate", "export"} \subseteq PCs \ {"announce", "update", "upsert", "attach"}
  BY DEF PCs
<1>3. {"researched", "scored", "detected"} \subseteq Points \ {"finished", "failed"}
  BY DEF Points
<1>4. CASE SaveThrows(w)
  BY <1>1, <1>4, SaveThrewContinues DEF SaveThrows
<1>5. CASE Research(w) \/ Generate(w) \/ Detect(w)
  BY <1>1, <1>3, <1>5, SaveContinues DEF Research, Generate, Detect
<1>6. CASE ResearchFails(w) \/ DetectFails(w)
  BY <1>1, <1>2, <1>6, GoesTo DEF ResearchFails, DetectFails
<1>7. CASE StageFails(w)
  BY <1>1, <1>7, FailedStageContinues DEF StageFails
<1>8. CASE ReportFails(w)
  BY <1>1, <1>8, FinishRunContinues DEF ReportFails
<1>9. QED
  BY <1>4, <1>5, <1>6, <1>7, <1>8

LEMMA RunStepTypes ==
  ASSUME TypeInv, NEW w \in Workers,
         \/ SaveThrows(w) \/ Research(w) \/ ResearchFails(w) \/ Generate(w)
         \/ Detect(w) \/ DetectFails(w) \/ StageFails(w) \/ ReportFails(w)
  PROVE  TypeInv'
<1>1. work' \in [Workers -> Runs] /\ \A v \in Workers : WellFormed(work'[v])
  BY RunContinues, WorkUpdate DEF Continues
<1>2. work[w].pc = "report" => work[w].c \in Campaigns
  BY DEF TypeInv, WellFormed
<1>3. store' \subseteq Campaigns \X (0..NStages)
  BY <1>2, NStagesAssumption
     DEF TypeInv, TypeOK, SaveThrows, Research, ResearchFails, Generate, Detect,
         DetectFails, StageFails, ReportFails
<1>4. faults' \in 0..MaxFaults
  BY BoundsAssumption, CountStep
     DEF TypeInv, TypeOK, SaveThrows, Research, ResearchFails, Generate, Detect,
         DetectFails, StageFails, ReportFails
<1>5. UNCHANGED <<tx, emitted, row, reportRow, stageRow, job, ready, told, crashes>>
  BY DEF SaveThrows, Research, ResearchFails, Generate, Detect, DetectFails,
         StageFails, ReportFails, requestVars, dbVars, outVars
<1>6. QED
  BY <1>1, <1>3, <1>4, <1>5 DEF TypeInv, TypeOK

LEMMA LoadRun ==
  ASSUME TypeInv, NEW w \in Workers, Load(w)
  PROVE  \E q : /\ q \in Runs
                /\ WellFormed(q)
                /\ q.c = work[w].c
                /\ q.pc \in {"return", "update"}
                /\ \/ q.pc = "return" /\ q = [work[w] EXCEPT !.pc = "return"]
                   \/ /\ q.results = stageRow[q.c]
                      /\ q.report = reportRow[q.c]
                      /\ row[q.c] # "absent"
                /\ work' = [work EXCEPT ![w] = q]
<1> DEFINE c == work[w].c
           r == [work[w] EXCEPT !.status = row[c], !.results = stageRow[c],
                                !.report = reportRow[c]]
           p == [r EXCEPT !.status = "processing"]
<1>1. work[w] \in Runs /\ WellFormed(work[w]) /\ work[w].pc = "load"
  BY DEF TypeInv, TypeOK, Load
<1>2. c \in Campaigns
  BY <1>1 DEF WellFormed
<1>3. stageRow[c] \in [Stages -> Results] /\ reportRow[c] \in BOOLEAN
  BY <1>2 DEF TypeInv, TypeOK
<1>4. CASE row[c] = "absent"
  <2>1. "return" \in PCs \ {"announce", "update", "upsert", "attach"}
    BY DEF PCs
  <2>2. Continues(work[w], [work[w] EXCEPT !.pc = "return"])
    BY <1>1, <2>1, GoesTo
  <2>3. [work[w] EXCEPT !.pc = "return"].pc = "return"
    BY <1>1 DEF Runs
  <2>4. work' = [work EXCEPT ![w] = [work[w] EXCEPT !.pc = "return"]]
    BY <1>4 DEF Load
  <2>5. QED
    BY <2>2, <2>3, <2>4 DEF Continues
<1>5. CASE row[c] # "absent"
  <2>1. row[c] \in Statuses
    BY <1>2, <1>5 DEF TypeInv, TypeOK
  <2>2. /\ r \in Runs
        /\ r.c = c
        /\ r.pc = "load"
        /\ r.results = stageRow[c]
        /\ r.report = reportRow[c]
    BY <1>1, <1>3, <2>1 DEF Runs
  <2>3. WellFormed(r)
    BY <1>2, <2>2 DEF WellFormed
  <2>4. CASE canTransitionTo(row[c], "processing")
    <3>1. "processing" \in Statuses /\ "started" \in Points \ {"finished", "failed"}
      BY DEF Statuses, Points
    <3>2. /\ p \in Runs
          /\ p.c = c
          /\ p.pc = "load"
          /\ p.results = stageRow[c]
          /\ p.report = reportRow[c]
      BY <2>2, <3>1 DEF Runs
    <3>3. WellFormed(p)
      BY <1>2, <3>2 DEF WellFormed
    <3>4. work' = [work EXCEPT ![w] = Save(p, "started")]
      BY <1>5, <2>4 DEF Load
    <3> HIDE DEF p
    <3>5. Continues(p, Save(p, "started"))
      BY <3>1, <3>2, <3>3, SaveContinues
    <3>6. /\ Save(p, "started").pc = "update"
          /\ Save(p, "started").results = p.results
      BY <3>1, <3>2, SaveType
    <3>7. QED
      BY <1>5, <3>2, <3>4, <3>5, <3>6 DEF Continues
  <2>5. CASE ~canTransitionTo(row[c], "processing")
    <3>1. work' = [work EXCEPT ![w] = FailRun(r)]
      BY <1>5, <2>5 DEF Load
    <3> HIDE DEF r
    <3>2. Continues(r, FailRun(r))
      BY <2>2, <2>3, FailRunContinues
    <3>3. FailRun(r).pc = "update" /\ FailRun(r).results = r.results
      BY <2>2, FailRunType
    <3>4. QED
      BY <1>5, <2>2, <3>1, <3>2, <3>3 DEF Continues
  <2>6. QED
    BY <2>4, <2>5
<1>6. QED
  BY <1>4, <1>5

LEMMA LoadTypes ==
  ASSUME TypeInv, NEW w \in Workers, Load(w)
  PROVE  TypeInv'
<1>1. work' \in [Workers -> Runs] /\ \A v \in Workers : WellFormed(work'[v])
  BY LoadRun, WorkUpdate
<1>2. QED
  BY <1>1 DEF Load, TypeInv, TypeOK, requestVars, dbVars, outVars

LEMMA UpdateRowTypes ==
  ASSUME TypeInv, NEW w \in Workers, UpdateRow(w)
  PROVE  TypeInv'
<1> DEFINE q == [work[w] EXCEPT !.pc = "upsert"]
<1>1. work[w] \in Runs /\ WellFormed(work[w]) /\ work[w].pc = "update"
  BY DEF TypeInv, TypeOK, UpdateRow
<1>2. work[w].c \in Campaigns
  BY <1>1 DEF WellFormed
<1>3. q \in Runs /\ WellFormed(q)
  BY <1>1 DEF WellFormed, Runs, PCs
<1>4. work' \in [Workers -> Runs] /\ \A v \in Workers : WellFormed(work'[v])
  BY <1>3, WorkUpdate DEF UpdateRow
<1>5. /\ row' \in [Campaigns -> Statuses \union {"absent"}]
      /\ reportRow' \in [Campaigns -> BOOLEAN]
  BY <1>1, <1>2 DEF UpdateRow, TypeInv, TypeOK, Runs
<1>6. QED
  BY <1>4, <1>5 DEF UpdateRow, TypeInv, TypeOK, requestVars, outVars

LEMMA UpsertStageTypes ==
  ASSUME TypeInv, NEW w \in Workers, UpsertStage(w)
  PROVE  /\ TypeInv'
         /\ \E q : /\ work' = [work EXCEPT ![w] = q]
                   /\ Continues(work[w], q)
<1> DEFINE n == [work[w] EXCEPT !.up = work[w].up + 1]
<1>1. work[w] \in Runs /\ WellFormed(work[w]) /\ work[w].pc = "upsert"
  BY DEF TypeInv, TypeOK, UpsertStage
<1>2. work[w].c \in Campaigns
  BY <1>1 DEF WellFormed
<1>3. \E q : work' = [work EXCEPT ![w] = q] /\ Continues(work[w], q)
  <2>1. CASE work[w].up < NStages
    <3>1. work[w].up + 1 \in Stages
      BY <1>1, <2>1, NStagesAssumption DEF Runs, Stages
    <3>2. Continues(work[w], n)
      BY <1>1, <3>1 DEF Continues, WellFormed, Runs
    <3>3. QED
      BY <2>1, <3>2 DEF UpsertStage
  <2>2. CASE ~(work[w].up < NStages)
    BY <1>1, <2>2, SavedContinues DEF UpsertStage
  <2>3. QED
    BY <2>1, <2>2
<1>4. work' \in [Workers -> Runs] /\ \A v \in Workers : WellFormed(work'[v])
  BY <1>3, WorkUpdate DEF Continues
<1>5. work[w].results[work[w].up] \in Results
  BY <1>1 DEF Runs
<1>6. stageRow' \in [Campaigns -> [Stages -> Results]]
  BY <1>2, <1>5 DEF UpsertStage, TypeInv, TypeOK
<1>7. QED
  BY <1>3, <1>4, <1>6 DEF UpsertStage, TypeInv, TypeOK, requestVars, outVars

LEMMA ExportTypes ==
  ASSUME TypeInv, NEW w \in Workers,
         UploadZip(w) \/ AttachZip(w) \/ UploadReport(w) \/ Announce(w)
  PROVE  TypeInv'
<1>1. work[w] \in Runs /\ WellFormed(work[w])
  BY DEF TypeInv, TypeOK
<1>2. work[w].pc # "idle" => work[w].c \in Campaigns
  BY <1>1 DEF WellFormed
<1>3. CASE UploadZip(w)
  <2>1. [work[w] EXCEPT !.pc = "attach"] \in Runs
    BY <1>1 DEF Runs, PCs
  <2>2. WellFormed([work[w] EXCEPT !.pc = "attach"])
    BY <1>1, <1>2, <1>3 DEF UploadZip, WellFormed, Runs
  <2>3. work' \in [Workers -> Runs] /\ \A v \in Workers : WellFormed(work'[v])
    BY <1>3, <2>1, <2>2, WorkUpdate DEF UploadZip
  <2>4. <<work[w].c, work[w].at>> \in Campaigns \X (0..NStages)
    BY <1>1, <1>2, <1>3, NStagesAssumption DEF UploadZip, Runs, Stages
  <2>5. QED
    BY <1>3, <2>3, <2>4 DEF UploadZip, TypeInv, TypeOK, requestVars, dbVars, outVars
<1>4. CASE AttachZip(w)
  <2>1. "ok" \in Results
    BY DEF Results
  <2>2. /\ Attach(work[w], "ok") \in Runs
        /\ Attach(work[w], "ok").pc \in {"generate", "report"}
        /\ Attach(work[w], "ok").c = work[w].c
    BY <1>1, <2>1, AttachType
  <2>3. WellFormed(Attach(work[w], "ok"))
    BY <1>2, <1>4, <2>2 DEF WellFormed, AttachZip
  <2>4. work' \in [Workers -> Runs] /\ \A v \in Workers : WellFormed(work'[v])
    BY <1>4, <2>2, <2>3, WorkUpdate DEF AttachZip
  <2>5. <<work[w].c, work[w].at>> \in Campaigns \X Stages
    BY <1>1, <1>2, <1>4 DEF AttachZip, Runs
  <2>6. QED
    BY <1>4, <2>4, <2>5 DEF AttachZip, TypeInv, TypeOK, requestVars, dbVars
<1>5. CASE UploadReport(w)
  <2> DEFINE r == [work[w] EXCEPT !.report = TRUE]
  <2>1. r \in Runs /\ r.c = work[w].c /\ r.pc = "report"
    BY <1>1, <1>5 DEF Runs, UploadReport
  <2>2. WellFormed(r)
    BY <1>2, <1>5, <2>1 DEF WellFormed, UploadReport
  <2>3. "reported" \in Points \ {"finished", "failed"}
    BY DEF Points
  <2>4. work' = [work EXCEPT ![w] = Save(r, "reported")]
    BY <1>5 DEF UploadReport
  <2> HIDE DEF r
  <2>5. Continues(r, Save(r, "reported"))
    BY <2>1, <2>2, <2>3, SaveContinues
  <2>6. work' \in [Workers -> Runs] /\ \A v \in Workers : WellFormed(work'[v])
    BY <2>4, <2>5, WorkUpdate DEF Continues
  <2>7. <<work[w].c, 0>> \in Campaigns \X (0..NStages)
    BY <1>2, <1>5, NStagesAssumption DEF UploadReport
  <2>8. QED
    BY <1>5, <2>6, <2>7
       DEF UploadReport, TypeInv, TypeOK, requestVars, dbVars, outVars
<1>6. CASE Announce(w)
  <2>1. "return" \in PCs \ {"announce", "update", "upsert", "attach"}
    BY DEF PCs
  <2>2. Continues(work[w], [work[w] EXCEPT !.pc = "return"])
    BY <1>1, <1>6, <2>1, GoesTo DEF Announce
  <2>3. work' \in [Workers -> Runs] /\ \A v \in Workers : WellFormed(work'[v])
    BY <1>6, <2>2, WorkUpdate DEF Announce, Continues
  <2>4. work[w].status \in Terminal
    BY <1>1, <1>6 DEF WellFormed, Announce
  <2>5. told' \in [Campaigns -> SUBSET Terminal]
    BY <1>2, <1>6, <2>4 DEF Announce, TypeInv, TypeOK
  <2>6. QED
    BY <1>6, <2>3, <2>5 DEF Announce, TypeInv, TypeOK, requestVars, dbVars
<1>7. QED
  BY <1>3, <1>4, <1>5, <1>6

LEMMA TypeStep == TypeInv /\ [OverlapNext]_vars => TypeInv'
<1> SUFFICES ASSUME TypeInv, [OverlapNext]_vars PROVE TypeInv'
  OBVIOUS
<1>1. CASE UNCHANGED vars
  BY <1>1 DEF vars, TypeInv, TypeOK
<1>2. CASE \E c \in Campaigns :
             \/ Request(c) \/ CommitRequest(c) \/ RollbackRequest(c)
             \/ Enqueue(c) \/ EnqueueFails(c) \/ Delete(c)
  BY <1>2, RequestTypes
<1>3. CASE \E c \in Campaigns : Stalled(c) \/ LockExpires(c)
  <2>1. PICK c \in Campaigns : Stalled(c) \/ LockExpires(c)
    BY <1>3
  <2>2. crashes' \in 0..MaxCrashes
    BY <2>1, BoundsAssumption DEF Stalled, LockExpires, TypeInv, TypeOK
  <2>3. QED
    BY <2>1, <2>2, RedeliverTypes DEF Stalled, LockExpires
<1>4. CASE \E w \in Workers, c \in Campaigns : Take(w, c)
  BY <1>4, TakeTypes
<1>5. CASE \E w \in Workers : LoadThrows(w)
  BY <1>5, LoadThrowsTypes
<1>6. CASE \E w \in Workers : Step(w)
  BY <1>6, LoadTypes, UpdateRowTypes, UpsertStageTypes, RunStepTypes,
     ExportTypes, ReturnTypes DEF Step
<1>7. CASE Crash
  BY <1>7, CrashTypes
<1>8. QED
  BY <1>1, <1>2, <1>3, <1>4, <1>5, <1>6, <1>7 DEF OverlapNext, Next

\* Every variable keeps its type, even when two runs of the same job overlap.
THEOREM OverlapTypeCorrect == OverlapSpec => []TypeOK
<1>1. TypeInv => TypeOK
  BY DEF TypeInv
<1>2. QED
  BY <1>1, TypeInit, TypeStep, PTL DEF OverlapSpec

\* Every variable keeps its type.
THEOREM TypeCorrect == Spec => []TypeOK
<1>1. TypeInv => TypeOK
  BY DEF TypeInv
<1>2. [Next]_vars => [OverlapNext]_vars
  BY DEF OverlapNext
<1>3. QED
  BY <1>1, <1>2, TypeInit, TypeStep, PTL DEF Spec

----------------------------------------------------------------------------
(* Links resolve.  LinksResolve is not inductive: a save copies the results *)
(* a run holds in memory into the database, so those must resolve as well.  *)

RunLinked(r, objects) ==
  /\ \A s \in Stages : r.results[s] = "ok" => <<r.c, s>> \in objects
  /\ r.report => <<r.c, 0>> \in objects
  /\ r.pc = "attach" => <<r.c, r.at>> \in objects

LinkInv ==
  /\ LinksResolve
  /\ \A w \in Workers : RunLinked(work[w], store)

LEMMA IdleLinked ==
  ASSUME NEW objects, NEW c
  PROVE  /\ RunLinked(Idle, objects)
         /\ RunLinked([Idle EXCEPT !.pc = "load", !.c = c], objects)
BY DEF RunLinked, Idle

\* Objects are never removed, so a slot that moves to a linked record leaves
\* all slots linked.
LEMMA LinkedUpdate ==
  ASSUME TypeInv, LinkInv, NEW w \in Workers, NEW q,
         work' = [work EXCEPT ![w] = q], store \subseteq store',
         RunLinked(q, store')
  PROVE  \A v \in Workers : RunLinked(work'[v], store')
<1> SUFFICES ASSUME NEW v \in Workers PROVE RunLinked(work'[v], store')
  OBVIOUS
<1>1. RunLinked(work[v], store) => RunLinked(work[v], store')
  BY DEF RunLinked
<1>2. CASE v = w
  BY <1>2 DEF TypeInv, TypeOK
<1>3. CASE v # w
  BY <1>1, <1>3 DEF TypeInv, TypeOK, LinkInv
<1>4. QED
  BY <1>2, <1>3

\* A record that continues a linked run is linked.
LEMMA ContinuesLinked ==
  ASSUME NEW r, NEW q, NEW before, NEW after, before \subseteq after,
         Continues(r, q), RunLinked(r, before)
  PROVE  RunLinked(q, after)
BY DEF Continues, RunLinked

LEMMA LinkInit == Init => LinkInv
BY DEF Init, LinkInv, LinksResolve, RunLinked, Idle

LEMMA RequestLinks ==
  ASSUME TypeInv, LinkInv, NEW c \in Campaigns,
         \/ Request(c) \/ CommitRequest(c) \/ RollbackRequest(c)
         \/ Enqueue(c) \/ EnqueueFails(c) \/ Redeliver(c)
  PROVE  LinkInv'
BY DEF Request, CommitRequest, RollbackRequest, Enqueue, EnqueueFails,
       Redeliver, LinkInv, LinksResolve, dbVars, outVars, requestVars

LEMMA DeleteLinks ==
  ASSUME TypeInv, LinkInv, NEW c \in Campaigns, Delete(c)
  PROVE  LinkInv'
BY DEF Delete, LinkInv, LinksResolve, TypeInv, TypeOK, outVars

LEMMA RunStepLinks ==
  ASSUME TypeInv, LinkInv, NEW w \in Workers,
         \/ SaveThrows(w) \/ Research(w) \/ ResearchFails(w) \/ Generate(w)
         \/ Detect(w) \/ DetectFails(w) \/ StageFails(w) \/ ReportFails(w)
  PROVE  LinkInv'
<1>1. /\ store \subseteq store'
      /\ UNCHANGED <<ready, stageRow, reportRow>>
  BY DEF SaveThrows, Research, ResearchFails, Generate, Detect, DetectFails,
         StageFails, ReportFails, dbVars, outVars
<1>2. \A v \in Workers : RunLinked(work'[v], store')
  BY <1>1, RunContinues, ContinuesLinked, LinkedUpdate DEF LinkInv
<1>3. QED
  BY <1>1, <1>2 DEF LinkInv, LinksResolve

LEMMA LoadLinks ==
  ASSUME TypeInv, LinkInv, NEW w \in Workers, Load(w)
  PROVE  LinkInv'
<1>1. UNCHANGED <<store, ready, stageRow, reportRow>>
  BY DEF Load, dbVars, outVars
<1>2. work[w] \in Runs /\ WellFormed(work[w]) /\ work[w].c \in Campaigns
  BY DEF TypeInv, TypeOK, WellFormed, Load
<1>3. PICK q : /\ q \in Runs
               /\ WellFormed(q)
               /\ q.c = work[w].c
               /\ q.pc \in {"return", "update"}
               /\ \/ q.pc = "return" /\ q = [work[w] EXCEPT !.pc = "return"]
                  \/ /\ q.results = stageRow[q.c]
                     /\ q.report = reportRow[q.c]
                     /\ row[q.c] # "absent"
               /\ work' = [work EXCEPT ![w] = q]
  BY LoadRun
<1>4. RunLinked(q, store)
  <2>1. CASE q = [work[w] EXCEPT !.pc = "return"]
    BY <1>2, <2>1 DEF LinkInv, RunLinked, Runs
  <2>2. CASE q.results = stageRow[q.c] /\ q.report = reportRow[q.c]
    BY <1>2, <1>3, <2>2 DEF LinkInv, LinksResolve, RunLinked
  <2>3. QED
    BY <1>3, <2>1, <2>2
<1>5. \A v \in Workers : RunLinked(work'[v], store')
  BY <1>1, <1>3, <1>4, LinkedUpdate
<1>6. QED
  BY <1>1, <1>5 DEF LinkInv, LinksResolve

LEMMA SaveLinks ==
  ASSUME TypeInv, LinkInv, NEW w \in Workers, UpdateRow(w) \/ UpsertStage(w)
  PROVE  LinkInv'
<1>1. work[w] \in Runs /\ work[w].c \in Campaigns /\ RunLinked(work[w], store)
  BY DEF TypeInv, TypeOK, WellFormed, UpdateRow, UpsertStage, LinkInv
<1>2. CASE UpdateRow(w)
  <2>1. RunLinked([work[w] EXCEPT !.pc = "upsert"], store)
    BY <1>1 DEF RunLinked, Runs
  <2>2. \A v \in Workers : RunLinked(work'[v], store')
    BY <1>2, <2>1, LinkedUpdate DEF UpdateRow
  <2>3. reportRow' = [reportRow EXCEPT ![work[w].c] = work[w].report]
    BY <1>2 DEF UpdateRow
  <2>4. LinksResolve'
    BY <1>1, <1>2, <2>3 DEF UpdateRow, LinkInv, LinksResolve, RunLinked, outVars,
       TypeInv, TypeOK
  <2>5. QED
    BY <2>2, <2>4 DEF LinkInv
<1>3. CASE UpsertStage(w)
  <2>1. UNCHANGED <<store, ready, reportRow>>
    BY <1>3 DEF UpsertStage, outVars
  <2>2. \A v \in Workers : RunLinked(work'[v], store')
    BY <1>1, <1>3, <2>1, UpsertStageTypes, ContinuesLinked, LinkedUpdate
  <2>3. \A c \in Campaigns, s \in Stages :
          stageRow'[c][s] = "ok" => <<c, s>> \in store
    <3>1. stageRow' = [stageRow EXCEPT ![work[w].c] =
                         [stageRow[work[w].c] EXCEPT
                            ![work[w].up] = work[w].results[work[w].up]]]
      BY <1>3 DEF UpsertStage
    <3>2. stageRow[work[w].c] \in [Stages -> Results] /\ work[w].up \in Stages
      BY <1>1 DEF TypeInv, TypeOK, Runs
    <3>3. QED
      BY <1>1, <3>1, <3>2 DEF RunLinked, LinkInv, LinksResolve, TypeInv, TypeOK
  <2>4. QED
    BY <2>1, <2>2, <2>3 DEF LinkInv, LinksResolve
<1>4. QED
  BY <1>2, <1>3

LEMMA ExportLinks ==
  ASSUME TypeInv, LinkInv, NEW w \in Workers,
         UploadZip(w) \/ AttachZip(w) \/ UploadReport(w) \/ Announce(w)
  PROVE  LinkInv'
<1>1. work[w] \in Runs /\ RunLinked(work[w], store)
  BY DEF TypeInv, TypeOK, LinkInv
<1>2. store \subseteq store' /\ UNCHANGED <<stageRow, reportRow>>
  BY DEF UploadZip, AttachZip, UploadReport, Announce, dbVars
<1>3. \A v \in Workers : RunLinked(work'[v], store')
  <2>1. CASE UploadZip(w)
    <3>1. RunLinked([work[w] EXCEPT !.pc = "attach"], store')
      BY <1>1, <2>1 DEF RunLinked, UploadZip, Runs
    <3>2. QED
      BY <1>2, <2>1, <3>1, LinkedUpdate DEF UploadZip
  <2>2. CASE AttachZip(w)
    <3> DEFINE q == Attach(work[w], "ok")
    <3>1. /\ q.pc \in {"generate", "report"}
          /\ q.c = work[w].c
          /\ q.results = [work[w].results EXCEPT ![work[w].at] = "ok"]
          /\ q.report = work[w].report
      BY <1>1, AttachType DEF Results
    <3>2. work[w].results \in [Stages -> Results] /\ work[w].pc = "attach"
      BY <1>1, <2>2 DEF Runs, AttachZip
    <3>3. store' = store /\ work' = [work EXCEPT ![w] = q]
      BY <2>2 DEF AttachZip
    <3> HIDE DEF q
    <3>4. RunLinked(q, store')
      BY <1>1, <3>1, <3>2, <3>3 DEF RunLinked
    <3>5. QED
      BY <1>2, <3>3, <3>4, LinkedUpdate
  <2>3. CASE UploadReport(w)
    <3> DEFINE r == [work[w] EXCEPT !.report = TRUE]
    <3>1. /\ r \in Runs
          /\ r.c = work[w].c
          /\ r.results = work[w].results
      BY <1>1 DEF Runs
    <3>2. work' = [work EXCEPT ![w] = Save(r, "reported")]
      BY <2>3 DEF UploadReport
    <3>3. <<work[w].c, 0>> \in store'
      BY <2>3 DEF UploadReport
    <3> HIDE DEF r
    <3>4. /\ Save(r, "reported").pc = "update"
          /\ Save(r, "reported").c = r.c
          /\ Save(r, "reported").results = r.results
      BY <3>1, SaveType DEF Points
    <3>5. RunLinked(Save(r, "reported"), store')
      BY <1>1, <1>2, <3>1, <3>3, <3>4 DEF RunLinked
    <3>6. QED
      BY <1>2, <3>2, <3>5, LinkedUpdate
  <2>4. CASE Announce(w)
    <3>1. RunLinked([work[w] EXCEPT !.pc = "return"], store')
      BY <1>1, <2>4 DEF RunLinked, Announce, Runs
    <3>2. QED
      BY <1>2, <2>4, <3>1, LinkedUpdate DEF Announce
  <2>5. QED
    BY <2>1, <2>2, <2>3, <2>4
<1>4. ready' \subseteq store'
  <2>1. CASE AttachZip(w)
    BY <1>1, <2>1 DEF AttachZip, RunLinked, LinkInv, LinksResolve
  <2>2. CASE UploadZip(w) \/ UploadReport(w) \/ Announce(w)
    BY <1>2, <2>2 DEF UploadZip, UploadReport, Announce, LinkInv, LinksResolve, outVars
  <2>3. QED
    BY <2>1, <2>2
<1>5. QED
  BY <1>2, <1>3, <1>4 DEF LinkInv, LinksResolve

LEMMA QueueLinks ==
  ASSUME TypeInv, LinkInv,
         \/ Crash
         \/ \E w \in Workers, c \in Campaigns : Take(w, c)
         \/ \E w \in Workers : LoadThrows(w) \/ Return(w)
  PROVE  LinkInv'
<1>1. UNCHANGED <<store, ready, stageRow, reportRow>>
  BY DEF Crash, Take, LoadThrows, Return, dbVars, outVars
<1>2. \A v \in Workers : RunLinked(work'[v], store')
  <2>1. CASE Crash
    BY <2>1, IdleLinked DEF Crash
  <2>2. ASSUME NEW w \in Workers, NEW c \in Campaigns, Take(w, c)
        PROVE  \A v \in Workers : RunLinked(work'[v], store')
    BY <1>1, <2>2, IdleLinked, LinkedUpdate DEF Take
  <2>3. ASSUME NEW w \in Workers, LoadThrows(w) \/ Return(w)
        PROVE  \A v \in Workers : RunLinked(work'[v], store')
    BY <1>1, <2>3, IdleLinked, LinkedUpdate DEF LoadThrows, Return
  <2>4. QED
    BY <2>1, <2>2, <2>3
<1>3. QED
  BY <1>1, <1>2 DEF LinkInv, LinksResolve

LEMMA LinkStep == TypeInv /\ LinkInv /\ [OverlapNext]_vars => LinkInv'
<1> SUFFICES ASSUME TypeInv, LinkInv, [OverlapNext]_vars PROVE LinkInv'
  OBVIOUS
<1>1. CASE UNCHANGED vars
  BY <1>1 DEF vars, LinkInv, LinksResolve
<1>2. CASE \E c \in Campaigns :
             \/ Request(c) \/ CommitRequest(c) \/ RollbackRequest(c)
             \/ Enqueue(c) \/ EnqueueFails(c)
  BY <1>2, RequestLinks
<1>3. CASE \E c \in Campaigns : Delete(c)
  BY <1>3, DeleteLinks
<1>4. CASE \E c \in Campaigns : Stalled(c) \/ LockExpires(c)
  BY <1>4, RequestLinks DEF Stalled, LockExpires
<1>5. CASE \/ Crash
           \/ \E w \in Workers, c \in Campaigns : Take(w, c)
           \/ \E w \in Workers : LoadThrows(w)
  BY <1>5, QueueLinks
<1>6. CASE \E w \in Workers : Step(w)
  BY <1>6, LoadLinks, SaveLinks, RunStepLinks, ExportLinks, QueueLinks DEF Step
<1>7. QED
  BY <1>1, <1>2, <1>3, <1>4, <1>5, <1>6 DEF OverlapNext, Next

\* Every download link a user can see leads to an object in the bucket, even
\* when two runs of the same job overlap.
THEOREM OverlapLinksResolve == OverlapSpec => []LinksResolve
<1>1. LinkInv => LinksResolve
  BY DEF LinkInv
<1>2. QED
  BY <1>1, TypeInit, LinkInit, TypeStep, LinkStep, PTL DEF OverlapSpec

----------------------------------------------------------------------------
(* The pipeline and its lifecycle: the invariant.                          *)

\* Inside the loop over the stages and the optional steps around it.
Midway  == {"research", "generate", "detect", "export", "attach", "report"}
\* At a save, or at the announcement that follows the last one.
Saving  == {"update", "upsert", "announce"}
\* The saves of a run that is not over.
Earlier == {"started", "researched", "scored", "detected", "reported"}

Busy(r) == r.pc \in Midway \union Saving

\* Which status a run holds, and which stages it has a result for.
Shape(r) ==
  /\ r.pc = "load" => r.at = 1
  /\ r.pc = "update" => r.up = 1
  /\ r.pc \in Midway => r.status = "processing"
  /\ r.pc \in Saving =>
       /\ r.point = "failed" => r.status = "failed"
       /\ r.point = "finished" => r.status = Outcome(r.results)
       /\ r.point \in Earlier => r.status = "processing"
  /\ r.pc = "announce" => r.point \in {"finished", "failed"}
  /\ (r.pc \in Midway \/ (r.pc \in {"update", "upsert"} /\ r.point \in Earlier)) =>
       \A s \in Stages : s < r.at => r.results[s] # "empty"
  /\ (r.pc = "report" \/ (r.pc \in Saving /\ r.point \in {"reported", "finished"})) =>
       \A s \in Stages : r.results[s] # "empty"

\* What the row and the stage rows of its campaign say meanwhile.
Agrees(r, status, stages) ==
  /\ r.pc \in Midway => status = "processing"
  /\ r.pc = "update" /\ r.point = "started" => status \in {"pending", "processing"}
  /\ r.pc = "update" /\ r.point \in (Earlier \ {"started"}) \union {"finished"} =>
       status = "processing"
  /\ r.pc \in {"upsert", "announce"} => status = r.status
  /\ r.pc = "upsert" => \A s \in Stages : s < r.up => stages[s] = r.results[s]
  /\ r.pc = "announce" => \A s \in Stages : stages[s] = r.results[s]

\* The slot holds the job of its campaign.
Holds(w) ==
  work[w].pc # "idle" =>
    job[work[w].c].st = "active" /\ job[work[w].c].by = w

RunInv(w) ==
  LET r == work[w]
      c == work[w].c
  IN  /\ Shape(r)
      /\ Busy(r) => tx[c] = "committed"
      /\ Busy(r) /\ row[c] # "absent" => Agrees(r, row[c], stageRow[c])

RowInv == \A c \in Campaigns : row[c] # "absent" => tx[c] = "committed"

RefInv ==
  /\ TypeInv
  /\ RowInv
  /\ \A w \in Workers : Holds(w) /\ RunInv(w)

----------------------------------------------------------------------------
(* The records a run goes through keep Shape and Agrees.                   *)

LEMMA SaveKeeps ==
  ASSUME NEW r \in Runs, Shape(r), NEW status, NEW stages,
         r.pc \in Midway \ {"report"}, status = "processing",
         NEW point \in {"researched", "scored", "detected"}
  PROVE  /\ Shape(Save(r, point))
         /\ Agrees(Save(r, point), status, stages)
<1>1. point \in Points
  BY DEF Points
<1>2. /\ Save(r, point).at = r.at
      /\ Save(r, point).up = 1
  BY DEF Save, Runs
<1>3. QED
  BY <1>1, <1>2, SaveType DEF Shape, Agrees, Midway, Saving, Earlier

LEMMA FailRunKeeps ==
  ASSUME NEW r \in Runs, NEW status, NEW stages
  PROVE  /\ Shape(FailRun(r))
         /\ Agrees(FailRun(r), status, stages)
<1>1. FailRun(r).up = 1
  BY DEF FailRun, Save, Runs
<1>2. QED
  BY <1>1, FailRunType DEF Shape, Agrees, Midway, Saving, Earlier

LEMMA FinishRunKeeps ==
  ASSUME NEW r \in Runs, NEW status, NEW stages, status = "processing",
         \A s \in Stages : r.results[s] # "empty"
  PROVE  /\ Shape(FinishRun(r))
         /\ Agrees(FinishRun(r), status, stages)
<1>1. FinishRun(r).up = 1
  BY DEF FinishRun, Save, Runs
<1>2. QED
  BY <1>1, FinishRunType DEF Shape, Agrees, Midway, Saving, Earlier

\* The loop goes on with the next stage, or is over and every stage has a
\* result.
LEMMA AttachKeeps ==
  ASSUME NEW r \in Runs, NEW status, NEW stages, status = "processing",
         NEW result \in {"ok", "error"},
         r.status = "processing",
         \A s \in Stages : s < r.at => r.results[s] # "empty"
  PROVE  /\ Shape(Attach(r, result))
         /\ Agrees(Attach(r, result), status, stages)
<1> DEFINE q == Attach(r, result)
<1>1. result \in Results /\ result # "empty"
  BY DEF Results
<1>2. /\ q.pc \in {"generate", "report"}
      /\ q.status = "processing"
      /\ q.results = [r.results EXCEPT ![r.at] = result]
  BY <1>1, AttachType
<1>3. r.at \in Stages /\ r.results \in [Stages -> Results]
  BY DEF Runs
<1>4. Stages = 1..NStages /\ NStages \in Nat
  BY NStagesAssumption DEF Stages
<1>5. \/ q.pc = "generate" /\ q.at = r.at + 1
      \/ q.pc = "report" /\ q.at = r.at /\ r.at = NStages
  BY <1>3, <1>4 DEF Attach, Runs
<1> HIDE DEF q
<1>6. \A s \in Stages : s <= r.at => q.results[s] # "empty"
  BY <1>1, <1>2, <1>3, <1>4
<1>7. \A s \in Stages : s < q.at => q.results[s] # "empty"
  BY <1>3, <1>4, <1>5, <1>6
<1>8. q.pc = "report" => \A s \in Stages : q.results[s] # "empty"
  BY <1>4, <1>5, <1>6
<1>9. Shape(q) /\ Agrees(q, status, stages)
  BY <1>2, <1>7, <1>8 DEF Shape, Agrees, Midway, Saving, Earlier
<1>10. QED
  BY <1>9 DEF q

LEMMA GoesOnKeeps ==
  ASSUME NEW r \in Runs, NEW status, NEW stages, status = "processing",
         NEW pc \in Midway \ {"report"},
         r.status = "processing",
         \A s \in Stages : s < r.at => r.results[s] # "empty"
  PROVE  /\ Shape([r EXCEPT !.pc = pc])
         /\ Agrees([r EXCEPT !.pc = pc], status, stages)
BY DEF Runs, Shape, Agrees, Midway, Saving, Earlier

\* After the last upsert of a save.
LEMMA SavedKeeps ==
  ASSUME NEW r \in Runs, Shape(r), NEW stages, r.pc = "upsert",
         \A s \in Stages : stages[s] = r.results[s]
  PROVE  /\ Shape(Saved(r))
         /\ Agrees(Saved(r), r.status, stages)
<1>1. CASE r.point \in {"started", "researched", "scored", "detected"}
  <2>1. /\ r.status = "processing"
        /\ \A s \in Stages : s < r.at => r.results[s] # "empty"
    BY <1>1 DEF Shape, Saving, Earlier
  <2>2. \E pc \in Midway \ {"report"} : Saved(r) = [r EXCEPT !.pc = pc]
    BY <1>1 DEF Saved, Midway
  <2>3. QED
    BY <2>1, <2>2, GoesOnKeeps
<1>2. CASE r.point = "reported"
  <2>1. /\ r.status = "processing"
        /\ \A s \in Stages : r.results[s] # "empty"
    BY <1>2 DEF Shape, Saving, Earlier
  <2>2. Saved(r) = FinishRun(r)
    BY <1>2 DEF Saved
  <2>3. QED
    BY <2>1, <2>2, FinishRunKeeps
<1>3. CASE r.point \in {"finished", "failed"}
  <2>1. Saved(r) = [r EXCEPT !.pc = "announce"]
    BY <1>3 DEF Saved
  <2>2. QED
    BY <1>3, <2>1 DEF Runs, Shape, Agrees, Midway, Saving, Earlier
<1>4. QED
  BY <1>1, <1>2, <1>3 DEF Runs, Points

LEMMA SaveThrewKeeps ==
  ASSUME NEW r \in Runs, Shape(r), NEW status, NEW stages,
         r.pc \in {"update", "upsert"}
  PROVE  /\ Shape(SaveThrew(r))
         /\ Busy(r)
         /\ Agrees(r, status, stages) => Agrees(SaveThrew(r), status, stages)
<1>1. Busy(r)
  BY DEF Busy, Saving
<1>2. CASE r.point \in {"started", "finished"}
  <2>1. SaveThrew(r) = FailRun(r)
    BY <1>2 DEF SaveThrew
  <2>2. QED
    BY <1>1, <2>1, FailRunKeeps
<1>3. CASE r.point = "failed"
  <2>1. SaveThrew(r) = [r EXCEPT !.pc = "unsaved"]
    BY <1>3 DEF SaveThrew
  <2>2. QED
    BY <1>1, <2>1 DEF Runs, Shape, Agrees, Midway, Saving, Earlier
<1>4. CASE r.point \in {"researched", "scored", "detected", "reported"}
  <2>1. /\ r.status = "processing"
        /\ \A s \in Stages : s < r.at => r.results[s] # "empty"
        /\ r.point = "reported" => \A s \in Stages : r.results[s] # "empty"
    BY <1>4 DEF Shape, Saving, Earlier
  <2>2. Agrees(r, status, stages) => status = "processing"
    BY <1>4, <2>1 DEF Agrees, Earlier
  <2>3. CASE r.point \in {"researched", "detected"}
    <3>1. \E pc \in Midway \ {"report"} : SaveThrew(r) = [r EXCEPT !.pc = pc]
      BY <2>3 DEF SaveThrew, Midway
    <3>2. QED
      BY <1>1, <2>1, <2>2, <3>1, GoesOnKeeps
  <2>4. CASE r.point = "scored"
    <3>1. SaveThrew(r) = Attach(r, "error")
      BY <2>4 DEF SaveThrew
    <3>2. QED
      BY <1>1, <2>1, <2>2, <3>1, AttachKeeps
  <2>5. CASE r.point = "reported"
    <3>1. SaveThrew(r) = FinishRun(r)
      BY <2>5 DEF SaveThrew
    <3>2. QED
      BY <1>1, <2>1, <2>2, <2>5, <3>1, FinishRunKeeps
  <2>6. QED
    BY <1>4, <2>3, <2>4, <2>5
<1>5. QED
  BY <1>2, <1>3, <1>4 DEF Runs, Points

----------------------------------------------------------------------------
(* The steps.                                                              *)

\* A step that leaves the runs alone, and the rows and jobs they hold.
LEMMA OutsideStep ==
  ASSUME RefInv, TypeInv', work' = work,
         \A w \in Workers :
           work[w].pc # "idle" => job'[work[w].c] = job[work[w].c],
         \A c \in Campaigns : tx[c] = "committed" =>
           /\ tx'[c] = "committed"
           /\ row'[c] # "absent" =>
                row'[c] = row[c] /\ stageRow'[c] = stageRow[c],
         \A c \in Campaigns : row'[c] # "absent" => tx'[c] = "committed"
  PROVE  RefInv'
<1>1. RowInv'
  BY DEF RowInv
<1>2. ASSUME NEW w \in Workers
      PROVE  Holds(w)' /\ RunInv(w)'
  <2>1. Holds(w) /\ RunInv(w)
    BY DEF RefInv
  <2>2. work[w].pc # "idle" => work[w].c \in Campaigns
    BY DEF RefInv, TypeInv, WellFormed
  <2>3. Busy(work[w]) => work[w].pc # "idle"
    BY DEF Busy, Midway, Saving
  <2>4. Holds(w)'
    BY <2>1 DEF Holds
  <2>5. QED
    BY <2>1, <2>2, <2>3, <2>4 DEF RunInv
<1>3. QED
  BY <1>1, <1>2 DEF RefInv

\* Two slots never run the same campaign.
LEMMA Alone ==
  ASSUME RefInv, NEW v \in Workers, NEW w \in Workers, v # w,
         work[v].pc # "idle", work[w].pc # "idle"
  PROVE  work[v].c # work[w].c
BY DEF RefInv, Holds

\* A step of one slot, which may write the rows and the job of its campaign.
LEMMA OwnStep ==
  ASSUME RefInv, TypeInv', NEW w \in Workers, work[w].pc # "idle",
         NEW c, c = work[w].c,
         NEW q, work' = [work EXCEPT ![w] = q],
         \/ q.pc = "idle"
         \/ q.c = c /\ job'[c] = job[c],
         Shape(q),
         Busy(q) => tx[c] = "committed",
         Busy(q) /\ row'[c] # "absent" => Agrees(q, row'[c], stageRow'[c]),
         tx' = tx,
         row'[c] # "absent" => row[c] # "absent",
         \A d \in Campaigns \ {c} :
           row'[d] = row[d] /\ stageRow'[d] = stageRow[d] /\ job'[d] = job[d]
  PROVE  RefInv'
<1>1. work'[w] = q /\ \A v \in Workers \ {w} : work'[v] = work[v]
  BY DEF RefInv, TypeInv, TypeOK
<1>2. RowInv'
  BY DEF RowInv, RefInv
<1>3. ASSUME NEW v \in Workers \ {w}
      PROVE  Holds(v)' /\ RunInv(v)'
  <2>1. Holds(v) /\ RunInv(v)
    BY DEF RefInv
  <2>2. work[v].pc # "idle" => work[v].c \in Campaigns \ {c}
    BY Alone DEF RefInv, TypeInv, WellFormed
  <2>3. Busy(work[v]) => work[v].pc # "idle"
    BY DEF Busy, Midway, Saving
  <2>4. Holds(v)'
    BY <1>1, <2>1, <2>2 DEF Holds
  <2>5. QED
    BY <1>1, <2>1, <2>2, <2>3, <2>4 DEF RunInv
<1>4. Busy(q) => q.pc # "idle"
  BY DEF Busy, Midway, Saving
<1>5. Holds(w)'
  BY <1>1 DEF Holds, RefInv
<1>6. RunInv(w)'
  BY <1>1, <1>4 DEF RunInv
<1>7. QED
  BY <1>2, <1>3, <1>5, <1>6 DEF RefInv

LEMMA IdleKeeps == Shape(Idle) /\ ~Busy(Idle)
BY DEF Idle, Shape, Busy, Midway, Saving

LEMMA RefInit == Init => RefInv
<1> SUFFICES ASSUME Init PROVE RefInv
  OBVIOUS
<1>1. TypeInv
  BY TypeInit
<1>2. \A w \in Workers : work[w] = Idle
  BY DEF Init
<1>3. Idle.pc = "idle"
  BY DEF Idle
<1>4. RowInv
  BY DEF Init, RowInv
<1>5. QED
  BY <1>1, <1>2, <1>3, <1>4, IdleKeeps DEF RefInv, Holds, RunInv

LEMMA RequestRef ==
  ASSUME RefInv, TypeInv', NEW c \in Campaigns,
         \/ Request(c) \/ CommitRequest(c) \/ RollbackRequest(c) \/ Delete(c)
  PROVE  RefInv'
<1>1. /\ tx \in [Campaigns -> {"none", "open", "committed", "aborted"}]
      /\ DOMAIN row = Campaigns /\ DOMAIN stageRow = Campaigns
      /\ \A d \in Campaigns : row[d] # "absent" => tx[d] = "committed"
  BY DEF RefInv, RowInv, TypeInv, TypeOK
<1>2. work' = work /\ job' = job
  BY DEF Request, CommitRequest, RollbackRequest, Delete, requestVars
<1>3. \A d \in Campaigns : tx[d] = "committed" =>
           /\ tx'[d] = "committed"
           /\ row'[d] # "absent" =>
                row'[d] = row[d] /\ stageRow'[d] = stageRow[d]
  BY <1>1 DEF Request, CommitRequest, RollbackRequest, Delete, requestVars, dbVars,
              TypeInv, TypeOK
<1>4. \A d \in Campaigns : row'[d] # "absent" => tx'[d] = "committed"
  BY <1>1 DEF Request, CommitRequest, RollbackRequest, Delete, requestVars, dbVars,
              TypeInv, TypeOK
<1>5. QED
  BY <1>2, <1>3, <1>4, OutsideStep

\* A job that is not active is nobody's, and neither is one that is lost.
LEMMA QueueRef ==
  ASSUME RefInv, TypeInv', NEW c \in Campaigns,
         Enqueue(c) \/ EnqueueFails(c) \/ Stalled(c)
  PROVE  RefInv'
<1>1. work' = work /\ UNCHANGED <<tx, row, stageRow>>
  BY DEF Enqueue, EnqueueFails, Stalled, Redeliver, requestVars, dbVars
<1>2. \A w \in Workers : work[w].pc # "idle" =>
        work[w].c \in Campaigns /\ job[work[w].c].st = "active"
  BY DEF RefInv, Holds, TypeInv, WellFormed
<1>3. job \in [Campaigns -> Jobs]
  BY DEF RefInv, TypeInv, TypeOK
<1>4. \A w \in Workers :
        work[w].pc # "idle" => job'[work[w].c] = job[work[w].c]
  BY <1>2, <1>3 DEF Enqueue, EnqueueFails, Stalled, Lost, Redeliver
<1>5. RowInv
  BY DEF RefInv
<1>6. QED
  BY <1>1, <1>4, <1>5, OutsideStep DEF RowInv

LEMMA CrashRef ==
  ASSUME RefInv, TypeInv', Crash
  PROVE  RefInv'
<1>1. \A w \in Workers : work'[w] = Idle
  BY DEF Crash
<1>2. Idle.pc = "idle"
  BY DEF Idle
<1>3. RowInv'
  BY DEF Crash, RefInv, RowInv, dbVars
<1>4. QED
  BY <1>1, <1>2, <1>3, IdleKeeps DEF RefInv, Holds, RunInv

LEMMA TakeRef ==
  ASSUME RefInv, TypeInv', NEW w \in Workers, NEW c \in Campaigns, Take(w, c)
  PROVE  RefInv'
<1> DEFINE q == [Idle EXCEPT !.pc = "load", !.c = c]
<1>1. /\ q.pc = "load"
      /\ q.c = c
      /\ q.at = 1
  BY DEF Idle
<1>2. work'[w] = q /\ \A v \in Workers \ {w} : work'[v] = work[v]
  BY DEF Take, RefInv, TypeInv, TypeOK
<1> HIDE DEF q
<1>3. Shape(q) /\ ~Busy(q)
  BY <1>1 DEF Shape, Busy, Midway, Saving
<1>4. /\ job[c].st = "waiting"
      /\ job[c] \in Jobs
      /\ job' = [job EXCEPT ![c] = [job[c] EXCEPT !.st = "active", !.by = w]]
  BY DEF Take, RefInv, TypeInv, TypeOK
<1>5. job'[c].st = "active" /\ job'[c].by = w
  BY <1>4 DEF RefInv, TypeInv, TypeOK, Jobs
<1>6. UNCHANGED <<tx, row, stageRow>>
  BY DEF Take, requestVars, dbVars
<1>7. ASSUME NEW v \in Workers \ {w}
      PROVE  Holds(v)' /\ RunInv(v)'
  <2>1. Holds(v) /\ RunInv(v)
    BY DEF RefInv
  <2>2. work[v].pc # "idle" => work[v].c \in Campaigns \ {c}
    BY <1>4, <2>1 DEF Holds, RefInv, TypeInv, WellFormed
  <2>3. Holds(v)'
    BY <1>2, <1>4, <2>1, <2>2 DEF Holds, RefInv, TypeInv, TypeOK
  <2>4. QED
    BY <1>2, <1>6, <2>1, <2>3 DEF RunInv
<1>8. Holds(w)' /\ RunInv(w)'
  BY <1>1, <1>2, <1>3, <1>5 DEF Holds, RunInv
<1>9. RowInv'
  BY <1>6 DEF RowInv, RefInv
<1>10. QED
  BY <1>7, <1>8, <1>9 DEF RefInv

\* What the invariant says of the slot that takes a step.
LEMMA Known ==
  ASSUME RefInv, NEW w \in Workers, work[w].pc # "idle"
  PROVE  /\ work[w] \in Runs
         /\ work[w].c \in Campaigns
         /\ Shape(work[w])
         /\ Busy(work[w]) => tx[work[w].c] = "committed"
         /\ Busy(work[w]) /\ row[work[w].c] # "absent" =>
              Agrees(work[w], row[work[w].c], stageRow[work[w].c])
         /\ row[work[w].c] # "absent" => tx[work[w].c] = "committed"
BY DEF RefInv, RowInv, RunInv, TypeInv, TypeOK, WellFormed

\* A step that only changes the memory of its slot.
LEMMA MemoryStep ==
  ASSUME RefInv, TypeInv', NEW w \in Workers, Busy(work[w]),
         NEW q, work' = [work EXCEPT ![w] = q], q.c = work[w].c,
         UNCHANGED <<tx, row, stageRow, job>>,
         Shape(q),
         row[work[w].c] # "absent" => Agrees(q, row[work[w].c], stageRow[work[w].c])
  PROVE  RefInv'
<1>1. work[w].pc # "idle"
  BY DEF Busy, Midway, Saving
<1>2. tx[work[w].c] = "committed"
  BY <1>1, Known
<1>3. QED
  BY <1>1, <1>2, OwnStep

\* In the middle of a run the status is "processing", in memory and, unless
\* the campaign has been deleted, in the row.
LEMMA MidwayStatus ==
  ASSUME RefInv, NEW w \in Workers, work[w].pc \in Midway
  PROVE  /\ work[w].pc # "idle" /\ Busy(work[w])
         /\ work[w].status = "processing"
         /\ \A s \in Stages : s < work[w].at => work[w].results[s] # "empty"
         /\ row[work[w].c] # "absent" => row[work[w].c] = "processing"
<1>1. work[w].pc # "idle" /\ Busy(work[w])
  BY DEF Busy, Midway
<1>2. QED
  BY <1>1, Known DEF Shape, Agrees

LEMMA OptionalRef ==
  ASSUME RefInv, TypeInv', NEW w \in Workers,
         \/ Research(w) \/ ResearchFails(w) \/ Generate(w)
         \/ Detect(w) \/ DetectFails(w) \/ UploadZip(w)
  PROVE  RefInv'
<1> DEFINE r == work[w]
<1>1. r.pc \in Midway \ {"report"}
  BY DEF Research, ResearchFails, Generate, Detect, DetectFails, UploadZip, Midway
<1>2. /\ r \in Runs /\ Shape(r) /\ Busy(r)
      /\ r.status = "processing"
      /\ \A s \in Stages : s < r.at => r.results[s] # "empty"
      /\ row[r.c] # "absent" => row[r.c] = "processing"
  BY <1>1, MidwayStatus, Known
<1>3. UNCHANGED <<tx, row, stageRow, job>>
  BY DEF Research, ResearchFails, Generate, Detect, DetectFails, UploadZip,
         requestVars, dbVars
<1>4. CASE Research(w) \/ Generate(w) \/ Detect(w)
  <2>1. PICK point \in {"researched", "scored", "detected"} :
          work' = [work EXCEPT ![w] = Save(r, point)]
    BY <1>4 DEF Research, Generate, Detect
  <2>2. Save(r, point).c = r.c
    BY <1>2, SaveType DEF Points
  <2>3. /\ Shape(Save(r, point))
        /\ Agrees(Save(r, point), "processing", stageRow[r.c])
    BY <1>1, <1>2, SaveKeeps
  <2>4. QED
    BY <1>2, <1>3, <2>1, <2>2, <2>3, MemoryStep
<1>5. CASE ResearchFails(w) \/ DetectFails(w) \/ UploadZip(w)
  <2>1. PICK pc \in Midway \ {"report"} :
          work' = [work EXCEPT ![w] = [r EXCEPT !.pc = pc]]
    BY <1>5 DEF ResearchFails, DetectFails, UploadZip, Midway
  <2>2. [r EXCEPT !.pc = pc].c = r.c
    BY <1>2 DEF Runs
  <2>3. /\ Shape([r EXCEPT !.pc = pc])
        /\ Agrees([r EXCEPT !.pc = pc], "processing", stageRow[r.c])
    BY <1>2, GoesOnKeeps
  <2>4. QED
    BY <1>2, <1>3, <2>1, <2>2, <2>3, MemoryStep
<1>6. QED
  BY <1>4, <1>5

LEMMA StageRef ==
  ASSUME RefInv, TypeInv', NEW w \in Workers, AttachZip(w) \/ StageFails(w)
  PROVE  RefInv'
<1> DEFINE r == work[w]
<1>1. r.pc \in Midway
  BY DEF AttachZip, StageFails, Midway
<1>2. /\ r \in Runs /\ Busy(r)
      /\ r.status = "processing"
      /\ \A s \in Stages : s < r.at => r.results[s] # "empty"
      /\ row[r.c] # "absent" => row[r.c] = "processing"
  BY <1>1, MidwayStatus, Known
<1>3. UNCHANGED <<tx, row, stageRow, job>>
  BY DEF AttachZip, StageFails, requestVars, dbVars
<1>4. PICK result \in {"ok", "error"} : work' = [work EXCEPT ![w] = Attach(r, result)]
  BY DEF AttachZip, StageFails
<1>5. Attach(r, result).c = r.c
  BY <1>2, AttachType DEF Results
<1>6. /\ Shape(Attach(r, result))
      /\ Agrees(Attach(r, result), "processing", stageRow[r.c])
  BY <1>2, AttachKeeps
<1>7. QED
  BY <1>2, <1>3, <1>4, <1>5, <1>6, MemoryStep

LEMMA ReportRef ==
  ASSUME RefInv, TypeInv', NEW w \in Workers, UploadReport(w) \/ ReportFails(w)
  PROVE  RefInv'
<1> DEFINE r == work[w]
           p == [r EXCEPT !.report = TRUE]
<1>1. r.pc = "report" /\ r.pc \in Midway
  BY DEF UploadReport, ReportFails, Midway
<1>2. /\ r \in Runs /\ Busy(r)
      /\ r.status = "processing"
      /\ \A s \in Stages : r.results[s] # "empty"
      /\ row[r.c] # "absent" => row[r.c] = "processing"
  BY <1>1, MidwayStatus, Known DEF Shape
<1>3. UNCHANGED <<tx, row, stageRow, job>>
  BY DEF UploadReport, ReportFails, requestVars, dbVars
<1>4. CASE UploadReport(w)
  <2>1. /\ p \in Runs
        /\ p.c = r.c
        /\ p.status = "processing"
        /\ p.results = r.results
    BY <1>2 DEF Runs
  <2>2. work' = [work EXCEPT ![w] = Save(p, "reported")]
    BY <1>4 DEF UploadReport
  <2> HIDE DEF p
  <2>3. Save(p, "reported").up = 1
    BY <2>1 DEF Save, Runs
  <2>4. /\ Save(p, "reported").c = r.c
        /\ Shape(Save(p, "reported"))
        /\ Agrees(Save(p, "reported"), "processing", stageRow[r.c])
    BY <1>2, <2>1, <2>3, SaveType
       DEF Points, Shape, Agrees, Midway, Saving, Earlier
  <2>5. QED
    BY <1>2, <1>3, <2>2, <2>4, MemoryStep
<1>5. CASE ReportFails(w)
  <2>1. work' = [work EXCEPT ![w] = FinishRun(r)]
    BY <1>5 DEF ReportFails
  <2>2. FinishRun(r).c = r.c
    BY <1>2, FinishRunType
  <2>3. /\ Shape(FinishRun(r))
        /\ Agrees(FinishRun(r), "processing", stageRow[r.c])
    BY <1>2, FinishRunKeeps
  <2>4. QED
    BY <1>2, <1>3, <2>1, <2>2, <2>3, MemoryStep
<1>6. QED
  BY <1>4, <1>5

LEMMA SaveThrowsRef ==
  ASSUME RefInv, TypeInv', NEW w \in Workers, SaveThrows(w)
  PROVE  RefInv'
<1>1. work[w].pc \in {"update", "upsert"} /\ work[w].pc # "idle"
  BY DEF SaveThrows
<1>2. work[w] \in Runs /\ WellFormed(work[w]) /\ Shape(work[w])
  BY <1>1, Known DEF RefInv, TypeInv
<1>3. SaveThrew(work[w]).c = work[w].c
  BY <1>1, <1>2, SaveThrewContinues DEF Continues
<1>4. /\ Busy(work[w])
      /\ Shape(SaveThrew(work[w]))
      /\ row[work[w].c] # "absent" =>
           Agrees(SaveThrew(work[w]), row[work[w].c], stageRow[work[w].c])
  BY <1>1, <1>2, Known, SaveThrewKeeps
<1>5. /\ UNCHANGED <<tx, row, stageRow, job>>
      /\ work' = [work EXCEPT ![w] = SaveThrew(work[w])]
  BY DEF SaveThrows, requestVars, dbVars
<1>6. QED
  BY <1>3, <1>4, <1>5, MemoryStep

\* Only a campaign that is pending or processing goes on to processing.
LEMMA Transition ==
  ASSUME NEW status \in Statuses, canTransitionTo(status, "processing")
  PROVE  status \in {"pending", "processing"}
BY DEF Statuses, Terminal, canTransitionTo, Rank, isTerminal

LEMMA LoadRef ==
  ASSUME RefInv, TypeInv', NEW w \in Workers, Load(w)
  PROVE  RefInv'
<1> DEFINE c == work[w].c
           r == [work[w] EXCEPT !.status = row[c], !.results = stageRow[c],
                                !.report = reportRow[c]]
           p == [r EXCEPT !.status = "processing"]
<1>1. work[w].pc = "load" /\ work[w].pc # "idle"
  BY DEF Load
<1>2. /\ work[w] \in Runs /\ c \in Campaigns /\ Shape(work[w])
      /\ row[c] # "absent" => tx[c] = "committed"
  BY <1>1, Known
<1>3. UNCHANGED <<tx, row, stageRow, job>>
  BY DEF Load, requestVars, dbVars
<1>4. CASE row[c] = "absent"
  <2> DEFINE q == [work[w] EXCEPT !.pc = "return"]
  <2>1. q.pc = "return" /\ q.c = c
    BY <1>2 DEF Runs
  <2>2. work' = [work EXCEPT ![w] = q]
    BY <1>4 DEF Load
  <2> HIDE DEF q
  <2>3. Shape(q) /\ ~Busy(q)
    BY <2>1 DEF Shape, Busy, Midway, Saving
  <2>4. QED
    BY <1>1, <1>3, <2>1, <2>2, <2>3, OwnStep
<1>5. CASE row[c] # "absent"
  <2>1. /\ row[c] \in Statuses
        /\ stageRow[c] \in [Stages -> Results]
        /\ reportRow[c] \in BOOLEAN
    BY <1>2, <1>5 DEF RefInv, TypeInv, TypeOK
  <2>2. r \in Runs /\ r.c = c /\ r.at = 1
    BY <1>1, <1>2, <2>1 DEF Runs, Shape
  <2>3. "processing" \in Statuses
    BY DEF Statuses
  <2>4. p \in Runs /\ p.c = c /\ p.at = 1 /\ p.status = "processing"
    BY <2>2, <2>3 DEF Runs
  <2>5. CASE canTransitionTo(row[c], "processing")
    <3>1. work' = [work EXCEPT ![w] = Save(p, "started")]
      BY <1>5, <2>5 DEF Load
    <3>2. row[c] \in {"pending", "processing"}
      BY <2>1, <2>5, Transition
    <3> HIDE DEF p
    <3>3. Save(p, "started").at = 1 /\ Save(p, "started").up = 1
      BY <2>4 DEF Save, Runs
    <3>4. /\ Save(p, "started").c = c
          /\ Save(p, "started").pc = "update"
          /\ Save(p, "started").point = "started"
          /\ Save(p, "started").status = "processing"
      BY <2>4, SaveType DEF Points
    <3>5. \A s \in Stages : ~(s < 1)
      BY NStagesAssumption DEF Stages
    <3>6. Shape(Save(p, "started")) /\ Agrees(Save(p, "started"), row[c], stageRow[c])
      BY <3>2, <3>3, <3>4, <3>5 DEF Shape, Agrees, Midway, Saving, Earlier
    <3>7. QED
      BY <1>1, <1>2, <1>3, <1>5, <3>1, <3>4, <3>6, OwnStep
  <2>6. CASE ~canTransitionTo(row[c], "processing")
    <3>1. work' = [work EXCEPT ![w] = FailRun(r)]
      BY <1>5, <2>6 DEF Load
    <3> HIDE DEF r
    <3>2. FailRun(r).c = c
      BY <2>2, FailRunType
    <3>3. Shape(FailRun(r)) /\ Agrees(FailRun(r), row[c], stageRow[c])
      BY <2>2, FailRunKeeps
    <3>4. QED
      BY <1>1, <1>2, <1>3, <1>5, <3>1, <3>2, <3>3, OwnStep
  <2>7. QED
    BY <2>5, <2>6
<1>6. QED
  BY <1>4, <1>5

LEMMA UpdateRowRef ==
  ASSUME RefInv, TypeInv', NEW w \in Workers, UpdateRow(w)
  PROVE  RefInv'
<1> DEFINE r == work[w]
           q == [r EXCEPT !.pc = "upsert"]
<1>1. r.pc = "update" /\ r.pc # "idle" /\ Busy(r) /\ row[r.c] # "absent"
  BY DEF UpdateRow, Busy, Saving
<1>2. /\ r \in Runs /\ r.c \in Campaigns /\ Shape(r)
      /\ tx[r.c] = "committed"
  BY <1>1, Known
<1>3. /\ work' = [work EXCEPT ![w] = q]
      /\ row' = [row EXCEPT ![r.c] = r.status]
      /\ UNCHANGED <<tx, stageRow, job>>
  BY DEF UpdateRow, requestVars
<1>4. /\ row'[r.c] = r.status
      /\ \A d \in Campaigns \ {r.c} : row'[d] = row[d]
  BY <1>2, <1>3 DEF RefInv, TypeInv, TypeOK
<1>5. /\ q.pc = "upsert" /\ q.c = r.c /\ q.up = 1 /\ q.at = r.at
      /\ q.status = r.status /\ q.results = r.results /\ q.point = r.point
  BY <1>1, <1>2 DEF Runs, Shape
<1> HIDE DEF q
<1>6. Shape(q)
  BY <1>1, <1>2, <1>5 DEF Shape, Midway, Saving
<1>7. \A s \in Stages : ~(s < 1)
  BY NStagesAssumption DEF Stages
<1>8. Agrees(q, row'[r.c], stageRow'[r.c])
  BY <1>4, <1>5, <1>7 DEF Agrees, Midway
<1>9. /\ work[w].pc # "idle" /\ r.c = work[w].c
      /\ q.c = r.c /\ job'[r.c] = job[r.c]
      /\ work' = [work EXCEPT ![w] = q]
      /\ tx' = tx /\ tx[r.c] = "committed" /\ row[r.c] # "absent"
  BY <1>1, <1>2, <1>3, <1>5
<1>10. \A d \in Campaigns \ {r.c} :
         row'[d] = row[d] /\ stageRow'[d] = stageRow[d] /\ job'[d] = job[d]
  BY <1>3, <1>4
<1> HIDE DEF r
<1>11. QED
  BY <1>6, <1>8, <1>9, <1>10, OwnStep

LEMMA UpsertStageRef ==
  ASSUME RefInv, TypeInv', NEW w \in Workers, UpsertStage(w)
  PROVE  RefInv'
<1> DEFINE r == work[w]
           c == work[w].c
           more == [r EXCEPT !.up = r.up + 1]
<1>1. r.pc = "upsert" /\ r.pc # "idle" /\ Busy(r) /\ row[c] # "absent"
  BY DEF UpsertStage, Busy, Saving
<1>2. /\ r \in Runs /\ c \in Campaigns /\ Shape(r) /\ WellFormed(r)
      /\ tx[c] = "committed"
      /\ Agrees(r, row[c], stageRow[c])
  BY <1>1, Known DEF RefInv, TypeInv
<1>3. /\ stageRow' = [stageRow EXCEPT ![c][r.up] = r.results[r.up]]
      /\ UNCHANGED <<tx, row, job>>
      /\ work' = [work EXCEPT ![w] = IF r.up < NStages THEN more ELSE Saved(r)]
  BY DEF UpsertStage, requestVars
<1>4. stageRow \in [Campaigns -> [Stages -> Results]]
  BY DEF RefInv, TypeInv, TypeOK
<1>5. /\ \A d \in Campaigns \ {c} : stageRow'[d] = stageRow[d]
      /\ stageRow'[c] = [stageRow[c] EXCEPT ![r.up] = r.results[r.up]]
  BY <1>2, <1>3, <1>4
<1>6. /\ r.up \in Stages /\ Stages = 1..NStages /\ NStages \in Nat
      /\ \A s \in Stages : s < r.up => stageRow[c][s] = r.results[s]
      /\ row[c] = r.status
  BY <1>1, <1>2, NStagesAssumption DEF Stages, Runs, Agrees
<1>7. \A s \in Stages : s <= r.up => stageRow'[c][s] = r.results[s]
  BY <1>2, <1>4, <1>5, <1>6
<1>8. /\ work[w].pc # "idle" /\ c = work[w].c
       /\ tx' = tx /\ tx[c] = "committed" /\ row[c] # "absent"
       /\ job'[c] = job[c]
  BY <1>1, <1>2, <1>3
<1>9. \A d \in Campaigns \ {c} :
         row'[d] = row[d] /\ stageRow'[d] = stageRow[d] /\ job'[d] = job[d]
  BY <1>3, <1>5
<1>10. CASE r.up < NStages
  <2>1. /\ more.pc = "upsert" /\ more.c = c /\ more.up = r.up + 1
        /\ more.at = r.at /\ more.status = r.status
        /\ more.results = r.results /\ more.point = r.point
    BY <1>1, <1>2 DEF Runs
  <2>2. work' = [work EXCEPT ![w] = more]
    BY <1>3, <1>10
  <2> HIDE DEF more
  <2>3. Shape(more)
    BY <1>1, <1>2, <2>1 DEF Shape, Midway, Saving
  <2>4. \A s \in Stages : s < more.up => stageRow'[c][s] = r.results[s]
    BY <1>6, <1>7, <2>1
  <2>5. Agrees(more, row'[c], stageRow'[c])
    BY <1>3, <1>6, <2>1, <2>4 DEF Agrees, Midway
  <2>6. more.c = c
    BY <2>1
  <2>7. QED
    BY <1>8, <1>9, <2>2, <2>3, <2>5, <2>6, OwnStep
<1>11. CASE ~(r.up < NStages)
  <2>1. \A s \in Stages : stageRow'[c][s] = r.results[s]
    BY <1>6, <1>7, <1>11
  <2>2. Shape(Saved(r)) /\ Agrees(Saved(r), row'[c], stageRow'[c])
    BY <1>1, <1>2, <1>3, <1>6, <2>1, SavedKeeps
  <2>3. Saved(r).c = c
    BY <1>1, <1>2, SavedContinues DEF Continues
  <2>4. work' = [work EXCEPT ![w] = Saved(r)]
    BY <1>3, <1>11
  <2> HIDE DEF r, c
  <2>5. QED
    BY <1>8, <1>9, <2>2, <2>3, <2>4, OwnStep
<1>12. QED
  BY <1>10, <1>11

LEMMA EndRef ==
  ASSUME RefInv, TypeInv', NEW w \in Workers,
         Announce(w) \/ Return(w) \/ LoadThrows(w)
  PROVE  RefInv'
<1> DEFINE c == work[w].c
<1>1. work[w].pc # "idle"
  BY DEF Announce, Return, LoadThrows
<1>2. work[w] \in Runs /\ c \in Campaigns
  BY <1>1, Known
<1>3. UNCHANGED <<tx, row, stageRow>>
  BY DEF Announce, Return, LoadThrows, requestVars, dbVars
<1>4. CASE Announce(w)
  <2> DEFINE q == [work[w] EXCEPT !.pc = "return"]
  <2>1. work' = [work EXCEPT ![w] = q] /\ job' = job
    BY <1>4 DEF Announce
  <2>2. q.pc = "return" /\ q.c = c
    BY <1>2 DEF Runs
  <2> HIDE DEF q
  <2>3. Shape(q) /\ ~Busy(q)
    BY <2>2 DEF Shape, Busy, Midway, Saving
  <2>4. QED
    BY <1>1, <1>3, <2>1, <2>2, <2>3, OwnStep
<1>5. CASE Return(w) \/ LoadThrows(w)
  <2>1. work' = [work EXCEPT ![w] = Idle]
    BY <1>5 DEF Return, LoadThrows
  <2>2. \A d \in Campaigns \ {c} : job'[d] = job[d]
    BY <1>5 DEF Return, LoadThrows, RefInv, TypeInv, TypeOK
  <2>3. Idle.pc = "idle"
    BY DEF Idle
  <2>4. QED
    BY <1>1, <1>3, <2>1, <2>2, <2>3, IdleKeeps, OwnStep
<1>6. QED
  BY <1>4, <1>5

LEMMA RefStep == RefInv /\ [Next]_vars => RefInv'
<1> SUFFICES ASSUME RefInv, [Next]_vars PROVE RefInv'
  OBVIOUS
<1>1. TypeInv /\ [OverlapNext]_vars
  BY DEF RefInv, OverlapNext
<1>2. TypeInv'
  BY <1>1, TypeStep
<1>3. CASE UNCHANGED vars
  BY <1>2, <1>3 DEF vars, RefInv, RowInv, Holds, RunInv
<1>4. CASE \E c \in Campaigns :
             \/ Request(c) \/ CommitRequest(c) \/ RollbackRequest(c)
             \/ Enqueue(c) \/ EnqueueFails(c) \/ Delete(c) \/ Stalled(c)
  BY <1>2, <1>4, RequestRef, QueueRef
<1>5. CASE \E w \in Workers, c \in Campaigns : Take(w, c)
  BY <1>2, <1>5, TakeRef
<1>6. CASE \E w \in Workers : Step(w) \/ LoadThrows(w)
  BY <1>2, <1>6, LoadRef, UpdateRowRef, UpsertStageRef, SaveThrowsRef, OptionalRef,
     StageRef, ReportRef, EndRef DEF Step
<1>7. CASE Crash
  BY <1>2, <1>7, CrashRef
<1>8. QED
  BY <1>3, <1>4, <1>5, <1>6, <1>7 DEF Next

----------------------------------------------------------------------------
(* What is announced has been stored.                                      *)

LEMMA OutcomeIs ==
  ASSUME NEW results \in [Stages -> Results]
  PROVE  /\ Outcome(results) \in Lifecycle!Outcomes
         /\ Outcome(results) = "completed" =>
              \A s \in Stages : results[s] # "error"
         /\ Outcome(results) = "partial" =>
              /\ \E s \in Stages : results[s] = "ok"
              /\ \E s \in Stages : results[s] = "error"
BY DEF Outcome, Lifecycle!Outcomes

\* Every reachable state of the pipeline satisfies RefInv.
LEMMA AlwaysRefInv == Spec => []RefInv
BY RefInit, RefStep, PTL DEF Spec

LEMMA RefImpliesAnnounced == RefInv => AnnouncedIsStored
<1> SUFFICES ASSUME RefInv, NEW w \in Workers,
                    work[w].pc = "announce", row[work[w].c] # "absent"
             PROVE  LET c == work[w].c
                        o == work[w].status
                    IN  /\ row[c] = o
                        /\ o = "completed" => \A s \in Stages : stageRow[c][s] = "ok"
                        /\ o = "partial" =>
                             /\ \E s \in Stages : stageRow[c][s] = "ok"
                             /\ \E s \in Stages : stageRow[c][s] = "error"
  BY DEF AnnouncedIsStored
<1> DEFINE r == work[w]
           c == work[w].c
<1>1. r.pc # "idle" /\ Busy(r)
  BY DEF Busy, Saving
<1>2. /\ r \in Runs /\ Shape(r)
      /\ Agrees(r, row[c], stageRow[c])
  BY <1>1, Known DEF RefInv, RunInv
<1>3. row[c] = r.status /\ \A s \in Stages : stageRow[c][s] = r.results[s]
  BY <1>2 DEF Agrees
<1>4. /\ r.point = "failed" => r.status = "failed"
      /\ r.point = "finished" =>
           /\ r.status = Outcome(r.results)
           /\ \A s \in Stages : r.results[s] # "empty"
      /\ r.point \in {"finished", "failed"}
  BY <1>2 DEF Shape, Saving
<1>5. r.results \in [Stages -> Results]
  BY <1>2 DEF Runs
<1>6. \A s \in Stages : r.results[s] \in {"empty", "ok", "error"}
  BY <1>5 DEF Results
<1>7. r.status = "completed" => \A s \in Stages : r.results[s] = "ok"
  BY <1>4, <1>5, <1>6, OutcomeIs
<1>8. r.status = "partial" => /\ \E s \in Stages : r.results[s] = "ok"
                              /\ \E s \in Stages : r.results[s] = "error"
  BY <1>4, <1>5, OutcomeIs
<1>9. QED
  BY <1>3, <1>7, <1>8

\* When campaign.export.completed goes out, the row has the announced status
\* and the stage rows are the ones it was derived from: the last save of
\* process() has ended, and no other slot can have written since.
THEOREM AnnouncedCorrect == Spec => []AnnouncedIsStored
BY AlwaysRefInv, RefImpliesAnnounced, PTL

----------------------------------------------------------------------------
(* Every step of the pipeline is a step of the lifecycle or a stutter.     *)

LEMMA LifecycleInit == Init => Lifecycle!Init
BY DEF Init, Lifecycle!Init

LEMMA RequestSteps ==
  ASSUME RefInv, NEW c \in Campaigns,
         \/ Request(c) \/ CommitRequest(c) \/ RollbackRequest(c)
         \/ Enqueue(c) \/ EnqueueFails(c) \/ Delete(c) \/ Stalled(c)
  PROVE  [Lifecycle!Next]_(Lifecycle!vars)
<1>1. tx \in [Campaigns -> {"none", "open", "committed", "aborted"}]
  BY DEF RefInv, TypeInv, TypeOK
<1>2. CASE CommitRequest(c)
  <2>1. {d \in Campaigns : tx'[d] = "committed"} =
          {d \in Campaigns : tx[d] = "committed"} \union {c}
    BY <1>1, <1>2 DEF CommitRequest
  <2>2. tx[c] # "committed"
    BY <1>2 DEF CommitRequest
  <2>3. Lifecycle!Accept(c)
    BY <1>2, <2>1, <2>2 DEF Lifecycle!Accept, CommitRequest, outVars
  <2>4. QED
    BY <2>3 DEF Lifecycle!Next
<1>3. CASE Delete(c)
  BY <1>3 DEF Delete, Lifecycle!Next, Lifecycle!Delete, requestVars, outVars
<1>4. CASE Request(c) \/ RollbackRequest(c)
  <2>1. {d \in Campaigns : tx'[d] = "committed"} =
          {d \in Campaigns : tx[d] = "committed"}
    BY <1>1, <1>4 DEF Request, RollbackRequest
  <2>2. QED
    BY <1>4, <2>1 DEF Request, RollbackRequest, Lifecycle!vars, dbVars, outVars
<1>5. CASE Enqueue(c) \/ EnqueueFails(c) \/ Stalled(c)
  BY <1>5 DEF Enqueue, EnqueueFails, Stalled, Redeliver, Lifecycle!vars,
              dbVars, outVars, requestVars
<1>6. QED
  BY <1>2, <1>3, <1>4, <1>5

LEMMA CrashSteps ==
  ASSUME RefInv, Crash
  PROVE  [Lifecycle!Next]_(Lifecycle!vars)
<1>1. {d \in Campaigns : tx'[d] = "committed"} =
        {d \in Campaigns : tx[d] = "committed"}
  BY DEF Crash, RefInv, TypeInv, TypeOK
<1>2. QED
  BY <1>1 DEF Crash, Lifecycle!vars, dbVars, outVars

\* The save of the status is what a user sees of a run.
LEMMA UpdateRowSteps ==
  ASSUME RefInv, NEW w \in Workers, UpdateRow(w)
  PROVE  [Lifecycle!Next]_(Lifecycle!vars)
<1> DEFINE r == work[w]
           c == work[w].c
<1>1. r.pc = "update" /\ r.pc # "idle" /\ Busy(r) /\ row[c] # "absent"
  BY DEF UpdateRow, Busy, Saving
<1>2. /\ r \in Runs /\ c \in Campaigns /\ Shape(r)
      /\ Agrees(r, row[c], stageRow[c])
  BY <1>1, Known DEF RefInv, RunInv
<1>3. row' = [row EXCEPT ![c] = r.status] /\ UNCHANGED <<tx, told>>
  BY DEF UpdateRow, requestVars, outVars
<1>4. row \in [Campaigns -> Statuses \union {"absent"}]
  BY DEF RefInv, TypeInv, TypeOK
<1>5. CASE row[c] = r.status
  <2>1. row' = row
    BY <1>3, <1>4, <1>5
  <2>2. QED
    BY <1>3, <2>1 DEF Lifecycle!vars
<1>6. CASE r.point = "started" /\ row[c] # r.status
  <2>1. r.status = "processing" /\ row[c] = "pending"
    BY <1>1, <1>2, <1>6 DEF Shape, Agrees, Saving, Earlier
  <2>2. Lifecycle!Start(c)
    BY <1>2, <1>3, <2>1 DEF Lifecycle!Start
  <2>3. QED
    BY <1>2, <2>2 DEF Lifecycle!Next
<1>7. CASE r.point = "finished"
  <2>1. r.status = Outcome(r.results) /\ row[c] = "processing"
    BY <1>1, <1>2, <1>7 DEF Shape, Agrees, Saving
  <2>2. r.status \in Lifecycle!Outcomes
    BY <1>2, <2>1, OutcomeIs DEF Runs
  <2>3. Lifecycle!Finish(c)
    BY <1>2, <1>3, <2>1, <2>2 DEF Lifecycle!Finish
  <2>4. QED
    BY <1>2, <2>3 DEF Lifecycle!Next
<1>8. CASE r.point = "failed"
  <2>1. r.status = "failed"
    BY <1>1, <1>2, <1>8 DEF Shape, Saving
  <2>2. Lifecycle!Fail(c)
    BY <1>1, <1>2, <1>3, <2>1 DEF Lifecycle!Fail
  <2>3. QED
    BY <1>2, <2>2 DEF Lifecycle!Next
<1>9. CASE r.point \in {"researched", "scored", "detected", "reported"}
  BY <1>1, <1>2, <1>5, <1>9 DEF Shape, Agrees, Saving, Earlier
<1>10. r.point \in Points
  BY <1>2 DEF Runs
<1>11. QED
  BY <1>5, <1>6, <1>7, <1>8, <1>9, <1>10 DEF Points

LEMMA AnnounceSteps ==
  ASSUME RefInv, NEW w \in Workers, Announce(w)
  PROVE  [Lifecycle!Next]_(Lifecycle!vars)
<1> DEFINE r == work[w]
           c == work[w].c
<1>1. r.pc = "announce" /\ r.pc # "idle" /\ Busy(r)
  BY DEF Announce, Busy, Saving
<1>2. /\ r \in Runs /\ c \in Campaigns /\ Shape(r)
      /\ tx[c] = "committed"
      /\ row[c] # "absent" => row[c] = r.status
  BY <1>1, Known DEF RefInv, RunInv, Agrees
<1>3. r.status = "failed" \/ r.status = Outcome(r.results)
  BY <1>1, <1>2 DEF Shape, Saving
<1>4. r.results \in [Stages -> Results]
  BY <1>2 DEF Runs
<1>5. "failed" \in Lifecycle!Outcomes
  BY DEF Lifecycle!Outcomes
<1>6. r.status \in Lifecycle!Outcomes
  BY <1>3, <1>4, <1>5, OutcomeIs
<1>7. /\ told' = [told EXCEPT ![c] = @ \union {r.status}]
      /\ UNCHANGED <<tx, row>>
  BY DEF Announce, requestVars, dbVars
<1>8. row[c] \in {r.status, "absent"}
  BY <1>2
<1>9. Lifecycle!Tell(c)
  BY <1>2, <1>6, <1>7, <1>8 DEF Lifecycle!Tell
<1>10. QED
  BY <1>2, <1>9 DEF Lifecycle!Next

LEMMA HiddenSteps ==
  ASSUME NEW w \in Workers,
         \/ \E c \in Campaigns : Take(w, c)
         \/ Load(w) \/ LoadThrows(w) \/ UpsertStage(w) \/ SaveThrows(w)
         \/ Research(w) \/ ResearchFails(w) \/ Generate(w) \/ Detect(w)
         \/ DetectFails(w) \/ UploadZip(w) \/ AttachZip(w) \/ StageFails(w)
         \/ UploadReport(w) \/ ReportFails(w) \/ Return(w)
  PROVE  UNCHANGED Lifecycle!vars
<1>1. UNCHANGED <<tx, row, told>>
  BY DEF Take, Load, LoadThrows, UpsertStage, SaveThrows, Research,
         ResearchFails, Generate, Detect, DetectFails, UploadZip, AttachZip,
         StageFails, UploadReport, ReportFails, Return, requestVars, dbVars,
         outVars
<1>2. QED
  BY <1>1 DEF Lifecycle!vars

LEMMA LifecycleStep ==
  RefInv /\ [Next]_vars => [Lifecycle!Next]_(Lifecycle!vars)
<1> SUFFICES ASSUME RefInv, [Next]_vars
             PROVE  [Lifecycle!Next]_(Lifecycle!vars)
  OBVIOUS
<1>1. CASE UNCHANGED vars
  BY <1>1 DEF vars, Lifecycle!vars
<1>2. CASE \E c \in Campaigns :
             \/ Request(c) \/ CommitRequest(c) \/ RollbackRequest(c)
             \/ Enqueue(c) \/ EnqueueFails(c) \/ Delete(c) \/ Stalled(c)
  BY <1>2, RequestSteps
<1>3. CASE \E w \in Workers, c \in Campaigns : Take(w, c)
  BY <1>3, HiddenSteps
<1>4. CASE \E w \in Workers : Step(w) \/ LoadThrows(w)
  BY <1>4, UpdateRowSteps, AnnounceSteps, HiddenSteps DEF Step
<1>5. CASE Crash
  BY <1>5, CrashSteps
<1>6. QED
  BY <1>1, <1>2, <1>3, <1>4, <1>5 DEF Next

\* The pipeline implements the lifecycle users are promised: a status never
\* moves back except to "failed" by a run that dies, a deleted campaign never
\* comes back, and a pushed outcome is the stored one.
THEOREM CampaignImplementsLifecycle == Spec => LifecycleSpec
<1>1. Init => Lifecycle!Init
  BY LifecycleInit
<1>2. RefInv /\ [Next]_vars => [Lifecycle!Next]_(Lifecycle!vars)
  BY LifecycleStep
<1>3. QED
  BY <1>1, <1>2, AlwaysRefInv, PTL DEF Spec, LifecycleSpec, Lifecycle!Spec

============================================================================
