------------------------- MODULE SocialQueue_proofs -------------------------
(***************************************************************************)
(* The safety of SocialQueue, for any number of topics, ideas, users,      *)
(* attempts, faults and crashes: links resolve, a job commits one row for  *)
(* every time it was started, and what is left in R2 has an excuse.  The   *)
(* invariant says of every slot that it is alone with its key, that its    *)
(* job is the active one of that key, and what the links, the bucket and   *)
(* the number of commits look like at each await.                          *)
(***************************************************************************)
EXTENDS SocialQueue, TLAPS

----------------------------------------------------------------------------
(* The invariant.                                                          *)

\* A run that has not committed.
Before == {"generate", "image", "report", "commit", "cleanup"}

\* Retries and stalls stay within their limits, and the rows a job has
\* committed are accounted for by the times it was started again.
JobOK(k) ==
  /\ job[k].st # "none" => job[k].user \in Users
  /\ job[k].st \in {"none", "waiting", "active"} =>
       job[k].attempts < MaxAttempts /\ job[k].stalls <= MaxStalls
  /\ job[k].commits <= 1 + job[k].stalls
  /\ job[k].st \in {"none", "waiting"} => job[k].commits <= job[k].stalls

\* A slot runs the active job of its key, and a job of the other kind only as
\* far as the error it throws.
Holds(p) ==
  LET r == work[p]
      k == work[p].gen[1]
  IN  /\ r.pc = "idle" <=> r.gen = NoGen
      /\ r.pc # "idle" => /\ r.gen \in Gens
                          /\ r.gen[2] <= runs[k]
                          /\ job[k].st = "active"
      /\ r.pc \notin {"idle", "throw"} => Own(p, k)
      /\ r.pc \notin {"idle", "settle"} => job[k].commits <= job[k].stalls

\* Nothing links to what a run has uploaded before it commits, and what it
\* believes to have uploaded is there.
Uploads(p) ==
  LET r == work[p]
  IN  /\ r.pc \in Before => \A o \in links : o[2] # r.gen
      /\ r.pc \in {"generate", "image"} => ~r.image
      /\ r.pc \in {"generate", "image", "report"} => ~r.report
      /\ r.pc = "report" \/ r.report => p = "social"
      /\ r.pc \in {"report", "commit"} =>
           /\ r.image => <<"image", r.gen>> \in bucket
           /\ r.report => <<"report", r.gen>> \in bucket

RunOK(p) == Holds(p) /\ Uploads(p)

\* The objects the code promises to clean up.
Concerned(o) == o[1] = "report" \/ o[2][1] \in Ideas

\* An object that a run will link or delete.
Claims(r, o) ==
  /\ r.pc \in {"report", "commit", "cleanup"}
  /\ r.gen = o[2]
  /\ IF o[1] = "image" THEN r.image ELSE r.report

Excused(o) ==
  \/ o \in links \/ o[2] \in blamed \union deleted
  \/ \E p \in Processors : Claims(work[p], o)

ObjectOK(o) ==
  /\ o \in links => o \in bucket
  /\ o \in bucket => o[2][2] <= runs[o[2][1]]
  /\ o \in bucket /\ Concerned(o) => Excused(o)

Alone ==
  \A p, q \in Processors :
    p # q /\ work[p].pc # "idle" /\ work[q].pc # "idle" =>
      work[p].gen[1] # work[q].gen[1]

SocialInv ==
  /\ TypeOK
  /\ \A k \in Keys : JobOK(k)
  /\ Alone
  /\ \A p \in Processors : RunOK(p)
  /\ \A o \in Objects : ObjectOK(o)

----------------------------------------------------------------------------
(* Types.                                                                  *)

LEMMA NullKey == NoKey \notin Keys /\ NoGen \notin Gens /\ Idle \in Slots /\ NoJob \in Jobs
<1>1. NoGen \notin Gens
  BY DEF NoGen, Gens
<1>2. Idle \in Slots
  BY DEF Idle, Slots, PCs
<1>3. NoJob \in Jobs
  BY BoundsAssumption DEF NoJob, Jobs, Finished
<1>4. QED
  BY <1>1, <1>2, <1>3, KeysAssumption DEF Keys

\* An object belongs to a run, and a run to a key.
LEMMA ObjectType ==
  ASSUME NEW o \in Objects
  PROVE  /\ o[1] \in Kinds /\ o[2] \in Gens
         /\ o[2][1] \in Keys /\ o[2][2] \in Nat
         /\ o = <<o[1], o[2]>>
BY DEF Objects, Gens

LEMMA GenType ==
  ASSUME NEW g \in Gens
  PROVE  /\ g[1] \in Keys /\ g[2] \in Nat
         /\ <<"image", g>> \in Objects /\ <<"report", g>> \in Objects
BY DEF Gens, Objects, Kinds

\* What is known of a slot that runs something.
LEMMA Running ==
  ASSUME SocialInv, NEW p \in Processors, work[p].pc # "idle"
  PROVE  /\ work[p] \in Slots /\ work[p].gen \in Gens
         /\ work[p].gen[1] \in Keys
         /\ job[work[p].gen[1]] \in Jobs
         /\ job[work[p].gen[1]].st = "active"
         /\ JobOK(work[p].gen[1])
         /\ RunOK(p)
<1>1. work[p] \in Slots /\ RunOK(p)
  BY DEF SocialInv, TypeOK
<1>2. work[p].gen \in Gens /\ job[work[p].gen[1]].st = "active"
  BY <1>1 DEF RunOK, Holds
<1>3. work[p].gen[1] \in Keys
  BY <1>2, GenType
<1>4. QED
  BY <1>1, <1>2, <1>3 DEF SocialInv, TypeOK

LEMMA HearType ==
  ASSUME TypeOK, NEW i \in Ideas, NEW st \in Answers, NEW gen \in Gens \union {NoGen},
         Hear(i, st, gen)
  PROVE  client' \in [Users -> [Ideas ->
           [st : Answers, gen : Gens \union {NoGen}, asks : 0 .. MaxAsks]]]
BY DEF Hear, TypeOK

LEMMA InitType == Init => TypeOK
<1> SUFFICES ASSUME Init PROVE TypeOK
  OBVIOUS
<1>1. /\ job \in [Keys -> Jobs]
      /\ runs \in [Keys -> Nat]
      /\ work \in [Processors -> Slots]
  BY NullKey DEF Init
<1>2. /\ cache \in [Ideas -> Gens \union {NoGen}]
      /\ rows = {} /\ links = {} /\ bucket = {} /\ blamed = {}
  BY DEF Init
<1>3. /\ 0 \in 0 .. MaxDeletes /\ 0 \in 0 .. MaxFaults /\ 0 \in 0 .. MaxCrashes
      /\ 0 \in 0 .. MaxAsks
  BY BoundsAssumption
<1>4. "idle" \in Answers
  BY DEF Answers
<1>5. /\ client \in [Users -> [Ideas ->
           [st : Answers, gen : Gens \union {NoGen}, asks : 0 .. MaxAsks]]]
      /\ submits \in [Topics -> 0 .. MaxAsks]
  BY <1>3, <1>4 DEF Init
<1>6. /\ deleted \subseteq Gens
      /\ faults \in 0 .. MaxFaults
      /\ crashes \in 0 .. MaxCrashes
  BY <1>3 DEF Init
<1>7. QED
  BY <1>1, <1>2, <1>5, <1>6 DEF TypeOK

LEMMA NewJobType ==
  ASSUME NEW u \in Users
  PROVE  /\ NewJob(u) \in Jobs
         /\ NewJob(u).st = "waiting" /\ NewJob(u).user = u
         /\ NewJob(u).attempts = 0 /\ NewJob(u).stalls = 0 /\ NewJob(u).commits = 0
BY NullKey DEF NewJob, NoJob, Jobs

LEMMA SubmitType ==
  ASSUME TypeOK, NEW t \in Topics, Submit(t)
  PROVE  TypeOK'
<1>1. Actor[t] \in Users /\ t \in Keys
  BY KeysAssumption DEF Keys
<1>2. job' \in [Keys -> Jobs]
  BY <1>1, NewJobType DEF Submit, TypeOK
<1>3. submits[t] + 1 \in 0 .. MaxAsks
  BY BoundsAssumption DEF Submit, TypeOK
<1>4. submits' \in [Topics -> 0 .. MaxAsks]
  BY <1>3 DEF Submit, TypeOK
<1>5. QED
  BY <1>2, <1>4 DEF Submit, TypeOK, dbVars, counters

LEMMA AskType ==
  ASSUME TypeOK, NEW u \in Users, NEW i \in Ideas, Ask(u, i)
  PROVE  TypeOK'
<1> DEFINE now(s, g) == client' =
             [client EXCEPT ![u][i] = [st |-> s, gen |-> g, asks |-> client[u][i].asks + 1]]
<1>1. i \in Keys
  BY DEF Keys
<1>2. client[u][i].asks + 1 \in 0 .. MaxAsks
  BY BoundsAssumption DEF Ask, TypeOK
<1>3. cache[i] \in Gens \union {NoGen} /\ job[i].result \in Gens \union {NoGen}
  BY <1>1 DEF TypeOK, Jobs
<1>4. \E s \in Answers, g \in Gens \union {NoGen} : now(s, g)
  <2>1. {"waiting", "answered", "rejected"} \subseteq Answers
    BY DEF Answers
  <2>2. \/ now("answered", cache[i]) \/ now("waiting", NoGen)
        \/ now("answered", job[i].result) \/ now("rejected", NoGen)
    BY DEF Ask
  <2> HIDE DEF now
  <2>3. QED
    BY <1>3, <2>1, <2>2
<1>5. client' \in [Users -> [Ideas ->
        [st : Answers, gen : Gens \union {NoGen}, asks : 0 .. MaxAsks]]]
  BY <1>2, <1>4 DEF TypeOK
<1>6. job' = job \/ job' = [job EXCEPT ![i] = NewJob(u)]
  BY DEF Ask
<1>7. job' \in [Keys -> Jobs]
  BY <1>1, <1>6, NewJobType DEF TypeOK
<1>8. QED
  BY <1>5, <1>7 DEF Ask, TypeOK, dbVars, counters

LEMMA QueueType ==
  ASSUME SocialInv, NEW k \in Keys, Stalled(k) \/ Forget(k)
  PROVE  TypeOK'
<1>1. TypeOK /\ JobOK(k) /\ job[k] \in Jobs
  BY DEF SocialInv, TypeOK
<1>2. CASE Forget(k)
  BY <1>1, <1>2, NullKey DEF Forget, TypeOK, dbVars, clientVars, counters
<1>3. CASE Stalled(k)
  <2> DEFINE st == IF job[k].stalls < MaxStalls THEN "waiting" ELSE "failed"
             j  == [job[k] EXCEPT !.st = st, !.stalls = job[k].stalls + 1]
  <2>1. job[k].stalls <= MaxStalls /\ job[k].stalls \in 0 .. MaxStalls + 1
    BY <1>1, <1>3 DEF Stalled, Lost, JobOK, Jobs
  <2>2. job[k].stalls + 1 \in 0 .. MaxStalls + 1
    BY <2>1, BoundsAssumption
  <2>3. j \in Jobs
    BY <1>1, <2>2 DEF Jobs, Finished
  <2>4. job' = [job EXCEPT ![k] = j]
    BY <1>3 DEF Stalled
  <2> HIDE DEF j
  <2>5. job' \in [Keys -> Jobs]
    BY <1>1, <2>3, <2>4 DEF TypeOK
  <2>6. client' = client \/ (k \in Ideas /\ Hear(k, "rejected", NoGen))
    BY <1>3 DEF Stalled
  <2>7. "rejected" \in Answers
    BY DEF Answers
  <2>8. client' \in [Users -> [Ideas ->
          [st : Answers, gen : Gens \union {NoGen}, asks : 0 .. MaxAsks]]]
    BY <1>1, <2>6, <2>7, HearType DEF TypeOK
  <2>9. QED
    BY <1>1, <1>3, <2>5, <2>8 DEF Stalled, TypeOK, dbVars, counters
<1>4. QED
  BY <1>2, <1>3

LEMMA OutsideType ==
  ASSUME TypeOK,
         \/ \E g \in {r.gen : r \in rows} : Delete(g)
         \/ \E i \in Ideas : Evict(i)
         \/ Crash
  PROVE  TypeOK'
<1>1. CASE \E g \in {r.gen : r \in rows} : Delete(g)
  <2> PICK g \in {r.gen : r \in rows} : Delete(g)
    BY <1>1
  <2>1. g \in Gens
    BY DEF TypeOK
  <2>2. rows' \subseteq rows /\ links' \subseteq links
    BY DEF Delete
  <2>3. QED
    BY <2>1, <2>2 DEF Delete, TypeOK, clientVars
<1>2. CASE \E i \in Ideas : Evict(i)
  BY <1>2 DEF Evict, TypeOK, dbVars, clientVars, counters
<1>3. CASE Crash
  <2>1. crashes + 1 \in 0 .. MaxCrashes
    BY <1>3, BoundsAssumption DEF Crash, TypeOK
  <2>2. blamed' \subseteq Gens
    BY <1>3 DEF Crash, Blame, TypeOK, Slots
  <2>3. "lost" \in Answers
    BY DEF Answers
  <2>4. client' \in [Users -> [Ideas ->
          [st : Answers, gen : Gens \union {NoGen}, asks : 0 .. MaxAsks]]]
    <3> DEFINE C == [st : Answers, gen : Gens \union {NoGen}, asks : 0 .. MaxAsks]
               f(u, i) == IF client[u][i].st = "waiting"
                          THEN [client[u][i] EXCEPT !.st = "lost"] ELSE client[u][i]
    <3>1. \A u \in Users, i \in Ideas : client[u][i] \in C
      BY DEF TypeOK
    <3>2. \A u \in Users, i \in Ideas : f(u, i) \in C
      BY <2>3, <3>1
    <3>3. client' = [u \in Users |-> [i \in Ideas |-> f(u, i)]]
      BY <1>3 DEF Crash
    <3> HIDE DEF f, C
    <3>4. client' \in [Users -> [Ideas -> C]]
      BY <3>2, <3>3
    <3>5. QED
      BY <3>4 DEF C
  <2>5. work' \in [Processors -> Slots]
    BY <1>3, NullKey DEF Crash
  <2>6. QED
    BY <1>3, <2>1, <2>2, <2>4, <2>5 DEF Crash, TypeOK, dbVars
<1>4. QED
  BY <1>1, <1>2, <1>3

LEMMA FaultType ==
  ASSUME TypeOK, Fault
  PROVE  faults' \in 0 .. MaxFaults
BY BoundsAssumption DEF Fault, TypeOK

\* What a slot holds once it has been handed a job.
Fresh(p, k) ==
  [Idle EXCEPT !.pc = IF Own(p, k) THEN "generate" ELSE "throw",
               !.gen = <<k, runs[k] + 1>>]

LEMMA FreshType ==
  ASSUME TypeOK, NEW p \in Processors, NEW k \in Keys
  PROVE  /\ Fresh(p, k) \in Slots
         /\ Fresh(p, k).gen = <<k, runs[k] + 1>> /\ Fresh(p, k).gen \in Gens
         /\ Fresh(p, k).pc \in {"generate", "throw"}
         /\ Fresh(p, k).pc = "generate" => Own(p, k)
         /\ ~Fresh(p, k).image /\ ~Fresh(p, k).report
<1>1. runs[k] \in Nat
  BY DEF TypeOK
<1>2. <<k, runs[k] + 1>> \in Gens
  BY <1>1 DEF Gens
<1>3. QED
  BY <1>2 DEF Fresh, Idle, Slots, PCs

LEMMA TakeType ==
  ASSUME TypeOK, NEW p \in Processors, NEW k \in Keys, Take(p, k)
  PROVE  TypeOK'
<1>1. work' = [work EXCEPT ![p] = Fresh(p, k)]
  BY DEF Take, Fresh
<1>2. work' \in [Processors -> Slots]
  BY <1>1, FreshType DEF TypeOK
<1>3. job[k] \in Jobs
  BY DEF TypeOK
<1>4. [job[k] EXCEPT !.st = "active"] \in Jobs
  BY <1>3 DEF Jobs
<1>5. job' \in [Keys -> Jobs]
  BY <1>4 DEF Take, TypeOK
<1>6. runs' \in [Keys -> Nat]
  BY DEF Take, TypeOK
<1>7. QED
  BY <1>2, <1>5, <1>6 DEF Take, TypeOK, dbVars, clientVars, counters

\* The records a run goes through.
LEMMA SlotType ==
  ASSUME NEW r \in Slots, NEW pc \in PCs
  PROVE  /\ [r EXCEPT !.pc = pc] \in Slots
         /\ [r EXCEPT !.pc = pc].gen = r.gen
         /\ [r EXCEPT !.pc = pc].pc = pc
         /\ [r EXCEPT !.pc = pc].image = r.image
         /\ [r EXCEPT !.pc = pc].report = r.report
         /\ [r EXCEPT !.pc = pc, !.image = TRUE] \in Slots
         /\ [r EXCEPT !.pc = pc, !.image = TRUE].gen = r.gen
         /\ [r EXCEPT !.pc = pc, !.image = TRUE].pc = pc
         /\ [r EXCEPT !.pc = pc, !.image = TRUE].image
         /\ [r EXCEPT !.pc = pc, !.image = TRUE].report = r.report
         /\ [r EXCEPT !.pc = pc, !.report = TRUE] \in Slots
         /\ [r EXCEPT !.pc = pc, !.report = TRUE].gen = r.gen
         /\ [r EXCEPT !.pc = pc, !.report = TRUE].pc = pc
         /\ [r EXCEPT !.pc = pc, !.report = TRUE].image = r.image
         /\ [r EXCEPT !.pc = pc, !.report = TRUE].report
BY DEF Slots

LEMMA FailedType ==
  ASSUME NEW k \in Keys, job[k] \in Jobs, job[k].attempts < MaxAttempts
  PROVE  /\ Failed(k) \in Jobs
         /\ Failed(k).st \in {"waiting", "failed"}
         /\ Failed(k).st = "waiting" => Failed(k).attempts < MaxAttempts
         /\ Failed(k).user = job[k].user
         /\ Failed(k).stalls = job[k].stalls
         /\ Failed(k).commits = job[k].commits
<1> DEFINE n == job[k].attempts + 1
<1>1. job[k].attempts \in 0 .. MaxAttempts
  BY DEF Jobs
<1>2. n \in 0 .. MaxAttempts
  BY <1>1, BoundsAssumption
<1>3. QED
  BY <1>2 DEF Failed, Jobs, Finished

\* An action writes one slot.
LEMMA SlotUpdate ==
  ASSUME TypeOK, NEW p \in Processors, NEW pc \in PCs
  PROVE  /\ Goto(p, pc) <=> work' = [work EXCEPT ![p] = [work[p] EXCEPT !.pc = pc]]
         /\ [work EXCEPT ![p].pc = pc, ![p].image = TRUE]
              = [work EXCEPT ![p] = [work[p] EXCEPT !.pc = pc, !.image = TRUE]]
         /\ [work EXCEPT ![p].pc = pc, ![p].report = TRUE]
              = [work EXCEPT ![p] = [work[p] EXCEPT !.pc = pc, !.report = TRUE]]
BY DEF TypeOK, Goto

LEMMA RunType ==
  ASSUME SocialInv, NEW p \in Processors,
         \/ Generate(p) \/ UploadImage(p) \/ UploadReport(p)
         \/ CommitFails(p) \/ CleanUp(p)
  PROVE  TypeOK'
<1> DEFINE r == work[p]
           g == work[p].gen
<1>1. TypeOK /\ r.pc # "idle"
  BY DEF SocialInv, Generate, UploadImage, UploadReport, CommitFails, CleanUp
<1>2. /\ r \in Slots /\ g \in Gens
      /\ <<"image", g>> \in Objects /\ <<"report", g>> \in Objects
  BY <1>1, Running, GenType
<1>3. {"image", "report", "commit", "cleanup", "throw"} \subseteq PCs
  BY DEF PCs
<1>4. AfterImage(p) \in PCs
  BY DEF AfterImage, PCs
<1>5. \/ \E pc \in PCs : Goto(p, pc)
      \/ \E pc \in PCs : work' = [work EXCEPT ![p].pc = pc, ![p].image = TRUE]
      \/ \E pc \in PCs : work' = [work EXCEPT ![p].pc = pc, ![p].report = TRUE]
  BY <1>3, <1>4 DEF Generate, UploadImage, UploadReport, CommitFails, CleanUp
<1>6. work' \in [Processors -> Slots]
  <2>1. \A pc \in PCs :
          /\ [r EXCEPT !.pc = pc] \in Slots
          /\ [r EXCEPT !.pc = pc, !.image = TRUE] \in Slots
          /\ [r EXCEPT !.pc = pc, !.report = TRUE] \in Slots
    BY <1>2, SlotType
  <2>2. CASE \E pc \in PCs : Goto(p, pc)
    <3>1. \E pc \in PCs : work' = [work EXCEPT ![p] = [r EXCEPT !.pc = pc]]
      BY <1>1, <2>2, SlotUpdate
    <3>2. QED
      BY <1>1, <2>1, <3>1 DEF TypeOK
  <2>3. CASE \E pc \in PCs : work' = [work EXCEPT ![p].pc = pc, ![p].image = TRUE]
    <3>1. PICK pc \in PCs : work' = [work EXCEPT ![p].pc = pc, ![p].image = TRUE]
      BY <2>3
    <3>2. work' = [work EXCEPT ![p] = [work[p] EXCEPT !.pc = pc, !.image = TRUE]]
      BY <1>1, <3>1, SlotUpdate, Zenon
    <3>3. QED
      BY <1>1, <2>1, <3>2 DEF TypeOK
  <2>4. CASE \E pc \in PCs : work' = [work EXCEPT ![p].pc = pc, ![p].report = TRUE]
    <3>1. PICK pc \in PCs : work' = [work EXCEPT ![p].pc = pc, ![p].report = TRUE]
      BY <2>4
    <3>2. work' = [work EXCEPT ![p] = [work[p] EXCEPT !.pc = pc, !.report = TRUE]]
      BY <1>1, <3>1, SlotUpdate, Zenon
    <3>3. QED
      BY <1>1, <2>1, <3>2 DEF TypeOK
  <2>5. QED
    BY <1>5, <2>2, <2>3, <2>4
<1>7. /\ bucket' \subseteq bucket \union {<<"image", g>>, <<"report", g>>}
      /\ blamed' \subseteq blamed \union {g}
      /\ UNCHANGED <<job, runs, rows, links, cache, client, submits, deleted, crashes>>
  BY DEF Generate, UploadImage, UploadReport, CommitFails, CleanUp, Blame,
         dbVars, clientVars
<1>8. faults' = faults \/ Fault
  BY DEF Generate, UploadImage, UploadReport, CommitFails, CleanUp
<1>9. faults' \in 0 .. MaxFaults
  BY <1>1, <1>8, FaultType DEF TypeOK
<1>10. QED
  BY <1>1, <1>2, <1>6, <1>7, <1>9 DEF TypeOK

LEMMA CommitType ==
  ASSUME SocialInv, NEW p \in Processors, Commit(p)
  PROVE  TypeOK'
<1> DEFINE r == work[p]
           k == work[p].gen[1]
           j == [job[k] EXCEPT !.commits = job[k].commits + 1]
<1>1. TypeOK /\ r.pc # "idle"
  BY DEF SocialInv, Commit
<1>2. /\ r \in Slots /\ r.gen \in Gens /\ k \in Keys
      /\ job[k] \in Jobs /\ job[k].user \in Users
      /\ <<"image", r.gen>> \in Objects /\ <<"report", r.gen>> \in Objects
  BY <1>1, Running, GenType DEF JobOK
<1>3. j \in Jobs
  BY <1>2 DEF Jobs
<1>4. job' = [job EXCEPT ![k] = j]
  BY DEF Commit
<1>5. work' = [work EXCEPT ![p] = [r EXCEPT !.pc = "settle"]] /\ "settle" \in PCs
  BY DEF Commit, Goto, PCs
<1>6. work' \in [Processors -> Slots]
  BY <1>1, <1>2, <1>5, SlotType DEF TypeOK
<1> HIDE DEF j
<1>7. job' \in [Keys -> Jobs]
  BY <1>1, <1>3, <1>4 DEF TypeOK
<1>8. [gen |-> r.gen, user |-> job[k].user] \in [gen : Gens, user : Users]
  BY <1>2
<1>9. rows' \subseteq [gen : Gens, user : Users]
  BY <1>1, <1>8 DEF Commit, TypeOK
<1>10. links' \subseteq links \union {<<"image", r.gen>>, <<"report", r.gen>>}
  BY DEF Commit
<1>11. links' \subseteq Objects
  BY <1>1, <1>2, <1>10 DEF TypeOK
<1>12. QED
  BY <1>1, <1>6, <1>7, <1>9, <1>11 DEF Commit, TypeOK, clientVars, counters

\* The posts processor completes the job of an idea only.
LEMMA SettleType ==
  ASSUME SocialInv, NEW p \in Processors, Settle(p)
  PROVE  TypeOK'
<1> DEFINE g == work[p].gen
           k == work[p].gen[1]
           j == [job[k] EXCEPT !.st = "completed", !.result = g]
<1>1. TypeOK /\ work[p].pc = "settle"
  BY DEF SocialInv, Settle
<1>2. /\ g \in Gens /\ k \in Keys /\ job[k] \in Jobs /\ Own(p, k)
  BY <1>1, Running DEF RunOK, Holds
<1>3. j \in Jobs
  BY <1>2 DEF Jobs, Finished
<1>4. job' = [job EXCEPT ![k] = j] /\ work' = [work EXCEPT ![p] = Idle]
  BY DEF Settle, Complete
<1>5. work' \in [Processors -> Slots]
  BY <1>1, <1>4, NullKey DEF TypeOK
<1> HIDE DEF j
<1>6. job' \in [Keys -> Jobs]
  BY <1>1, <1>3, <1>4 DEF TypeOK
<1>7. p = "posts" => k \in Ideas
  BY <1>2 DEF Own, Keys
<1>8. "answered" \in Answers
  BY DEF Answers
<1>9. client' = client \/ (k \in Ideas /\ Hear(k, "answered", g))
  BY <1>7 DEF Settle, Complete
<1>10. client' \in [Users -> [Ideas ->
         [st : Answers, gen : Gens \union {NoGen}, asks : 0 .. MaxAsks]]]
  BY <1>1, <1>2, <1>8, <1>9, HearType DEF TypeOK
<1>11. cache' \in [Ideas -> Gens \union {NoGen}]
  BY <1>1, <1>2 DEF Settle, TypeOK
<1>12. QED
  BY <1>1, <1>5, <1>6, <1>10, <1>11 DEF Settle, TypeOK, dbVars, counters

LEMMA ThrowType ==
  ASSUME SocialInv, NEW p \in Processors, Throw(p)
  PROVE  TypeOK'
<1> DEFINE k == work[p].gen[1]
<1>1. TypeOK /\ work[p].pc = "throw"
  BY DEF SocialInv, Throw
<1>2. k \in Keys /\ job[k] \in Jobs /\ job[k].attempts < MaxAttempts
  BY <1>1, Running DEF JobOK
<1>3. Failed(k) \in Jobs
  BY <1>2, FailedType
<1>4. job' = [job EXCEPT ![k] = Failed(k)] /\ work' = [work EXCEPT ![p] = Idle]
  BY DEF Throw
<1>5. job' \in [Keys -> Jobs] /\ work' \in [Processors -> Slots]
  BY <1>1, <1>3, <1>4, NullKey DEF TypeOK
<1>6. "rejected" \in Answers
  BY DEF Answers
<1>7. client' = client \/ (k \in Ideas /\ Hear(k, "rejected", NoGen))
  BY DEF Throw
<1>8. client' \in [Users -> [Ideas ->
         [st : Answers, gen : Gens \union {NoGen}, asks : 0 .. MaxAsks]]]
  BY <1>1, <1>6, <1>7, HearType DEF TypeOK
<1>9. QED
  BY <1>1, <1>5, <1>8 DEF Throw, TypeOK, dbVars, counters

LEMMA TypeStep == SocialInv /\ [Next]_vars => TypeOK'
<1> SUFFICES ASSUME SocialInv, [Next]_vars PROVE TypeOK'
  OBVIOUS
<1>1. TypeOK
  BY DEF SocialInv
<1>2. CASE UNCHANGED vars
  BY <1>1, <1>2 DEF vars, TypeOK, dbVars, clientVars, counters
<1>3. CASE \/ \E t \in Topics : Submit(t)
           \/ \E u \in Users, i \in Ideas : Ask(u, i)
  BY <1>1, <1>3, SubmitType, AskType
<1>4. CASE \/ \E g \in {r.gen : r \in rows} : Delete(g)
           \/ \E i \in Ideas : Evict(i)
           \/ Crash
  BY <1>1, <1>4, OutsideType
<1>5. CASE \E k \in Keys : Stalled(k) \/ Forget(k)
  BY <1>5, QueueType
<1>6. CASE \E p \in Processors, k \in Keys : Take(p, k)
  BY <1>1, <1>6, TakeType
<1>7. CASE \E p \in Processors : Step(p)
  BY <1>7, RunType, CommitType, SettleType, ThrowType DEF Step
<1>8. QED
  BY <1>2, <1>3, <1>4, <1>5, <1>6, <1>7 DEF Next

----------------------------------------------------------------------------
(* The invariant is inductive.                                             *)

LEMMA InitInv == Init => SocialInv
<1> SUFFICES ASSUME Init PROVE SocialInv
  OBVIOUS
<1>1. TypeOK
  BY InitType
<1>2. \A k \in Keys : JobOK(k)
  BY BoundsAssumption DEF Init, NoJob, JobOK
<1>3. \A p \in Processors : work[p].pc = "idle" /\ work[p].gen = NoGen
                            /\ ~work[p].image /\ ~work[p].report
  BY DEF Init, Idle
<1>4. Alone
  BY <1>3 DEF Alone
<1>5. \A p \in Processors : RunOK(p)
  BY <1>3 DEF RunOK, Holds, Uploads, Before
<1>6. \A o \in Objects : ObjectOK(o)
  BY DEF Init, ObjectOK
<1>7. QED
  BY <1>1, <1>2, <1>4, <1>5, <1>6 DEF SocialInv

\* A slot that is idle has nothing to answer for.
LEMMA IdleOK ==
  ASSUME NEW p \in Processors, work[p] = Idle
  PROVE  RunOK(p)
BY DEF Idle, RunOK, Holds, Uploads, Before

\* A step of one slot touches its own key and its own objects only: what the
\* invariant says of the others stays as it is.
LEMMA OwnRun ==
  ASSUME SocialInv, TypeOK', NEW p \in Processors, work[p].pc # "idle",
         NEW q, work' = [work EXCEPT ![p] = q],
         \/ q = Idle
         \/ q.gen = work[p].gen /\ q.pc # "idle",
         UNCHANGED <<runs, deleted>>,
         \A k \in Keys \ {work[p].gen[1]} : job'[k] = job[k],
         \A o \in Objects : o[2] # work[p].gen =>
           (o \in links' <=> o \in links) /\ (o \in bucket' <=> o \in bucket),
         blamed \subseteq blamed',
         NEW k, k = work[p].gen[1], JobOK(k)',
         RunOK(p)',
         \A o \in Objects : o[2] = work[p].gen => ObjectOK(o)'
  PROVE  SocialInv'
<1> DEFINE g == work[p].gen
<1>1. TypeOK /\ g \in Gens /\ k \in Keys
  BY Running DEF SocialInv
<1>2. /\ work'[p] = q
      /\ \A x \in Processors \ {p} : work'[x] = work[x]
  BY <1>1 DEF TypeOK
<1>3. \A j \in Keys : JobOK(j)'
  <2>1. ASSUME NEW j \in Keys, j # k PROVE JobOK(j)'
    <3>1. JobOK(j) /\ job'[j] = job[j]
      BY <2>1 DEF SocialInv
    <3>2. QED
      BY <3>1 DEF JobOK
  <2>2. QED
    BY <2>1
<1>4. Alone'
  <2>1. work'[p].pc # "idle" => work'[p].gen = g
    BY <1>2 DEF Idle
  <2>2. Alone
    BY DEF SocialInv
  <2>3. QED
    BY <1>2, <2>1, <2>2 DEF Alone
<1>5. ASSUME NEW x \in Processors \ {p} PROVE RunOK(x)'
  <2>1. RunOK(x) /\ work'[x] = work[x]
    BY <1>2 DEF SocialInv
  <2>2. CASE work[x].pc = "idle"
    <3>1. work[x].gen = NoGen
      BY <2>1, <2>2 DEF RunOK, Holds
    <3>2. ~work'[x].report \/ x = "social"
      BY <2>1 DEF RunOK, Uploads
    <3>3. QED
      BY <2>1, <2>2, <3>1, <3>2 DEF RunOK, Holds, Uploads, Before
  <2>3. CASE work[x].pc # "idle"
    <3>1. work[x].gen \in Gens /\ work[x].gen[1] \in Keys
      BY <2>3, Running
    <3>2. work[x].gen[1] # k
      BY <2>3 DEF SocialInv, Alone
    <3>3. work[x].gen # g /\ job'[work[x].gen[1]] = job[work[x].gen[1]]
      BY <3>1, <3>2
    <3>4. Holds(x)'
      BY <2>1, <2>3, <3>3 DEF RunOK, Holds
    <3>5. links' \subseteq Objects /\ links \subseteq Objects
      BY <1>1 DEF TypeOK
    <3>6. \A o \in links' : o[2] = work[x].gen => o \in links
      BY <3>3, <3>5
    <3>7. /\ <<"image", work[x].gen>> \in Objects
          /\ <<"report", work[x].gen>> \in Objects
      BY <3>1, GenType
    <3>8. \A kind \in Kinds :
            <<kind, work[x].gen>> \in bucket => <<kind, work[x].gen>> \in bucket'
      BY <3>3, <3>7 DEF Kinds
    <3>9. Uploads(x)'
      BY <2>1, <3>6, <3>8 DEF RunOK, Uploads, Kinds
    <3>10. QED
      BY <3>4, <3>9 DEF RunOK
  <2>4. QED
    BY <2>2, <2>3
<1>6. ASSUME NEW o \in Objects, o[2] # g PROVE ObjectOK(o)'
  <2>1. ObjectOK(o) /\ (o \in links' <=> o \in links) /\ (o \in bucket' <=> o \in bucket)
    BY <1>6 DEF SocialInv
  <2>2. \A x \in Processors : Claims(work[x], o) => x # p
    BY <1>6 DEF Claims
  <2>3. Excused(o) => Excused(o)'
    BY <1>2, <2>1, <2>2 DEF Excused
  <2>4. QED
    BY <2>1, <2>3 DEF ObjectOK, Concerned
<1>7. QED
  BY <1>3, <1>4, <1>5, <1>6 DEF SocialInv

LEMMA StillExcused ==
  ASSUME TypeOK, NEW p \in Processors, NEW q, work' = [work EXCEPT ![p] = q],
         NEW o, Excused(o),
         o \in links => o \in links', blamed \subseteq blamed', deleted' = deleted,
         Claims(work[p], o) => Claims(q, o) \/ o \in links' \/ o[2] \in blamed'
  PROVE  Excused(o)'
<1>1. /\ work'[p] = q
      /\ \A x \in Processors \ {p} : work'[x] = work[x]
  BY DEF TypeOK
<1>2. QED
  BY <1>1 DEF Excused

\* The premises that the steps of a run share.
LEMMA RunFacts ==
  ASSUME SocialInv, NEW p \in Processors, work[p].pc # "idle",
         NEW q, work' = [work EXCEPT ![p] = q]
  PROVE  /\ TypeOK /\ work'[p] = q
         /\ work[p] \in Slots /\ work[p].gen \in Gens
         /\ work[p].gen[1] \in Keys /\ work[p].gen[2] <= runs[work[p].gen[1]]
         /\ <<"image", work[p].gen>> \in Objects
         /\ <<"report", work[p].gen>> \in Objects
         /\ JobOK(work[p].gen[1]) /\ RunOK(p)
         /\ \A o \in Objects : ObjectOK(o)
<1>1. TypeOK /\ work'[p] = q
  BY DEF SocialInv, TypeOK
<1>2. RunOK(p) /\ work[p].gen[2] <= runs[work[p].gen[1]]
  BY Running DEF RunOK, Holds
<1>3. QED
  BY <1>1, <1>2, Running, GenType DEF SocialInv

LEMMA GenerateInv ==
  ASSUME SocialInv, TypeOK', NEW p \in Processors, Generate(p)
  PROVE  SocialInv'
<1> DEFINE r == work[p]
<1>1. PICK pc \in {"image", "throw"} : Goto(p, pc)
  BY DEF Generate
<1>2. pc \in PCs
  BY DEF PCs
<1> DEFINE q == [r EXCEPT !.pc = pc]
<1>3. r.pc = "generate" /\ UNCHANGED <<job, runs, links, bucket, blamed, deleted>>
  BY DEF Generate, dbVars
<1>4. work' = [work EXCEPT ![p] = q]
  BY <1>1, <1>2, SlotUpdate DEF SocialInv
<1>5. r \in Slots
  BY <1>3, <1>4, RunFacts
<1>6. q.gen = r.gen /\ q.pc = pc /\ q.image = r.image /\ q.report = r.report
  BY <1>2, <1>5, SlotType
<1> HIDE DEF q
<1>7. /\ TypeOK /\ work'[p] = q /\ RunOK(p)
      /\ \A o \in Objects : ObjectOK(o)
  BY <1>3, <1>4, RunFacts
<1>8. RunOK(p)'
  BY <1>1, <1>3, <1>6, <1>7 DEF RunOK, Holds, Uploads, Before
<1>9. \A o \in Objects : ObjectOK(o)'
  <2> TAKE o \in Objects
  <2>1. ~Claims(r, o)
    BY <1>3 DEF Claims
  <2>2. Excused(o) => Excused(o)'
    BY <1>3, <1>4, <1>7, <2>1, StillExcused
  <2>3. QED
    BY <1>3, <1>7, <2>2 DEF ObjectOK, Concerned
<1>10. \A k : JobOK(k) => JobOK(k)'
  BY <1>3 DEF JobOK
<1>11. QED
  BY <1>1, <1>3, <1>4, <1>6, <1>8, <1>9, <1>10, OwnRun, RunFacts

\* An upload that returns is claimed by the run, and one that throws puts the
\* blame on R2.
LEMMA UploadKeeps ==
  ASSUME SocialInv, TypeOK', NEW p \in Processors,
         work[p].pc \notin {"idle", "throw", "settle"},
         NEW q, work' = [work EXCEPT ![p] = q],
         q.gen = work[p].gen, q.pc \in {"report", "commit"},
         NEW o \in Objects, o[2] = work[p].gen,
         bucket' \in {bucket, bucket \union {o}},
         UNCHANGED <<job, runs, links, deleted>>,
         blamed \subseteq blamed',
         Claims(q, o) \/ o[2] \in blamed',
         \A x \in Objects : Claims(work[p], x) => Claims(q, x),
         Uploads(p)'
  PROVE  SocialInv'
<1> DEFINE g == work[p].gen
<1>1. /\ TypeOK /\ work'[p] = q /\ RunOK(p)
      /\ g \in Gens /\ g[1] \in Keys /\ g[2] <= runs[g[1]]
      /\ JobOK(g[1])
      /\ \A x \in Objects : ObjectOK(x)
  BY RunFacts
<1>2. Holds(p)'
  BY <1>1 DEF RunOK, Holds
<1>3. ASSUME NEW x \in Objects PROVE ObjectOK(x)'
  <2>1. ObjectOK(x)
    BY <1>1
  <2>2. CASE x = o
    <3>1. Excused(x)'
      BY <1>1, <2>2 DEF Excused
    <3>2. QED
      BY <1>1, <2>1, <2>2, <3>1 DEF ObjectOK
  <2>3. CASE x # o
    <3>1. x \in bucket' <=> x \in bucket
      BY <2>3
    <3>2. Excused(x) => Excused(x)'
      BY <1>1, StillExcused
    <3>3. QED
      BY <2>1, <3>1, <3>2 DEF ObjectOK, Concerned
  <2>4. QED
    BY <2>2, <2>3
<1>4. \A k : JobOK(k) => JobOK(k)'
  BY DEF JobOK
<1>5. \A x \in Objects : x[2] # g => (x \in bucket' <=> x \in bucket)
  OBVIOUS
<1>6. RunOK(p)'
  BY <1>2 DEF RunOK
<1> HIDE DEF g
<1>7. QED
  BY <1>1, <1>3, <1>4, <1>5, <1>6, OwnRun DEF g

LEMMA ImageInv ==
  ASSUME SocialInv, TypeOK', NEW p \in Processors, UploadImage(p)
  PROVE  SocialInv'
<1> DEFINE r  == work[p]
           g  == work[p].gen
           pc == AfterImage(p)
           o  == <<"image", g>>
<1>1. /\ r.pc = "image" /\ UNCHANGED <<job, runs, links, deleted>>
      /\ blamed \subseteq blamed'
      /\ bucket' \in {bucket, bucket \union {o}}
  BY DEF UploadImage, dbVars, Blame
<1>2. pc \in PCs /\ pc \in {"report", "commit"} /\ (pc = "report" => p = "social")
  BY DEF AfterImage, PCs
<1>3. TypeOK /\ r \in Slots /\ RunOK(p) /\ g \in Gens
  BY <1>1, Running DEF SocialInv
<1>4. o \in Objects /\ o[1] = "image" /\ o[2] = g
  BY <1>3, GenType
<1>5. ~r.image /\ ~r.report /\ \A x \in links : x[2] # g
  BY <1>1, <1>3 DEF RunOK, Uploads, Before
<1>6. \A x \in Objects : ~Claims(r, x)
  BY <1>1 DEF Claims
<1>7. CASE work' = [work EXCEPT ![p].pc = pc, ![p].image = TRUE]
           /\ bucket' = bucket \union {o}
  <2> DEFINE q == [r EXCEPT !.pc = pc, !.image = TRUE]
  <2>1. work' = [work EXCEPT ![p] = [work[p] EXCEPT !.pc = pc, !.image = TRUE]]
    BY <1>2, <1>3, <1>7, SlotUpdate, Zenon
  <2>2. work' = [work EXCEPT ![p] = q]
    BY <2>1
  <2>3. q.gen = g /\ q.pc = pc /\ q.image /\ q.report = r.report
    BY <1>2, <1>3, SlotType
  <2> HIDE DEF q
  <2>4. work'[p] = q
    BY <1>3, <2>2 DEF TypeOK
  <2>5. Uploads(p)'
    BY <1>1, <1>2, <1>5, <1>7, <2>3, <2>4 DEF Uploads
  <2>6. Claims(q, o)
    BY <1>2, <1>4, <2>3 DEF Claims
  <2> HIDE DEF pc, o
  <2>7. QED
    BY <1>1, <1>2, <1>4, <1>6, <2>2, <2>3, <2>5, <2>6, UploadKeeps
<1>8. CASE Goto(p, pc) /\ blamed' = blamed \union {g}
  <2> DEFINE q == [r EXCEPT !.pc = pc]
  <2>1. work' = [work EXCEPT ![p] = q]
    BY <1>2, <1>3, <1>8, SlotUpdate
  <2>2. q.gen = g /\ q.pc = pc /\ q.image = r.image /\ q.report = r.report
    BY <1>2, <1>3, SlotType
  <2> HIDE DEF q
  <2>3. work'[p] = q
    BY <1>3, <2>1 DEF TypeOK
  <2>4. Uploads(p)'
    BY <1>1, <1>2, <1>5, <2>2, <2>3 DEF Uploads
  <2>5. o[2] \in blamed'
    BY <1>4, <1>8
  <2> HIDE DEF pc, o
  <2>6. QED
    BY <1>1, <1>2, <1>4, <1>6, <2>1, <2>2, <2>4, <2>5, UploadKeeps
<1>9. QED
  BY <1>7, <1>8 DEF UploadImage, Blame

LEMMA ReportInv ==
  ASSUME SocialInv, TypeOK', NEW p \in Processors, UploadReport(p)
  PROVE  SocialInv'
<1> DEFINE r  == work[p]
           g  == work[p].gen
           o  == <<"report", g>>
<1>1. /\ r.pc = "report" /\ UNCHANGED <<job, runs, links, deleted>>
      /\ blamed \subseteq blamed'
      /\ bucket' \in {bucket, bucket \union {o}}
  BY DEF UploadReport, dbVars, Blame
<1>2. "commit" \in PCs
  BY DEF PCs
<1>3. TypeOK /\ r \in Slots /\ RunOK(p) /\ g \in Gens
  BY <1>1, Running DEF SocialInv
<1>4. o \in Objects /\ o[1] = "report" /\ o[2] = g
  BY <1>3, GenType
<1>5. /\ ~r.report /\ \A x \in links : x[2] # g
      /\ r.image => <<"image", g>> \in bucket
  BY <1>1, <1>3 DEF RunOK, Uploads, Before
<1>6. CASE work' = [work EXCEPT ![p].pc = "commit", ![p].report = TRUE]
           /\ bucket' = bucket \union {o}
  <2> DEFINE q == [r EXCEPT !.pc = "commit", !.report = TRUE]
  <2>1. work' = [work EXCEPT ![p] = [work[p] EXCEPT !.pc = "commit", !.report = TRUE]]
    BY <1>2, <1>3, <1>6, SlotUpdate, Zenon
  <2>2. work' = [work EXCEPT ![p] = q]
    BY <2>1
  <2>3. q.gen = g /\ q.pc = "commit" /\ q.image = r.image /\ q.report
    BY <1>2, <1>3, SlotType
  <2> HIDE DEF q
  <2>4. work'[p] = q
    BY <1>3, <2>2 DEF TypeOK
  <2>5. p = "social"
    BY <1>1, <1>3 DEF RunOK, Uploads
  <2>6. Uploads(p)'
    BY <1>1, <1>5, <1>6, <2>3, <2>4, <2>5 DEF Uploads
  <2>7. Claims(q, o) /\ \A x \in Objects : Claims(r, x) => Claims(q, x)
    BY <1>1, <1>4, <2>3 DEF Claims
  <2> HIDE DEF o
  <2>8. QED
    BY <1>1, <1>4, <2>2, <2>3, <2>6, <2>7, UploadKeeps
<1>7. CASE Goto(p, "commit") /\ blamed' = blamed \union {g}
  <2> DEFINE q == [r EXCEPT !.pc = "commit"]
  <2>1. work' = [work EXCEPT ![p] = q]
    BY <1>2, <1>3, <1>7, SlotUpdate
  <2>2. q.gen = g /\ q.pc = "commit" /\ q.image = r.image /\ q.report = r.report
    BY <1>2, <1>3, SlotType
  <2> HIDE DEF q
  <2>3. work'[p] = q
    BY <1>3, <2>1 DEF TypeOK
  <2>4. Uploads(p)'
    BY <1>1, <1>5, <2>2, <2>3 DEF Uploads
  <2>5. o[2] \in blamed'
    BY <1>4, <1>7
  <2>6. \A x \in Objects : Claims(r, x) => Claims(q, x)
    BY <1>1, <2>2 DEF Claims
  <2> HIDE DEF o
  <2>7. QED
    BY <1>1, <1>4, <2>1, <2>2, <2>4, <2>5, <2>6, UploadKeeps
<1>8. QED
  BY <1>6, <1>7 DEF UploadReport, Blame

LEMMA CommitFailsInv ==
  ASSUME SocialInv, TypeOK', NEW p \in Processors, CommitFails(p)
  PROVE  SocialInv'
<1> DEFINE r == work[p]
           q == [r EXCEPT !.pc = "cleanup"]
<1>1. r.pc = "commit" /\ UNCHANGED <<job, runs, links, bucket, blamed, deleted>>
  BY DEF CommitFails, dbVars
<1>2. Goto(p, "cleanup") /\ "cleanup" \in PCs
  BY DEF CommitFails, PCs
<1>3. work' = [work EXCEPT ![p] = q]
  BY <1>2, SlotUpdate DEF SocialInv
<1>4. /\ TypeOK /\ work'[p] = q /\ RunOK(p) /\ r \in Slots
      /\ \A o \in Objects : ObjectOK(o)
  BY <1>1, <1>3, RunFacts
<1>5. q.gen = r.gen /\ q.pc = "cleanup" /\ q.image = r.image /\ q.report = r.report
  BY <1>2, <1>4, SlotType
<1> HIDE DEF q
<1>6. RunOK(p)'
  BY <1>1, <1>4, <1>5 DEF RunOK, Holds, Uploads, Before
<1>7. ASSUME NEW o \in Objects PROVE ObjectOK(o)'
  <2>1. Claims(r, o) => Claims(q, o)
    BY <1>1, <1>5 DEF Claims
  <2>2. Excused(o) => Excused(o)'
    BY <1>1, <1>3, <1>4, <2>1, StillExcused
  <2>3. QED
    BY <1>1, <1>4, <2>2 DEF ObjectOK, Concerned
<1>8. \A k : JobOK(k) => JobOK(k)'
  BY <1>1 DEF JobOK
<1>9. QED
  BY <1>1, <1>3, <1>5, <1>6, <1>7, <1>8, OwnRun, RunFacts

\* The clean-up deletes what it claims and the code is concerned with, and
\* nothing that a row links to.
LEMMA CleanUpInv ==
  ASSUME SocialInv, TypeOK', NEW p \in Processors, CleanUp(p)
  PROVE  SocialInv'
<1> DEFINE r == work[p]
           g == work[p].gen
           q == [r EXCEPT !.pc = "throw"]
<1>1. /\ r.pc = "cleanup" /\ UNCHANGED <<job, runs, links, deleted>>
      /\ blamed \subseteq blamed'
      /\ \/ bucket' = bucket \ Cleaned(p)
         \/ bucket' = bucket /\ blamed' = blamed \union {g}
  BY DEF CleanUp, dbVars, Blame
<1>2. Goto(p, "throw") /\ "throw" \in PCs
  BY DEF CleanUp, PCs
<1>3. work' = [work EXCEPT ![p] = q]
  BY <1>2, SlotUpdate DEF SocialInv
<1>4. /\ TypeOK /\ work'[p] = q /\ RunOK(p) /\ r \in Slots
      /\ g \in Gens /\ g[1] \in Keys
      /\ \A o \in Objects : ObjectOK(o)
  BY <1>1, <1>3, RunFacts
<1>5. q.gen = g /\ q.pc = "throw" /\ q.image = r.image /\ q.report = r.report
  BY <1>2, <1>4, SlotType
<1> HIDE DEF q
<1>6. RunOK(p)'
  BY <1>1, <1>4, <1>5 DEF RunOK, Holds, Uploads, Before
<1>7. /\ \A o \in links : o[2] # g
      /\ r.report => p = "social"
      /\ Own(p, g[1])
  BY <1>1, <1>4 DEF RunOK, Holds, Uploads, Before
<1>8. \A o \in Cleaned(p) : o[2] = g
  BY DEF Cleaned
<1>9. p = "social" => g[1] \notin Ideas
  BY <1>7, KeysAssumption DEF Own
<1>10. ASSUME NEW o \in Objects PROVE ObjectOK(o)'
  <2>1. ObjectOK(o) /\ o = <<o[1], o[2]>> /\ o[1] \in Kinds
    BY <1>4, ObjectType
  <2>2. o \in links => o \in bucket'
    BY <1>1, <1>7, <1>8, <2>1 DEF ObjectOK
  <2>3. o \in bucket' => o \in bucket
    BY <1>1
  <2>4. Claims(r, o) /\ Concerned(o) => o \in Cleaned(p)
    BY <1>7, <1>9, <2>1 DEF Claims, Concerned, Cleaned, Kinds, Processors
  <2>5. o \in bucket' /\ Concerned(o) => ~Claims(r, o) \/ o[2] \in blamed'
    BY <1>1, <2>4 DEF Claims
  <2>6. o \in bucket' /\ Concerned(o) => Excused(o)'
    BY <1>1, <1>3, <1>4, <2>1, <2>3, <2>5, StillExcused DEF ObjectOK
  <2>7. QED
    BY <1>1, <2>1, <2>2, <2>3, <2>6 DEF ObjectOK, Concerned
<1>11. \A k : JobOK(k) => JobOK(k)'
  BY <1>1 DEF JobOK
<1>12. \A o \in Objects : o[2] # g => (o \in bucket' <=> o \in bucket)
  BY <1>1, <1>8
<1>13. QED
  BY <1>1, <1>3, <1>5, <1>6, <1>10, <1>11, <1>12, OwnRun, RunFacts

\* The row links to what the run claims, and the job has one more commit.
LEMMA CommitInv ==
  ASSUME SocialInv, TypeOK', NEW p \in Processors, Commit(p)
  PROVE  SocialInv'
<1> DEFINE r == work[p]
           g == work[p].gen
           q == [r EXCEPT !.pc = "settle"]
           new == {o \in {<<"image", g>>, <<"report", g>>} :
                     IF o[1] = "image" THEN r.image ELSE r.report}
<1> SUFFICES ASSUME NEW k, k = g[1] PROVE SocialInv'
  OBVIOUS
<1>1. /\ r.pc = "commit" /\ UNCHANGED <<runs, bucket, blamed, deleted>>
      /\ links' = links \union new
      /\ job' = [job EXCEPT ![k].commits = job[k].commits + 1]
  BY DEF Commit, counters
<1>2. Goto(p, "settle") /\ "settle" \in PCs
  BY DEF Commit, PCs
<1>3. work' = [work EXCEPT ![p] = q]
  BY <1>2, SlotUpdate DEF SocialInv
<1>4. /\ TypeOK /\ work'[p] = q /\ RunOK(p) /\ r \in Slots
      /\ g \in Gens /\ k \in Keys /\ g[2] <= runs[k] /\ JobOK(k)
      /\ \A o \in Objects : ObjectOK(o)
  BY <1>1, <1>3, RunFacts
<1>5. q.gen = g /\ q.pc = "settle" /\ q.image = r.image /\ q.report = r.report
  BY <1>2, <1>4, SlotType
<1> HIDE DEF q
<1>6. /\ job[k] \in Jobs /\ job[k].st = "active" /\ job[k].commits <= job[k].stalls
      /\ Own(p, k)
  BY <1>1, <1>4 DEF RunOK, Holds, TypeOK
<1>7. /\ job'[k].commits = job[k].commits + 1 /\ job'[k].st = job[k].st
      /\ job'[k].user = job[k].user /\ job'[k].attempts = job[k].attempts
      /\ job'[k].stalls = job[k].stalls
      /\ \A j \in Keys \ {k} : job'[j] = job[j]
  BY <1>1, <1>4, <1>6 DEF TypeOK, Jobs
<1>8. job[k].commits \in Nat /\ job[k].stalls \in Nat
  BY <1>6, BoundsAssumption DEF Jobs
<1>9. JobOK(k)'
  BY <1>4, <1>6, <1>7, <1>8 DEF JobOK
<1>10. RunOK(p)'
  BY <1>1, <1>4, <1>5, <1>6, <1>7 DEF RunOK, Holds, Uploads, Before
<1>11. new \subseteq bucket /\ \A o \in new : o[2] = g
  BY <1>1, <1>4 DEF RunOK, Uploads
<1>12. ASSUME NEW o \in Objects PROVE ObjectOK(o)'
  <2>1. ObjectOK(o) /\ o = <<o[1], o[2]>> /\ o[1] \in Kinds
    BY <1>4, ObjectType
  <2>2. Claims(r, o) => o \in new
    BY <2>1 DEF Claims, Kinds
  <2>3. Claims(r, o) => o \in links'
    BY <1>1, <2>2
  <2>4. Excused(o) => Excused(o)'
    BY <1>1, <1>3, <1>4, <2>3, StillExcused
  <2>5. QED
    BY <1>1, <1>11, <2>1, <2>4 DEF ObjectOK, Concerned
<1>13. \A o \in Objects : o[2] # g => (o \in links' <=> o \in links)
  BY <1>1, <1>11
<1> HIDE DEF new
<1>14. QED
  BY <1>1, <1>3, <1>5, <1>7, <1>9, <1>10, <1>12, <1>13, OwnRun

\* The slot lets go of its job.
LEMMA LetGo ==
  ASSUME SocialInv, TypeOK', NEW p \in Processors,
         work[p].pc \in {"settle", "throw"},
         work' = [work EXCEPT ![p] = Idle],
         NEW k, k = work[p].gen[1], JobOK(k)',
         \A j \in Keys \ {k} : job'[j] = job[j],
         UNCHANGED <<runs, links, bucket, blamed, deleted>>
  PROVE  SocialInv'
<1>1. /\ TypeOK /\ work'[p] = Idle
      /\ \A o \in Objects : ObjectOK(o)
  BY RunFacts
<1>2. RunOK(p)'
  <2>1. Idle.pc = "idle" /\ Idle.gen = NoGen /\ ~Idle.image /\ ~Idle.report
    BY DEF Idle
  <2>2. QED
    BY <1>1, <2>1 DEF RunOK, Holds, Uploads, Before
<1>3. ASSUME NEW o \in Objects PROVE ObjectOK(o)'
  <2>1. ~Claims(work[p], o)
    BY DEF Claims
  <2>2. Excused(o) => Excused(o)'
    BY <1>1, <2>1, StillExcused
  <2>3. QED
    BY <1>1, <2>2 DEF ObjectOK, Concerned
<1>4. QED
  BY <1>2, <1>3, OwnRun

LEMMA SettleInv ==
  ASSUME SocialInv, TypeOK', NEW p \in Processors, Settle(p)
  PROVE  SocialInv'
<1> DEFINE g == work[p].gen
<1> SUFFICES ASSUME NEW k, k = g[1] PROVE SocialInv'
  OBVIOUS
<1>1. /\ work[p].pc = "settle"
      /\ UNCHANGED <<runs, links, bucket, blamed, deleted>>
      /\ work' = [work EXCEPT ![p] = Idle]
      /\ job' = [job EXCEPT ![k] = [job[k] EXCEPT !.st = "completed", !.result = g]]
  BY DEF Settle, Complete, dbVars, counters
<1>2. k \in Keys /\ job[k] \in Jobs /\ JobOK(k) /\ job[k].st = "active"
  BY <1>1, Running
<1>3. /\ job'[k] = [job[k] EXCEPT !.st = "completed", !.result = g]
      /\ \A j \in Keys \ {k} : job'[j] = job[j]
  BY <1>1, <1>2 DEF SocialInv, TypeOK
<1>4. /\ job'[k].st = "completed" /\ job'[k].commits = job[k].commits
      /\ job'[k].stalls = job[k].stalls /\ job'[k].user = job[k].user
  BY <1>2, <1>3 DEF Jobs
<1>5. JobOK(k)'
  BY <1>2, <1>4 DEF JobOK
<1>6. QED
  BY <1>1, <1>3, <1>5, LetGo

LEMMA ThrowInv ==
  ASSUME SocialInv, TypeOK', NEW p \in Processors, Throw(p)
  PROVE  SocialInv'
<1> SUFFICES ASSUME NEW k, k = work[p].gen[1] PROVE SocialInv'
  OBVIOUS
<1>1. /\ work[p].pc = "throw"
      /\ UNCHANGED <<runs, links, bucket, blamed, deleted>>
      /\ work' = [work EXCEPT ![p] = Idle]
      /\ job' = [job EXCEPT ![k] = Failed(k)]
  BY DEF Throw, dbVars, counters
<1>2. /\ k \in Keys /\ job[k] \in Jobs /\ JobOK(k) /\ job[k].st = "active"
      /\ job[k].commits <= job[k].stalls
  BY <1>1, Running DEF RunOK, Holds
<1>3. job[k].attempts < MaxAttempts /\ job[k].stalls <= MaxStalls
  BY <1>2 DEF JobOK
<1>4. /\ job'[k] = Failed(k)
      /\ \A j \in Keys \ {k} : job'[j] = job[j]
  BY <1>1, <1>2 DEF SocialInv, TypeOK
<1>5. JobOK(k)'
  BY <1>2, <1>3, <1>4, FailedType DEF JobOK
<1>6. QED
  BY <1>1, <1>4, <1>5, LetGo

\* Outside the runs one job changes, and it is not one a slot runs.
LEMMA JobStep ==
  ASSUME SocialInv, TypeOK', NEW k \in Keys, JobOK(k)',
         \A p \in Processors : work[p].pc # "idle" => work[p].gen[1] # k,
         \A j \in Keys \ {k} : job'[j] = job[j],
         UNCHANGED <<work, runs, links, bucket, blamed, deleted>>
  PROVE  SocialInv'
<1>1. \A j \in Keys : JobOK(j)'
  <2>1. ASSUME NEW j \in Keys, j # k PROVE JobOK(j)'
    <3>1. JobOK(j) /\ job'[j] = job[j]
      BY <2>1 DEF SocialInv
    <3>2. QED
      BY <3>1 DEF JobOK
  <2>2. QED
    BY <2>1
<1>2. Alone'
  BY DEF SocialInv, Alone
<1>3. ASSUME NEW p \in Processors PROVE RunOK(p)'
  <2>1. RunOK(p)
    BY DEF SocialInv
  <2>2. Uploads(p)'
    BY <2>1 DEF RunOK, Uploads
  <2>3. CASE work[p].pc = "idle"
    BY <2>1, <2>2, <2>3 DEF RunOK, Holds
  <2>4. CASE work[p].pc # "idle"
    <3>1. work[p].gen[1] \in Keys /\ work[p].gen[1] # k
      BY <2>4, Running
    <3>2. job'[work[p].gen[1]] = job[work[p].gen[1]]
      BY <3>1
    <3>3. QED
      BY <2>1, <2>2, <3>2 DEF RunOK, Holds
  <2>5. QED
    BY <2>3, <2>4
<1>4. \A o \in Objects : ObjectOK(o)'
  <2> TAKE o \in Objects
  <2>1. ObjectOK(o)
    BY DEF SocialInv
  <2>2. QED
    BY <2>1 DEF ObjectOK, Concerned, Excused
<1>5. QED
  BY <1>1, <1>2, <1>3, <1>4 DEF SocialInv

\* A job that is not active is run by nobody.
LEMMA NobodyRuns ==
  ASSUME SocialInv, NEW k \in Keys,
         job[k].st # "active" \/ Lost(k),
         NEW p \in Processors, work[p].pc # "idle"
  PROVE  work[p].gen[1] # k
BY Running DEF Lost

LEMMA RequestInv ==
  ASSUME SocialInv, TypeOK',
         \/ \E t \in Topics : Submit(t)
         \/ \E u \in Users, i \in Ideas : Ask(u, i)
  PROVE  SocialInv'
<1>1. UNCHANGED <<work, runs, links, bucket, blamed, deleted>>
  BY DEF Submit, Ask, dbVars, counters
<1>2. \E k \in Keys, u \in Users :
        \/ job' = job
        \/ job[k].st = "none" /\ job' = [job EXCEPT ![k] = NewJob(u)]
  <2>1. CASE \E t \in Topics : Submit(t)
    <3> PICK t \in Topics : Submit(t)
      BY <2>1
    <3>1. t \in Keys /\ Actor[t] \in Users
      BY KeysAssumption DEF Keys
    <3>2. \/ job' = job
          \/ job[t].st = "none" /\ job' = [job EXCEPT ![t] = NewJob(Actor[t])]
      BY DEF Submit
    <3>3. QED
      BY <3>1, <3>2
  <2>2. CASE \E u \in Users, i \in Ideas : Ask(u, i)
    <3> PICK u \in Users, i \in Ideas : Ask(u, i)
      BY <2>2
    <3>1. i \in Keys
      BY DEF Keys
    <3>2. \/ job' = job
          \/ job[i].st = "none" /\ job' = [job EXCEPT ![i] = NewJob(u)]
      BY DEF Ask
    <3>3. QED
      BY <3>1, <3>2
  <2>3. QED
    BY <2>1, <2>2
<1>3. PICK k \in Keys, u \in Users :
        \/ job' = job
        \/ job[k].st = "none" /\ job' = [job EXCEPT ![k] = NewJob(u)]
  BY <1>2
<1>4. JobOK(k) /\ TypeOK
  BY DEF SocialInv
<1>5. CASE job' = job
  <2>1. \A j : JobOK(j) => JobOK(j)'
    BY <1>5 DEF JobOK
  <2>2. \A p \in Processors : RunOK(p) => RunOK(p)'
    BY <1>1, <1>5 DEF RunOK, Holds, Uploads
  <2>3. \A o \in Objects : ObjectOK(o) => ObjectOK(o)'
    BY <1>1 DEF ObjectOK, Concerned, Excused
  <2>4. Alone'
    BY <1>1 DEF SocialInv, Alone
  <2>5. QED
    BY <2>1, <2>2, <2>3, <2>4 DEF SocialInv
<1>6. CASE job[k].st = "none" /\ job' = [job EXCEPT ![k] = NewJob(u)]
  <2>1. job'[k] = NewJob(u) /\ \A j \in Keys \ {k} : job'[j] = job[j]
    BY <1>4, <1>6 DEF TypeOK
  <2>2. JobOK(k)'
    BY <2>1, NewJobType, BoundsAssumption DEF JobOK
  <2>3. \A p \in Processors : work[p].pc # "idle" => work[p].gen[1] # k
    BY <1>6, NobodyRuns
  <2>4. QED
    BY <1>1, <2>1, <2>2, <2>3, JobStep
<1>7. QED
  BY <1>3, <1>5, <1>6

LEMMA QueueInv ==
  ASSUME SocialInv, TypeOK', NEW k \in Keys, Stalled(k) \/ Forget(k)
  PROVE  SocialInv'
<1>1. UNCHANGED <<work, runs, links, bucket, blamed, deleted>>
  BY DEF Stalled, Forget, dbVars, counters
<1>2. JobOK(k) /\ TypeOK /\ job[k] \in Jobs
  BY DEF SocialInv, TypeOK
<1>3. \A p \in Processors : work[p].pc # "idle" => work[p].gen[1] # k
  BY NobodyRuns DEF Stalled, Forget, Finished
<1>4. CASE Forget(k)
  <2>1. job'[k] = NoJob /\ \A j \in Keys \ {k} : job'[j] = job[j]
    BY <1>2, <1>4 DEF Forget, TypeOK
  <2>2. JobOK(k)'
    BY <2>1, BoundsAssumption DEF JobOK, NoJob
  <2>3. QED
    BY <1>1, <1>3, <2>1, <2>2, JobStep
<1>5. CASE Stalled(k)
  <2> DEFINE st == IF job[k].stalls < MaxStalls THEN "waiting" ELSE "failed"
             j  == [job[k] EXCEPT !.st = st, !.stalls = job[k].stalls + 1]
  <2>1. job' = [job EXCEPT ![k] = j]
    BY <1>5 DEF Stalled
  <2>2. /\ j.st = st /\ j.stalls = job[k].stalls + 1 /\ j.user = job[k].user
        /\ j.attempts = job[k].attempts /\ j.commits = job[k].commits
    BY <1>2 DEF Jobs
  <2> HIDE DEF j
  <2>3. job'[k] = j /\ \A x \in Keys \ {k} : job'[x] = job[x]
    BY <1>2, <2>1 DEF TypeOK
  <2>4. /\ job[k].stalls \in Nat /\ job[k].commits \in Nat /\ MaxStalls \in Nat
        /\ job[k].attempts < MaxAttempts
        /\ job[k].commits <= 1 + job[k].stalls
        /\ job[k].user \in Users
    BY <1>2, <1>5, BoundsAssumption DEF Stalled, Lost, JobOK, Jobs
  <2>5. JobOK(k)'
    BY <2>2, <2>3, <2>4 DEF JobOK
  <2>6. QED
    BY <1>1, <1>3, <2>3, <2>5, JobStep
<1>6. QED
  BY <1>4, <1>5

\* A deletion breaks links, never makes one, and excuses what it leaves.
LEMMA DeleteInv ==
  ASSUME SocialInv, TypeOK', NEW g, Delete(g)
  PROVE  SocialInv'
<1>1. /\ UNCHANGED <<job, runs, work, bucket, blamed>>
      /\ links' = {o \in links : o[2] # g} /\ deleted' = deleted \union {g}
  BY DEF Delete
<1>2. links' \subseteq links
  BY <1>1
<1>3. \A k \in Keys : JobOK(k)'
  BY <1>1 DEF SocialInv, JobOK
<1>4. Alone'
  BY <1>1 DEF SocialInv, Alone
<1>5. \A p \in Processors : RunOK(p)'
  BY <1>1, <1>2 DEF SocialInv, RunOK, Holds, Uploads
<1>6. \A o \in Objects : o \in links => o \in links' \/ o[2] \in deleted'
  BY <1>1
<1>7. \A o \in Objects : ObjectOK(o)'
  BY <1>1, <1>2, <1>6 DEF SocialInv, ObjectOK, Excused
<1>8. QED
  BY <1>3, <1>4, <1>5, <1>7 DEF SocialInv

LEMMA EvictInv ==
  ASSUME SocialInv, TypeOK', NEW i, Evict(i)
  PROVE  SocialInv'
<1>1. UNCHANGED <<job, runs, work, links, bucket, blamed, deleted>>
  BY DEF Evict, dbVars, counters
<1>2. \A k \in Keys : JobOK(k)'
  BY <1>1 DEF SocialInv, JobOK
<1>3. \A p \in Processors : RunOK(p)'
  BY <1>1 DEF SocialInv, RunOK, Holds, Uploads
<1>4. \A o \in Objects : ObjectOK(o)'
  BY <1>1 DEF SocialInv, ObjectOK, Excused, Concerned
<1>5. QED
  BY <1>1, <1>2, <1>3, <1>4 DEF SocialInv, Alone

\* Whatever a run that dies has uploaded is put down to the crash.
LEMMA CrashInv ==
  ASSUME SocialInv, TypeOK', Crash
  PROVE  SocialInv'
<1>1. /\ UNCHANGED <<job, runs, links, bucket, deleted>>
      /\ work' = [p \in Processors |-> Idle]
      /\ blamed' = blamed \union ({work[p].gen : p \in Processors} \ {NoGen})
  BY DEF Crash, dbVars, Blame
<1>2. \A k \in Keys : JobOK(k)'
  BY <1>1 DEF SocialInv, JobOK
<1>3. /\ Idle.pc = "idle" /\ Idle.gen = NoGen /\ ~Idle.image /\ ~Idle.report
      /\ \A p \in Processors : work'[p] = Idle
  BY <1>1 DEF Idle
<1>4. \A p \in Processors : RunOK(p)'
  BY <1>3 DEF RunOK, Holds, Uploads, Before
<1>5. Alone'
  BY <1>3 DEF Alone
<1>6. ASSUME NEW o \in Objects PROVE ObjectOK(o)'
  <2>1. ObjectOK(o)
    BY DEF SocialInv
  <2>2. ASSUME NEW p \in Processors, Claims(work[p], o) PROVE o[2] \in blamed'
    <3>1. work[p].pc # "idle" /\ o[2] = work[p].gen
      BY <2>2 DEF Claims
    <3>2. work[p].gen # NoGen
      BY <3>1, NullKey, Running
    <3>3. QED
      BY <1>1, <3>1, <3>2
  <2>3. Excused(o) => Excused(o)'
    BY <1>1, <2>2 DEF Excused
  <2>4. QED
    BY <1>1, <2>1, <2>3 DEF ObjectOK, Concerned
<1>7. QED
  BY <1>2, <1>4, <1>5, <1>6 DEF SocialInv

\* A run that begins has a number no object has.
LEMMA TakeInv ==
  ASSUME SocialInv, TypeOK', NEW p \in Processors, NEW k \in Keys, Take(p, k)
  PROVE  SocialInv'
<1> DEFINE q == Fresh(p, k)
<1>1. /\ work[p].pc = "idle" /\ job[k].st = "waiting"
      /\ runs' = [runs EXCEPT ![k] = runs[k] + 1]
      /\ job' = [job EXCEPT ![k] = [job[k] EXCEPT !.st = "active"]]
      /\ work' = [work EXCEPT ![p] = q]
      /\ UNCHANGED <<links, bucket, blamed, deleted>>
  BY DEF Take, Fresh, dbVars, counters
<1>2. TypeOK /\ JobOK(k) /\ job[k] \in Jobs
  BY DEF SocialInv, TypeOK
<1>3. /\ q.gen = <<k, runs[k] + 1>> /\ q.gen \in Gens
      /\ q.pc \in {"generate", "throw"}
      /\ q.pc = "generate" => Own(p, k)
      /\ ~q.image /\ ~q.report
  BY <1>2, FreshType
<1> HIDE DEF q
<1>4. /\ work'[p] = q /\ \A x \in Processors \ {p} : work'[x] = work[x]
      /\ runs'[k] = runs[k] + 1 /\ runs[k] \in Nat
      /\ \A j \in Keys \ {k} : job'[j] = job[j] /\ runs'[j] = runs[j]
      /\ job'[k] = [job[k] EXCEPT !.st = "active"]
  BY <1>1, <1>2 DEF TypeOK
<1>5. /\ job'[k].st = "active" /\ job'[k].user = job[k].user
      /\ job'[k].attempts = job[k].attempts /\ job'[k].stalls = job[k].stalls
      /\ job'[k].commits = job[k].commits
  BY <1>2, <1>4 DEF Jobs
<1>6. \A j \in Keys : JobOK(j)'
  <2>1. JobOK(k)'
    BY <1>1, <1>2, <1>5 DEF JobOK
  <2>2. ASSUME NEW j \in Keys, j # k PROVE JobOK(j)'
    <3>1. JobOK(j) /\ job'[j] = job[j]
      BY <1>4, <2>2 DEF SocialInv
    <3>2. QED
      BY <3>1 DEF JobOK
  <2>3. QED
    BY <2>1, <2>2
<1>7. \A x \in Processors : work[x].pc # "idle" => work[x].gen[1] # k
  BY <1>1, NobodyRuns
<1>8. q.gen[1] = k /\ q.gen[2] = runs[k] + 1
  BY <1>3
<1>9. Alone'
  BY <1>4, <1>7, <1>8 DEF SocialInv, Alone
<1>10. \A o \in Objects : o \in bucket => o[2] # q.gen
  <2> SUFFICES ASSUME NEW o \in Objects, o \in bucket, o[2] = q.gen PROVE FALSE
    OBVIOUS
  <2>1. o[2][2] <= runs[o[2][1]]
    BY DEF SocialInv, ObjectOK
  <2>2. runs[k] + 1 <= runs[k]
    BY <1>8, <2>1
  <2>3. QED
    BY <1>4, <2>2
<1>11. RunOK(p)'
  <2>1. Holds(p)'
    <3>1. work'[p].gen # NoGen /\ work'[p].pc # "idle"
      BY <1>3, <1>4, NullKey
    <3>2. work'[p].gen[2] <= runs'[k] /\ work'[p].gen[1] = k
      BY <1>4, <1>8
    <3>3. job'[k].commits <= job'[k].stalls
      BY <1>1, <1>2, <1>5 DEF JobOK
    <3>4. QED
      BY <1>3, <1>4, <1>5, <3>1, <3>2, <3>3 DEF Holds
  <2>2. \A o \in links : o[2] # q.gen
    BY <1>2, <1>10 DEF SocialInv, ObjectOK, TypeOK
  <2>3. Uploads(p)'
    BY <1>1, <1>3, <1>4, <2>2 DEF Uploads, Before
  <2>4. QED
    BY <2>1, <2>3 DEF RunOK
<1>12. ASSUME NEW x \in Processors \ {p} PROVE RunOK(x)'
  <2>1. RunOK(x) /\ work'[x] = work[x]
    BY <1>4 DEF SocialInv
  <2>2. Uploads(x)'
    BY <1>1, <2>1 DEF RunOK, Uploads
  <2>3. CASE work[x].pc = "idle"
    BY <2>1, <2>2, <2>3 DEF RunOK, Holds
  <2>4. CASE work[x].pc # "idle"
    <3>1. work[x].gen[1] \in Keys /\ work[x].gen[1] # k
      BY <1>7, <2>4, Running
    <3>2. job'[work[x].gen[1]] = job[work[x].gen[1]]
          /\ runs'[work[x].gen[1]] = runs[work[x].gen[1]]
      BY <1>4, <3>1
    <3>3. QED
      BY <2>1, <2>2, <3>2 DEF RunOK, Holds
  <2>5. QED
    BY <2>3, <2>4
<1>13. ASSUME NEW o \in Objects PROVE ObjectOK(o)'
  <2>1. ObjectOK(o) /\ o[2][1] \in Keys /\ o[2][2] \in Nat
    BY ObjectType DEF SocialInv
  <2>2. runs[o[2][1]] \in Nat /\ runs'[o[2][1]] >= runs[o[2][1]]
    <3>1. \A j \in Keys : runs[j] \in Nat
      BY <1>2 DEF TypeOK
    <3>2. \A j \in Keys : runs'[j] = runs[j] \/ runs'[j] = runs[j] + 1
      BY <1>4
    <3>3. \A j \in Keys : runs'[j] >= runs[j]
      BY <3>1, <3>2
    <3>4. QED
      BY <2>1, <3>1, <3>3
  <2>3. o \in bucket => o[2][2] <= runs'[o[2][1]]
    BY <1>2, <2>1, <2>2 DEF ObjectOK, TypeOK
  <2>4. ~Claims(work[p], o)
    BY <1>1 DEF Claims
  <2>5. Excused(o) => Excused(o)'
    BY <1>1, <1>2, <2>4, StillExcused
  <2>6. QED
    BY <1>1, <2>1, <2>3, <2>5 DEF ObjectOK, Concerned
<1>14. QED
  BY <1>6, <1>9, <1>11, <1>12, <1>13 DEF SocialInv

LEMMA StepInv == SocialInv /\ [Next]_vars => SocialInv'
<1> SUFFICES ASSUME SocialInv, [Next]_vars PROVE SocialInv'
  OBVIOUS
<1>1. TypeOK'
  BY TypeStep
<1>2. CASE UNCHANGED vars
  <2>1. UNCHANGED <<job, runs, work, links, bucket, blamed, deleted>>
    BY <1>2 DEF vars, dbVars, counters
  <2>2. \A k \in Keys : JobOK(k)'
    BY <2>1 DEF SocialInv, JobOK
  <2>3. \A p \in Processors : RunOK(p)'
    BY <2>1 DEF SocialInv, RunOK, Holds, Uploads
  <2>4. \A o \in Objects : ObjectOK(o)'
    BY <2>1 DEF SocialInv, ObjectOK, Excused, Concerned
  <2>5. QED
    BY <1>1, <2>1, <2>2, <2>3, <2>4 DEF SocialInv, Alone
<1>3. CASE \/ \E t \in Topics : Submit(t)
           \/ \E u \in Users, i \in Ideas : Ask(u, i)
  BY <1>1, <1>3, RequestInv
<1>4. CASE \E g \in {r.gen : r \in rows} : Delete(g)
  BY <1>1, <1>4, DeleteInv
<1>5. CASE \E i \in Ideas : Evict(i)
  BY <1>1, <1>5, EvictInv
<1>6. CASE Crash
  BY <1>1, <1>6, CrashInv
<1>7. CASE \E k \in Keys : Stalled(k) \/ Forget(k)
  BY <1>1, <1>7, QueueInv
<1>8. CASE \E p \in Processors, k \in Keys : Take(p, k)
  BY <1>1, <1>8, TakeInv
<1>9. CASE \E p \in Processors : Step(p)
  BY <1>1, <1>9, GenerateInv, ImageInv, ReportInv, CommitInv, CommitFailsInv,
     CleanUpInv, SettleInv, ThrowInv DEF Step
<1>10. QED
  BY <1>2, <1>3, <1>4, <1>5, <1>6, <1>7, <1>8, <1>9 DEF Next

LEMMA AlwaysSocialInv == Spec => []SocialInv
BY InitInv, StepInv, PTL DEF Spec

----------------------------------------------------------------------------
(* The theorems.                                                           *)

\* Every variable of the queue, its workers and its callers keeps its type.
THEOREM TypeCorrect == Spec => []TypeOK
<1>1. SocialInv => TypeOK
  BY DEF SocialInv
<1>2. QED
  BY <1>1, AlwaysSocialInv, PTL

\* A stored generation never links to an image or a report that is not in R2,
\* whatever fails and whichever processor runs its job.
THEOREM LinksCorrect == Spec => []LinksResolve
<1>1. SocialInv => LinksResolve
  BY DEF SocialInv, LinksResolve, ObjectOK, TypeOK
<1>2. QED
  BY <1>1, AlwaysSocialInv, PTL

\* Retries never commit a second row: only a run that is started again after a
\* crash can, and then one per crash.
THEOREM CommitsCorrect == Spec => []CommittedOnce
<1>1. SocialInv => CommittedOnce
  BY DEF SocialInv, CommittedOnce, JobOK
<1>2. QED
  BY <1>1, AlwaysSocialInv, PTL

\* The clean-up after a rollback leaves no report, and no image of an idea: what
\* no row links to is of a run under way, of a run during which R2 or the process
\* failed, or of a run whose own row was deleted.
THEOREM OrphansCorrect == Spec => []OrphansAreExcused
<1>1. SocialInv => OrphansAreExcused
  <2> SUFFICES ASSUME SocialInv, NEW o \in bucket, Stray(o),
                      o[1] = "report" \/ (o[1] = "image" /\ o[2][1] \in Ideas)
               PROVE  o[2] \in blamed \union deleted
    BY DEF OrphansAreExcused
  <2>1. o \in Objects
    BY DEF SocialInv, TypeOK
  <2>2. Excused(o)
    BY <2>1 DEF SocialInv, ObjectOK, Concerned
  <2>3. ~(\E p \in Processors : Claims(work[p], o)) /\ o \notin links
    BY DEF Stray, Claims
  <2>4. QED
    BY <2>2, <2>3 DEF Excused
<1>2. QED
  BY <1>1, AlwaysSocialInv, PTL

============================================================================
