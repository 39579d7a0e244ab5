---------------------------- MODULE SocialQueue -----------------------------
(***************************************************************************)
(* The generation of content for social networks.  Two modules put jobs    *)
(* into the one BullMQ queue social-media-generation: social-media (a      *)
(* topic; the request is answered at once) and posts (a selected idea; the *)
(* request waits for the job).  Each registers a @Processor of its own on  *)
(* that queue, and BullMQ gives a job to whichever of the two is free.     *)
(* Each run uploads an image and, for a topic, a report, commits one row   *)
(* of social_media_generations and, for an idea, caches the package.       *)
(* The images of one run are one object here, the quality loop is the      *)
(* module QualityLoop; WebSocket notices and the history.json of a topic,  *)
(* which nothing reads, are left out.                                      *)
(***************************************************************************)
EXTENDS Naturals, FiniteSets

CONSTANTS
  Topics,      \* jobIds smg:<actor>:<topic, networks, language>
  Ideas,       \* jobIds social-package-<hash of idea and context>, no user
  Users,
  Actor,       \* the user in the jobId of a topic
  NoKey, NoUser,
  MaxAttempts, \* attempts: 3
  MaxStalls,   \* BullMQ's maxStalledCount, 1 by default
  MaxAsks,     \* bound: requests for one topic, or by one user for one idea
  MaxDeletes,  \* bound: generations deleted
  MaxFaults,   \* bound: calls of Gemini, R2 and PostgreSQL that throw
  MaxCrashes   \* bound: crashes of the process

Keys == Topics \union Ideas

ASSUME KeysAssumption ==
  /\ Topics \intersect Ideas = {}
  /\ NoKey \notin Keys /\ NoUser \notin Users
  /\ Actor \in [Topics -> Users]
ASSUME BoundsAssumption ==
  /\ MaxAttempts \in Nat \ {0}
  /\ {MaxStalls, MaxAsks, MaxDeletes, MaxFaults, MaxCrashes} \subseteq Nat

VARIABLES
  job,     \* the BullMQ job under every key
  runs,    \* runs begun under every key: the n-th makes generation <<k, n>>
  work,    \* what the slot of each processor is doing
  rows,    \* social_media_generations
  links,   \* objects the rows link to
  bucket,  \* objects in R2
  cache,   \* the cached package of every idea
  client,  \* the last request of every user for every idea
  submits, \* requests for every topic, each answered "queued"
  blamed,  \* auxiliary: runs during which R2 or the process has failed
  deleted, \* generations whose rows have been deleted
  faults, crashes

vars == <<job, runs, work, rows, links, bucket, cache, client, submits, blamed,
          deleted, faults, crashes>>
dbVars     == <<rows, links>>
clientVars == <<client, submits>>
counters   == <<deleted, faults, crashes>>

Processors == {"social", "posts"}
Gens       == Keys \X (Nat \ {0})
NoGen      == <<NoKey, 0>>
Kinds      == {"image", "report"}
Objects    == Kinds \X Gens
Finished   == {"completed", "failed"}
Answers    == {"idle", "waiting", "answered", "rejected", "lost"}

Jobs == [st : {"none", "waiting", "active"} \union Finished,
         user : Users \union {NoUser}, attempts : 0 .. MaxAttempts,
         stalls : 0 .. MaxStalls + 1, commits : Nat,
         result : Gens \union {NoGen}]

PCs   == {"idle", "generate", "image", "report", "commit", "cleanup",
          "settle", "throw"}
Slots == [pc : PCs, gen : Gens \union {NoGen}, image : BOOLEAN, report : BOOLEAN]

NoJob == [st |-> "none", user |-> NoUser, attempts |-> 0, stalls |-> 0,
          commits |-> 0, result |-> NoGen]
Idle  == [pc |-> "idle", gen |-> NoGen, image |-> FALSE, report |-> FALSE]

Init ==
  /\ job     = [k \in Keys |-> NoJob]
  /\ runs    = [k \in Keys |-> 0]
  /\ work    = [p \in Processors |-> Idle]
  /\ rows    = {}
  /\ links   = {}
  /\ bucket  = {}
  /\ cache   = [i \in Ideas |-> NoGen]
  /\ client  = [u \in Users |-> [i \in Ideas |->
                  [st |-> "idle", gen |-> NoGen, asks |-> 0]]]
  /\ submits = [t \in Topics |-> 0]
  /\ blamed  = {}
  /\ deleted = {}
  /\ faults  = 0
  /\ crashes = 0

----------------------------------------------------------------------------
(* The requests.                                                           *)

NewJob(u) == [NoJob EXCEPT !.st = "waiting", !.user = u]

\* POST social-media/generate-content: queue.add under a jobId that BullMQ
\* still keeps changes nothing, and the answer is "queued" either way.
Submit(t) ==
  /\ submits[t] < MaxAsks
  /\ submits' = [submits EXCEPT ![t] = submits[t] + 1]
  /\ job' = IF job[t].st = "none" THEN [job EXCEPT ![t] = NewJob(Actor[t])] ELSE job
  /\ UNCHANGED <<runs, work, dbVars, bucket, cache, client, blamed, counters>>

\* MUTANT of Hear: only the user whose request made the job is told.
HearCreator(i, st, gen) ==
  client' = [u \in Users |->
    IF client[u][i].st = "waiting" /\ job[i].user = u
    THEN [client[u] EXCEPT ![i] = [st |-> st, gen |-> gen, asks |-> client[u][i].asks]]
    ELSE client[u]]

\* What the users who wait for an idea hear: waitUntilFinished resolves or
\* rejects.
Hear(i, st, gen) ==
  client' = [u \in Users |->
    IF client[u][i].st = "waiting"
    THEN [client[u] EXCEPT ![i] = [st |-> st, gen |-> gen, asks |-> client[u][i].asks]]
    ELSE client[u]]

\* POST posts/social/generate-post: a cached package is the answer; otherwise
\* the request waits for the job, which may have ended long ago.
Ask(u, i) ==
  LET old    == client[u][i]
      now(s, g) == client' =
        [client EXCEPT ![u][i] = [st |-> s, gen |-> g, asks |-> old.asks + 1]]
  IN  /\ old.st # "waiting" /\ old.asks < MaxAsks
      /\ \/ /\ cache[i] # NoGen
            /\ now("answered", cache[i])
            /\ UNCHANGED job
         \/ /\ cache[i] = NoGen
            /\ CASE job[i].st = "none" ->
                      now("waiting", NoGen) /\ job' = [job EXCEPT ![i] = NewJob(u)]
                 [] job[i].st = "completed" ->
                      now("answered", job[i].result) /\ UNCHANGED job
                 [] job[i].st = "failed" ->
                      now("rejected", NoGen) /\ UNCHANGED job
                 [] OTHER -> now("waiting", NoGen) /\ UNCHANGED job
      /\ UNCHANGED <<runs, work, dbVars, bucket, cache, submits, blamed, counters>>

\* DELETE social-media/:id, one or in bulk: the rows go, R2 and the cached
\* packages stay.
Delete(g) ==
  /\ Cardinality(deleted) < MaxDeletes
  /\ deleted' = deleted \union {g}
  /\ rows'    = {r \in rows : r.gen # g}
  /\ links'   = {o \in links : o[2] # g}
  /\ UNCHANGED <<job, runs, work, bucket, cache, clientVars, blamed, faults, crashes>>

----------------------------------------------------------------------------
(* The queue.                                                              *)

\* A processor whose job it is not throws: the posts processor on the title of
\* an idea that a topic has not, the social processor on the networks of a
\* topic that an idea has not.
Own(p, k) == (p = "social") <=> (k \in Topics)

\* BullMQ gives a waiting job to a free processor of the queue.
Take(p, k) ==
  /\ work[p].pc = "idle" /\ job[k].st = "waiting"
  /\ runs' = [runs EXCEPT ![k] = runs[k] + 1]
  /\ job'  = [job EXCEPT ![k].st = "active"]
  /\ work' = [work EXCEPT ![p] =
       [Idle EXCEPT !.pc = IF Own(p, k) THEN "generate" ELSE "throw",
                    !.gen = <<k, runs[k] + 1>>]]
  /\ UNCHANGED <<dbVars, bucket, cache, clientVars, blamed, counters>>

\* A job whose attempt has thrown is tried again, or has failed for good.
Failed(k) ==
  LET n == job[k].attempts + 1
  IN  [job[k] EXCEPT !.attempts = n,
                     !.st = IF n < MaxAttempts THEN "waiting" ELSE "failed"]

\* An error has reached BullMQ: the users who wait hear of the last one only.
Throw(p) ==
  LET k == work[p].gen[1]
  IN  /\ work[p].pc = "throw"
      /\ work' = [work EXCEPT ![p] = Idle]
      /\ job'  = [job EXCEPT ![k] = Failed(k)]
      /\ IF k \in Ideas /\ Failed(k).st = "failed"
         THEN Hear(k, "rejected", NoGen)
         ELSE UNCHANGED client
      /\ UNCHANGED <<runs, dbVars, bucket, cache, submits, blamed, counters>>

\* No slot runs the job, and its lock has expired.
Lost(k) == job[k].st = "active" /\ \A p \in Processors : work[p].gen[1] # k

\* BullMQ's stalled check puts the job back, or fails it.
Stalled(k) ==
  /\ Lost(k)
  /\ LET st == IF job[k].stalls < MaxStalls THEN "waiting" ELSE "failed"
     IN  /\ job' = [job EXCEPT ![k] =
              [@ EXCEPT !.st = st, !.stalls = job[k].stalls + 1]]
         /\ IF k \in Ideas /\ st = "failed"
            THEN Hear(k, "rejected", NoGen)
            ELSE UNCHANGED client
  /\ UNCHANGED <<runs, work, dbVars, bucket, cache, submits, blamed, counters>>

\* removeOnComplete and removeOnFail: the finished job grows too old.
Forget(k) ==
  /\ job[k].st \in Finished
  /\ job' = [job EXCEPT ![k] = NoJob]
  /\ UNCHANGED <<runs, work, dbVars, bucket, cache, clientVars, blamed, counters>>

\* The cached package reaches its TTL, or Redis evicts it.
Evict(i) ==
  /\ cache[i] # NoGen
  /\ cache' = [cache EXCEPT ![i] = NoGen]
  /\ UNCHANGED <<job, runs, work, dbVars, bucket, clientVars, blamed, counters>>

----------------------------------------------------------------------------
(* A run: the awaits of doProcess, which the two processors share but for  *)
(* the report, the history and the cache.                                  *)

Fault == faults < MaxFaults /\ faults' = faults + 1

Blame(gens) == blamed' = blamed \union gens

Goto(p, pc) == work' = [work EXCEPT ![p].pc = pc]

\* Research, the quality loop and the AI detection have produced the content,
\* or one of the calls that is not caught throws.
Generate(p) ==
  /\ work[p].pc = "generate"
  /\ \/ Goto(p, "image") /\ UNCHANGED faults
     \/ Goto(p, "throw") /\ Fault
  /\ UNCHANGED <<job, runs, dbVars, bucket, cache, clientVars, blamed, deleted, crashes>>

\* MUTANT of AfterImage: the images of an idea are tried again for ever.
ImageAgain(p) == IF p = "social" THEN "report" ELSE "image"

AfterImage(p) == IF p = "social" THEN "report" ELSE "commit"

\* The image is optional: an upload that throws is logged, and one that timed
\* out may have landed.
UploadImage(p) ==
  LET g == work[p].gen
  IN  /\ work[p].pc = "image"
      /\ \/ /\ bucket' = bucket \union {<<"image", g>>}
            /\ work' = [work EXCEPT ![p].pc = AfterImage(p), ![p].image = TRUE]
            /\ UNCHANGED <<blamed, faults>>
         \/ /\ bucket' \in {bucket, bucket \union {<<"image", g>>}}
            /\ Goto(p, AfterImage(p))
            /\ Fault /\ Blame({g})
      /\ UNCHANGED <<job, runs, dbVars, cache, clientVars, deleted, crashes>>

\* MUTANT of UploadReport: the upload is not awaited.
UploadReportNotAwaited(p) ==
  LET g == work[p].gen
  IN  /\ work[p].pc = "report"
      /\ \/ /\ bucket' = bucket \union {<<"report", g>>}
            /\ UNCHANGED <<blamed, faults>>
         \/ UNCHANGED bucket /\ Fault /\ Blame({g})
      /\ work' = [work EXCEPT ![p].pc = "commit", ![p].report = TRUE]
      /\ UNCHANGED <<job, runs, dbVars, cache, clientVars, deleted, crashes>>

\* The report is optional too, and is linked only when its upload returned.
UploadReport(p) ==
  LET g == work[p].gen
  IN  /\ work[p].pc = "report"
      /\ \/ /\ bucket' = bucket \union {<<"report", g>>}
            /\ work' = [work EXCEPT ![p].pc = "commit", ![p].report = TRUE]
            /\ UNCHANGED <<blamed, faults>>
         \/ /\ bucket' \in {bucket, bucket \union {<<"report", g>>}}
            /\ Goto(p, "commit")
            /\ Fault /\ Blame({g})
      /\ UNCHANGED <<job, runs, dbVars, cache, clientVars, deleted, crashes>>

\* MUTANT of CommitFails: the error goes past the clean-up.
CommitFailsUncleaned(p) ==
  /\ work[p].pc = "commit"
  /\ Goto(p, "throw")
  /\ Fault
  /\ UNCHANGED <<job, runs, dbVars, bucket, cache, clientVars, blamed, deleted, crashes>>

\* The transaction of the row and its strict audit entry rolls back.
CommitFails(p) ==
  /\ work[p].pc = "commit"
  /\ Goto(p, "cleanup")
  /\ Fault
  /\ UNCHANGED <<job, runs, dbVars, bucket, cache, clientVars, blamed, deleted, crashes>>

\* The transaction commits: the row, its links and the audit entry are there.
Commit(p) ==
  LET r == work[p]
      k == r.gen[1]
  IN  /\ r.pc = "commit"
      /\ rows'  = rows \union {[gen |-> r.gen, user |-> job[k].user]}
      /\ links' = links \union {o \in {<<"image", r.gen>>, <<"report", r.gen>>} :
                                  IF o[1] = "image" THEN r.image ELSE r.report}
      /\ job'   = [job EXCEPT ![k].commits = job[k].commits + 1]
      /\ Goto(p, "settle")
      /\ UNCHANGED <<runs, bucket, cache, clientVars, blamed, counters>>

\* What a run uploaded and its clean-up knows of: the social processor forgets
\* the image, the posts processor an upload that threw.
Cleaned(p) ==
  IF p = "social" THEN {<<"report", work[p].gen>>}
  ELSE {o \in {<<"image", work[p].gen>>} : work[p].image}

\* After a rollback the uploads are deleted, as far as R2 lets the run.
CleanUp(p) ==
  /\ work[p].pc = "cleanup"
  /\ \/ bucket' = bucket \ Cleaned(p) /\ UNCHANGED <<blamed, faults>>
     \/ UNCHANGED bucket /\ Fault /\ Blame({work[p].gen})
  /\ Goto(p, "throw")
  /\ UNCHANGED <<job, runs, dbVars, cache, clientVars, deleted, crashes>>

Complete(p) ==
  LET g == work[p].gen
  IN  /\ job' = [job EXCEPT ![g[1]].st = "completed", ![g[1]].result = g]
      /\ work' = [work EXCEPT ![p] = Idle]
      /\ IF p = "posts" THEN Hear(g[1], "answered", g) ELSE UNCHANGED client

\* MUTANT of Settle: the upload of the history is not caught.
SettleUncaught(p) ==
  LET g == work[p].gen
  IN  /\ work[p].pc = "settle"
      /\ \/ Complete(p) /\ UNCHANGED faults
         \/ Goto(p, "throw") /\ Fault /\ UNCHANGED <<job, client>>
      /\ UNCHANGED <<runs, dbVars, bucket, cache, submits, blamed, deleted, crashes>>

\* After the commit nothing throws: an idea's package is cached if Redis will
\* have it, and the job is completed.
Settle(p) ==
  LET g == work[p].gen
  IN  /\ work[p].pc = "settle"
      /\ \/ UNCHANGED cache
         \/ p = "posts" /\ cache' = [cache EXCEPT ![g[1]] = g]
      /\ Complete(p)
      /\ UNCHANGED <<runs, dbVars, bucket, submits, blamed, counters>>

\* The process dies with its runs and the requests that wait in it.
Crash ==
  /\ crashes < MaxCrashes
  /\ crashes' = crashes + 1
  /\ Blame({work[p].gen : p \in Processors} \ {NoGen})
  /\ work'   = [p \in Processors |-> Idle]
  /\ client' = [u \in Users |-> [i \in Ideas |->
       IF client[u][i].st = "waiting"
       THEN [client[u][i] EXCEPT !.st = "lost"] ELSE client[u][i]]]
  /\ UNCHANGED <<job, runs, dbVars, bucket, cache, submits, deleted, faults>>

----------------------------------------------------------------------------

Step(p) ==
  \/ Generate(p) \/ UploadImage(p) \/ UploadReport(p) \/ Commit(p)
  \/ CommitFails(p) \/ CleanUp(p) \/ Settle(p) \/ Throw(p)

Next ==
  \/ \E t \in Topics : Submit(t)
  \/ \E u \in Users, i \in Ideas : Ask(u, i)
  \/ \E g \in {r.gen : r \in rows} : Delete(g)
  \/ \E k \in Keys : Stalled(k) \/ Forget(k)
  \/ \E i \in Ideas : Evict(i)
  \/ \E p \in Processors, k \in Keys : Take(p, k)
  \/ \E p \in Processors : Step(p)
  \/ Crash

Spec == Init /\ [][Next]_vars

\* A processor that can go on does, BullMQ hands out the waiting jobs and
\* looks for stalled ones.  Nothing says which processor takes a job.
Fairness ==
  /\ \A p \in Processors : WF_vars(Step(p))
  /\ \A k \in Keys :
       /\ WF_vars(\E p \in Processors : Take(p, k))
       /\ WF_vars(Stalled(k))

FairSpec == Spec /\ Fairness

----------------------------------------------------------------------------
(* Properties.                                                             *)

\* Every variable keeps its type.
TypeOK ==
  /\ job \in [Keys -> Jobs]
  /\ runs \in [Keys -> Nat]
  /\ work \in [Processors -> Slots]
  /\ rows \subseteq [gen : Gens, user : Users]
  /\ links \subseteq Objects
  /\ bucket \subseteq Objects
  /\ cache \in [Ideas -> Gens \union {NoGen}]
  /\ client \in [Users -> [Ideas ->
       [st : Answers, gen : Gens \union {NoGen}, asks : 0 .. MaxAsks]]]
  /\ submits \in [Topics -> 0 .. MaxAsks]
  /\ blamed \subseteq Gens
  /\ deleted \subseteq Gens
  /\ faults \in 0 .. MaxFaults
  /\ crashes \in 0 .. MaxCrashes

\* A row never links to an image or a report that is not in the bucket, though
\* the uploads are outside the transaction and the clean-up deletes objects.
LinksResolve == links \subseteq bucket

\* However often a job is retried it commits one row; only a run that BullMQ
\* starts again after a crash can commit a second one.
CommittedOnce == \A k \in Keys : job[k].commits <= 1 + job[k].stalls

\* "Best-effort cleanup": a report, or the images of an idea, that no row links
\* to belong to a run under way, to a deleted row, or to a run during which R2
\* or the process failed.
Stray(o) == o \notin links /\ \A p \in Processors : work[p].gen # o[2]

OrphansAreExcused ==
  \A o \in bucket :
    (Stray(o) /\ (o[1] = "report" \/ (o[1] = "image" /\ o[2][1] \in Ideas)))
      => o[2] \in blamed \union deleted

\* Nobody waits, and no job is still to end.
Drained ==
  /\ \A u \in Users, i \in Ideas : client[u][i].st # "waiting"
  /\ \A k \in Keys : job[k].st \notin {"waiting", "active"}

\* Whatever is asked of the queue comes to an end: requests are bounded in number,
\* so that each is answered, rejected or lost with its process, and BullMQ
\* neither retries a job for ever nor leaves it behind.
QueueDrains == []<>Drained

============================================================================
