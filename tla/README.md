# TLA+ models of the AquaShield restoration backend

The repository is the backend of a restoration company: NestJS 11, Prisma on
PostgreSQL, Redis with BullMQ for background jobs, Cloudflare R2 for files,
Socket.IO for notices, and Gemini for the content it generates. The modules in
this directory model the parts of it in which order, failure and concurrency
decide whether the program is right. TLC checks them on small instances, and
TLAPS proves the most important results for every value of the constants.

Paths below are relative to the repository's `src/` (application) directory,
unless they start with `docs/` or `prisma/`.

1. [Inventory](#1-inventory)
2. [How the modules correspond to the code](#2-how-the-modules-correspond-to-the-code)
3. [What the runs check](#3-what-the-runs-check)
4. [Fairness](#4-fairness)
5. [What is proved](#5-what-is-proved)
6. [Seen while modelling](#6-seen-while-modelling)
7. [What is not modelled](#7-what-is-not-modelled)
8. [Plan](#8-plan)

## 1. Inventory

`PROJECT.json` lists every component with its files; this is the account of
those that keep state.

### Campaigns (`modules/campaigns`)

- **State**: `campaign_generations` (status, report key, scores),
  `campaign_stage_exports` (one row per funnel stage), one BullMQ job per
  campaign under the id of the campaign, zips and a report in R2, and, in
  memory, the aggregate a worker slot holds during a run.
- **Operations**: request (transaction, then an in-process event), listener
  that enqueues the job, worker `process()` with research, quality loop, AI
  detection, assets, zip and upload per stage, report, final event; hard delete,
  single or bulk; status and download queries.
- **Interactions**: request -> event -> listener -> queue -> worker -> storage
  breaker -> R2; worker -> event -> gateway -> browser.
- **Hard**: the event is emitted before the transaction commits; `save()` is
  several statements without a transaction; every catch block decides
  differently what is saved; crash and redelivery to a terminal campaign; a
  second run under an expired lock; deletion under a run.
- **Right when**: links always resolve, the outcome pushed is the one stored, a
  status does not move back, a deleted campaign stays deleted, a delivered job
  settles its campaign, an accepted request is processed.

### Social generation (`modules/social-media`, the social part of `modules/posts`)

- **State**: `social_media_generations`, images and report in R2, jobs of the
  one queue `social-media-generation`, the cached package of an idea in Redis.
- **Operations**: submit a topic (answered at once), ask for an idea (waits for
  the job), two workers on the same queue, deletion, download.
- **Hard**: the queue hands any job to either worker; finished and failed jobs
  are kept under their deterministic id; cache, job and row have different
  lifetimes; uploads happen before the transaction and are compensated after a
  rollback; a retry may follow a commit.
- **Right when**: links resolve, one job commits one row, nothing is left in R2
  without an excuse, whoever waits is answered, whatever is asked of the queue comes to an end.

### Quality loops (three copies in the workers)

- **State**: iteration, best attempt and its average, warning flag.
- **Hard**: the attempt that ends the loop and the attempt that is handed over
  are chosen by different criteria, and differently in each of the copies.
- **Right when**: what is handed over passes every threshold or carries the
  warning; with the warning it is the best one and a last resort.

### Storage breaker (`shared/storage`)

- **State**: circuit state, failure count, time of the next attempt; one object
  shared by every caller.
- **Hard**: a call reads the state before its first await and writes it after
  the last one, with other calls, retries and timeouts in between.
- **Right when**: count and state agree, an open circuit is left in peace for
  the whole reset timeout, no success closes it sooner, and it closes in the end.

### Previews of blog posts (`modules/posts`, AI generation)

- **State**: jobs of the queue `ai-generation`, previews cached for a day, hero
  images in R2.
- **Operations**: the request looks into the cache, adds a job under an id made
  from the same hash, and waits; the worker looks again, writes article and SEO
  fields, stores an image, caches, tells.
- **Hard**: a request that missed may add its job after the job that filled the
  cache was removed; a failed attempt tells of a failure though others follow;
  failures and crashes between payment, cache and answer; 32-bit hashes.
- **Right when**: an article is paid once, a failed attempt leaves no image, the
  last word is true, whoever waits is answered.

### Backup (`modules/backup`)

- **State**: `database_backups`, dumps in R2, temporary files.
- **Operations**: cron and manual run (row, dump, upload, flip), retention by a
  listener, deletion, download.
- **Hard**: each stage is outside the transactions of the others, with one catch
  around them; every completed run starts a retention nobody waits for.
- **Right when**: rows and dumps stay in step, terminal rows stay terminal, runs
  end, the window is enforced.

### Auth and users (`modules/auth`, `modules/users`)

- **State**: `users` (password, lock, second factor), sessions with rotating
  refresh tokens, one-time codes, backup codes, trusted devices, password setup
  tokens; failure counters in Redis.
- **Operations**: register, verify, login, second factor, refresh, logout,
  change, reset and set up the password, OAuth, profile; administration of users.
- **Hard**: every use case reads the whole account and writes all its columns,
  and so does the administration of users, so that concurrent requests overwrite
  each other's lock, password or factor; refresh revokes sessions and then throws
  inside its transaction; the failure counter and the lock are in two stores.
- **Right when**: saves lose nothing but to an overlap, a revoked session stays
  so, sessions know the password in force, a code works once, the factor comes
  and goes with its codes and devices.

### Roles, permissions, routes, seed (`modules/roles`, `core/access`, controllers, `prisma/seed.ts`)

- **State**: roles, their permissions, direct permissions, the ability of each
  user cached in Redis; what the seed has written.
- **Hard**: the rules are read in three queries and stored after the invalidation
  that should have removed them; the router takes the first route that matches;
  the seed has no transaction and is run again over edited data.
- **Right when**: cached rules are true or replaced soon, every route is reached
  and can be granted, viewers change nothing, the seed can be rerun but for two edits.

### Appointments and availability (`modules/appointments`, `modules/availability`)

- **State**: leads with status, address, inspection status and date; weekly rules
  and exceptions of a day.
- **Hard**: updates write whole rows; slots are offered long before they are
  booked and never looked at again; the buffer of seven hours is closed on both
  ends, in minutes of a day and in the zone of the server; mails follow the commit.
- **Right when**: no two leads share an address, a booked slot keeps its distance,
  a lead that declined stays so, an address changes on purpose, a confirmed client
  was told.

### Calls and mails (`modules/retell-calls`, `shared/external/email`)

- **State**: one record per call, the mail queue with its retries, one breaker.
- **Hard**: duplicated and concurrent webhooks, synchronisation and deletions
  beside them, a mail that only the delivery that inserts sends, retries shorter
  together than the time the breaker stays open.
- **Right when**: one record and one mail per call, the analysis stays, every
  mail is sent or given up, the provider is not called without bound.

### Back office (`modules/posts`, `blog-category`, `companydata`, `contact-support`, lists)

- **State**: posts with a date, files that a column links, marks of messages and
  calls, the dashboard, pages a reader has seen.
- **Hard**: the cron of every instance reads due posts outside the transaction
  that saves them whole; files are stored before and deleted after the
  transaction that links them; bulk operations announce what they read before;
  pages, counts and the next page are queries of their own.
- **Right when**: only overlaps lose a write, due posts are published, links lead
  to files and files have links, events tell of what has happened, readers see
  rows once.

The hazards of all of them, with file and line, are in `PROJECT.json`. Without
state that outlives a request, or append only, and therefore without a module:
the activity log, AI providers, exporters, images, phone numbers, pipes, filters,
health, wiring.

## 2. How the modules correspond to the code

The `map` of `PROJECT.json` gives the lines of every definition. Definitions
whose comment begins with MUTANT are deliberately wrong variants of the
definition that follows; no specification uses them, and they show that each
property can fail.

### CampaignLifecycle, CampaignExport, CampaignOverlap

`CampaignLifecycle` is what users are promised about a campaign: the status a
GET returns (`status`, "absent" for a 404) and the outcomes pushed to them
(`told`). It knows nothing of transactions, queues or workers.

`CampaignExport` is the pipeline. Its variables are the state of the outside
systems and of the process:

| Variable | Stands for |
|---|---|
| `tx`, `emitted` | the open transaction of a request, the event it has emitted |
| `row`, `reportRow`, `stageRow` | PostgreSQL: status, report key, stage rows |
| `job` | BullMQ: state, holder of the lock, attempts, stalls |
| `work` | worker slots: the await a run is at (`pc`), its copy of the aggregate, the stage of the loop, the `save()` it is in (`point`, `up`) |
| `store` | R2: stage zips, and the report as stage 0 |
| `ready`, `told` | what the gateway has pushed |

One action is the code from one await to the next. `save()` is one update and
one upsert per stage without a transaction (`UpdateRow`, `UpsertStage`,
`SaveThrows`), called at seven points; `Saved` and `SaveThrew` say where
`process()` goes on from each of them, that is, which catch block an error
lands in. `Crash` rolls back open transactions and drops the runs and the
events; `Stalled` is BullMQ's check for jobs nobody renews. The contents of the
artefacts are abstracted to the outcome of their stage.

`CampaignOverlap` adds `LockExpires`: BullMQ hands out a job whose run is still
alive, and two runs save their copies over each other.

`Delete` leaves job and objects alone, as the handler does; a run whose row is
gone goes on uploading, and its saves throw.

### QualityLoop, QualityScores

`QualityLoop` has the three loops in one module, with the two differences
between them (`StartAverage`, `Handed`) as operators. The attempts, which of
them pass, and their averages are constants, so that the proofs hold for any
scores; `QualityScores` defines them as the code does (thresholds, rounding in
two of the loops, none in the third), and `MCQualityLoop` puts the two together.

### StorageBreaker

The variables are the fields of the adapter, with times kept relative to now:
`wait` is `nextAttemptTime - now`, `age` is `now - lastFailureTime`. `Begin`,
`Retry`, `GiveUp` and `Succeed` are the stretches of a call between its awaits.
A refused call changes nothing and has no action. The breaker does not know
what it uploads; the modules above treat an upload as an action that succeeds,
fails, or fails after the object has landed (the timeout does not cancel the
request).

### SocialQueue

Keys stand for the deterministic job ids: a topic's contains its user, an
idea's does not. A run is named by key and number (`<<k, n>>`), which is also
the identity of the row and the objects it makes. Both processors take any
waiting job; a job of the other kind throws at once (`Own`). `client` is what
each user's request for an idea is waiting for or has heard; `submits` counts
the requests for topics, which are answered "queued" whatever `queue.add` did.
`blamed` is auxiliary: the runs during which R2 or the process failed, so that
`OrphansAreExcused` can say which leftovers are the code's own.

### Previews, GenerationQueues

A theme is topic, niche and word count; `hash` gives its key, which is both the
key of the cache and the id of the job. `Hashes` holds the ways keys may fall: in
the run, two themes have two keys or one. `slot` is the worker of each server,
from await to await: `Look` (the second look into the cache), `Write` (the
article; on a theme of `Barren` it is empty every time), `Fields` (the SEO fields,
whose call may fail when the article is paid), `Picture`, `Cache`, `Tell`, `Return`,
or `Throw`. Both failures that the code swallows, of the image and of Redis, are
branches of their steps. `Stalled` is BullMQ's rule for jobs without a lock, after a
crash or (`LoseLock`) under a run that goes on.
`excuses` counts, under every key, the events after which an article must be paid
again, and `wasted` holds the images that a crash or a lost answer left.

`GenerationQueues` puts it beside `SocialQueue`: the two queues of `modules/posts`
for which a user waits. They share no state, so that one of them, chosen at the
start, moves, and the other rests where nothing in it has to come.

### DatabaseBackup

`run[b]` is where `RunBackupHandler` is: dump, upload, flip, announcement, or the
catch and the `finally`. The dump in `bucket`, the file in `tmp` and the row change
in the step that changes them in the code, and a fault or a crash may hit any of
them; `excused` marks the runs they hit, `undeleted` the dumps whose deletion they
hit. `Prune` is the listener of retention, one
row at a time, on the list it has read. Backups are numbered by `createdAt`, so
that "the newest `Keep`" is a comparison of numbers.

### Auth

One account, with everything that hangs on it, and requests of every kind against
it. A request reads (`img` is the account in its memory), then works on codes,
counters or sessions, then saves: `Effect(op, img, r)` is what its operation makes
of the image, and the save writes all columns of that. `unseen` notes the kinds of
changes committed since its transaction began, `missed` those since its first
read, `crossed` the kinds two overlapping requests have both written, and every
exception in a property is one of these, so that a property says: only an overlap
of these two kinds can do that. Passwords, secrets, codes and sessions carry the
name of the request that made them. `UpdateUser` of the administration saves only
the columns it knows, among them the flag of the second factor and the hash.

### Access

`check` is a request that builds an ability: it reads the cache, the roles, their
permissions and the direct permissions in queries of their own, and stores the
result; `change` is an administrator who commits and then removes the entries of
one user (`del`) or of all of them (`scan`, `exec`). A command to Redis may be lost.
Entries expire after five minutes (`Expire`, the fairness). `held` is what the user
was allowed while the rules were read.

### Slots, Bookings

`Slots` has the algorithm as operators on minutes: the starts every half hour up
to a flat cutoff, the buffer closed on both ends, `Clock` for the shift between the
zone an inspection is stored in and the zone of the server (`Zone` is 0 in a
container that runs in UTC). `Bookings` puts leads around it: a request reads in
its transaction, and commits; others commit in between. `unseen` marks an update
whose row another one has changed since, `outdated` a time that was picked from
slots that something has changed since. An update may change any field, the address
among them, and the partial unique index turns it down (P2002, on which the
transaction rolls back) if a lead that is not deleted has that address, also when
the image it saves brings an old address back. `told` is what the client knows; a
mail goes to the address the lead has when the listener loads it, or nowhere.

### MailQueue, RetellIngest

`MailQueue` is the queue of mails with the breaker of its worker; time passes in
units, and of a wait only the rest is kept. `RetellIngest` extends it by one call:
what Retell knows of it, the deliveries of its webhook, a synchronisation that
lists first and writes later, deletions and restorations of the record. A record
that a delivery inserts has the mail of the same name; its listener makes none
(`SkipAlert`) if it cannot read the record or the company, or the company has no
address, which the office may take away and give back (`address`, `EditCompany`). A
mail to an address the provider refuses every time (`Poison`) is on the queue from
the start and feeds the breaker.

### Backoffice: Posts, Pictures, Inbox, Routes, Gate, Listing

`Backoffice` composes five parts that share no variable. One of them, `part`,
moves; the product would add states and no behaviour.

- `Posts`: editors read a post and write it back whole; the cron of each instance
  reads what is due (`Find`) and publishes it post by post (`Publish`) from the image
  it has read. A text is the name of its last author.
- `Pictures`: one of three tables (image of a category, signature, profile photo)
  whose column links a file: store, read, link, delete the old one, each a step.
  `doubtful` and `stray` name the files that the repository cannot account for,
  and by which event.
- `Inbox`: messages of the contact form, read into an aggregate and saved whole,
  or records of calls, changed by conditional statements after a query for their
  ids; events, mails and the dashboard follow the commit one after the other.
- `Routes`, `Gate`: `Routes` lists every route of every controller in the order of
  declaration, with its guards and its ability; `Gate` sends requests of the seeded
  roles through them, and runs the seed, again and over edited data, with a stop
  between any two of its parts. `Allowed` reads the granted abilities directly: the
  cache is in `Access`.
- `Listing`: twelve tables with their order, paging, caps, marks of deletion and
  exports; a reader reads page by page while rows come and go. `Orders` are the ways
  in which `ORDER BY` may place the rows, those of one date in any order, and a page
  is the rows of a range of places. `steady` holds the rows that were in the list all
  the time.

## 3. What the runs check

| Run | Instance | Question | States |
|---|---|---|---|
| campaign_safety | 1 campaign, 2 stages, 2 slots, 2 faults, 2 crashes | do links resolve, is the announced outcome stored, does the pipeline implement the lifecycle? | 114 000 |
| campaign_settles | 1 campaign, 1 stage, 2 slots, 2 faults, 2 crashes or expired locks | does a delivered job settle its campaign for good, even with two runs at once? | 964 000 |
| breaker | 3 calls, threshold 2, reset timeout 2, 1 retry, 9 failed attempts, 1 manual reset | is the shared circuit right under every interleaving, and does it recover? | 8 000 |
| quality | 3 loops, 25 score vectors, 3 iterations | what does each loop hand over? | 10 000 |
| social_safety | 1 topic, 1 idea, 1 user, 2 attempts, 2 faults, 1 crash, 1 deletion | links, duplicates, orphans | 1 670 000 |
| queues_live | 1 idea, 2 users, 3 attempts, 2 faults, 1 crash; or 2 themes, 2 requests, 2 servers, 3 attempts, 2 mishaps | is whoever waits for either queue answered, and what becomes of a preview that was paid? | 436 000 |
| backup | 3 backups, 1 of them kept, 1 deletion, 1 fault or crash | do rows, dumps and files stay in step, do runs end, is the window enforced? | 359 000 |
| auth | 3 requests of any kind, 1 trusted agent, lock at 2, 1 fault | what do overlapping whole-row saves, revocations and codes keep? | 576 000 |
| backoffice | 2 posts, 2 editors, 2 instances; or 2 rows, 3 requests for files; or 2 entries, 3 clerks; or 3 roles, all routes, 2 edits; or 4 rows of 4 or 3 dates, pages of 2, exports of 4, 2 moves; 1 fault each | posts, files, notices, routes and seed, lists | 901 000 |
| access | 1 user, 2 roles, 1 permission, 2 requests, 2 administrators, 1 lost command | when may cached rules be old, and for how long? | 438 000 |
| bookings | 2 leads, 2 addresses, 2 requests, 2 times, 2 openings, 1 edit of the day, 1 fault | what is booked, declined and told? | 490 000 |
| retell | 2 deliveries, 1 synchronisation, 2 records, 1 deletion and its undoing or edit of the company, 1 poisoned mail, 3 attempts, 1 fault | is a call recorded and mailed once, and every mail settled? | 1 092 000 |

All of them pass. Several properties of one subject are conjoined under one
name, and each conjunct has its own comment in the module.

**Campaigns, social generation, quality, breaker**

- `LinksResolve` (campaigns and social): a link in a row or in a push leads to
  an object that exists. It could fail by an upload that is linked before it has
  returned, by a clean-up that deletes a linked object, or by a second run.
- `AnnouncedIsStored`: when the final event goes out, the row has that status
  and the stage rows are the ones it was computed from.
- `LifecycleSpec`: `CampaignExport` implements `CampaignLifecycle` under
  `accepted <- {c : tx[c] = "committed"}`, `status <- row`, `told <- told`.
- `DeliveredStaysSettled`: a campaign whose job is waiting reaches a final
  status or is gone, and stays so. `process()` swallows nearly every error, so
  this rests on its catch blocks and not on BullMQ's retries. Three endings are
  named as exceptions, because the code does leave the campaign in "processing"
  there: BullMQ gives the job up, the save of the failure fails too (`unsaved`, the
  innermost catch), or the process dies after a run that had lost its lock has
  saved over the outcome of its successor.
- `CountMatchesState`, `NoEarlyProbe`, `OnlyQuietForgives`, `Recovers`: the breaker,
  seen from R2 and from its callers. A half-open circuit admits everybody, so that
  probes fail and succeed side by side; none of their successes undoes a failure.
- `BestWhenWarned`, `CampaignWarnedOrPassing`: the contract of the quality warning.
- `CommittedOnce`: retries never duplicate a row; only a crash after the commit
  can.
- `OrphansAreExcused`: what is in R2 without a link is the work of a run under
  way, of a deleted row, or of a run that met a failure of R2 or a crash. The
  image of a topic is excluded: the code makes no attempt to remove it.
- `QueuesDrain`: again and again nobody waits and no job is unfinished, in either
  queue. Requests are bounded in number, so that this says that each of them ends.
- `PreviewsAreKept` = `PaidOnce` (an article is paid again only after the preview
  expired, Redis lost it, a run was cut off or lost its lock, or the SEO call failed
  the attempt that had paid), `ImagesHavePreviews` (an attempt
  that fails stores no image), `AnswersFit` (only themes of one hash get each
  other's article), `NewsIsTrue` (a completed job was told so last, unless two of
  its runs overlapped).

**Backup**: `DumpsAreAccountedFor` = `OrphansAreExcused`, `LostDumpsWereStale`,
`TempFilesAreRemoved`: no dump without row or run (but for a run that failed or lost
its row, and for a deletion that failed, which section 6 tells of), none missed by a
row that was not beyond the window, no file on the disk after its run. `RunsEndOnce` = `RunsEnd`,
`TerminalIsFinal`. `WindowIsEnforced`: again and again no backup is beyond the
newest `Keep`, unless a call or the process failed.

**Auth**: `AccountIsWhole` = `SecretIsProven`, `FactorsEndTogether`,
`OneCodeAtATime`, `FailuresLock`. `SavesLoseOnlyToOverlap`: a save makes of the row
what its operation makes of it, unless another request committed since its
transaction began. `SessionsKnowThePassword`, `RevocationsLast`, `CodesAreSpentOnce`:
each names the overlaps that alone can break it.

**Back office**: `FilesMatchRows` = `PicturesResolve`, `NoFileIsForgotten`.
`NoticesTellTheTruth` = `BoardShowsCalls`, `MessagesAreTold`, `EventsTellChanges`.
`RoutesAreReached`: no route is declared after another one whose parameter takes its
path. `SeedGuardsRoutes` = `DemandsAreSeeded` once the seed is through,
`ViewersOnlyRead`, `SeedRunsAgain` (a rerun fails only over an account whose email
was changed, or a deleted category).
`RowsLoseOnlyToOverlap` = `TextsLoseOnlyToOverlap`, `PublishesWhatIsDue`,
`MarksLoseOnlyToOverlap`. `DuePostsArePublished`: also when another post of the
batch fails every time. `ReadersSeeRowsOnce` = `ListsMissNothing`,
`ExportsMissNothing`, `NothingTwice`, with the ways in which offset paging does miss
or repeat rows as their exceptions; an export is one page and misses rows only when
it is full.

**Access**: `RulesAreTrue` = `CacheTellsTheTruth`, `MixturesAllowNothingNew`;
`ChangesShowInTheEnd`, whatever removal was lost or overtaken.

**Bookings**: `LeadsAreConsistent` (no two share an address; `ConfirmedAreTold`),
`BookingsAreSpaced` (more than seven hours between inspections, unless something
changed between the offer and the save), `DeclinedIsFinal`, `AddressesAreKept` (an
address changes on purpose, or a stale image brings it back).

**Calls and mails**: `DeliveriesAreKept` = `InsertsAreMailed`, `AnalysesAreKept`,
`ProviderCallsAreBounded`: the mail about a new call is lost only in a crash, to a
listener that cannot read what it needs, or for want of an address of the company;
`LateMailsReachTheProvider`: a mail is given up without a
call to the provider only if the breaker had longer to wait than all attempts
take; `EverythingSettles` = `CallsAreRecorded`, `MailsAreSettled`.

### Bounds and why they are enough

Bounds are CONSTANTS, and `Max...` counters appear in the guards of what they
bound.

- One campaign: two campaigns share nothing but the slots (their rows, jobs and
  objects are indexed by campaign), and contention for slots only delays
  `Take`. The proofs cover any number.
- Two slots: the processor's concurrency, and the least at which a redelivered
  job can overlap its first run. Two stages where the loop over the stages
  matters (first and last differ), one where it does not.
- Two faults and two crashes: an error inside a catch block is the second
  fault; the second crash exhausts `MaxStalls = 1`, after which BullMQ gives the
  job up. `campaign_settles` has two of each as well: with fewer, none of the
  endings that `DeliveredStaysSettled` names could happen, and it would hold
  without them.
- Breaker: three calls are one more than the threshold of two, so that a call
  may be in flight before the circuit opens, another probe it, and the third
  come late. Nine failed attempts let four calls give up: two
  open the circuit, and two more fail as a probe or as a late call.
- Quality: three iterations have a first, a middle and a last one; two metrics
  suffice for thresholds and average to rank two attempts in opposite orders.
- Social: two attempts in the safety run have both a retry and a last attempt
  (the code's three add one more in the middle; the liveness run uses three).
  Ideas only in the liveness run, since only they have waiting users.
- Previews: two requests race for one key or for two that two servers work on;
  two mishaps fail a job by stalling, or follow a crash by the removal of the job.
- Backup: three runs overlap while two are beyond a window of one, so that
  retention has more than one row to take and two retentions overlap.
- Auth: three requests are two that overlap and a third that sees what came of it,
  or that overlaps with both; a lock after two failures, so that a failure is
  neither the first nor the last; the faults are throws and lost events.
- Back office: two writers and two crons on one post (the other is the one that
  fails every time); an upload, a second one and a removal or a form on one row;
  three clerks of whom one overtakes the other; four rows and pages of two, so that
  a row moves over a boundary in both directions, and a cap of three below the size
  an export asks for.
- Access: two requests and two changes are what a stale store, a lost removal and
  a mixture of two states need. One user, since entries of users do not meet.
- Bookings: two leads, at 8:30 and 15:30, exactly seven hours apart, and openings at
  8:00 and 8:30: the boundary is the case.
- Retell: waits are counted in units of four seconds; two retries after 1 and 2 units
  against a breaker of 4 keep the relation of the code's 30 s against 60 s.

`CHECK_DEADLOCK FALSE` stands in every configuration but that of the breaker:
requests and faults are bounded, and the system stops when everything is settled.

## 4. Fairness

Liveness is checked under weak fairness of what the code's environment does by
itself, and of nothing else:

- campaigns: `CommitRequest` (a transaction ends), `Enqueue` (the event loop
  runs listeners), `Take` by some slot (BullMQ hands out waiting jobs),
  `Stalled` (BullMQ's stalled check) and `Step` of each slot (an await returns
  or throws). Requests, deletions, faults, crashes and expiring locks are never
  forced.
- breaker: each call in flight ends (`requestTimeout` bounds every attempt), time
  passes, and callers keep coming. The last one is an assumption on traffic:
  without callers nobody probes an open circuit. `Recovers` further needs that
  failures end, which the bound on failed attempts provides.
- queues: `Step` of each processor or `Work` of each server, `Take` of each job by
  some processor, `Stalled` and `Recover`, and `Enqueue`: a handler that has looked
  into the cache goes on. Nothing says which processor takes a job. In
  `GenerationQueues` the part that rests has none of these actions enabled, so that
  its fairness excludes no behaviour of the other.
- backup: the steps of a run, of a retention and of a deletion that have begun.
- posts: the cron of each instance runs again and again; requests do not have to.
- access: an entry expires (Redis, five minutes); nothing else is needed for
  `ChangesShowInTheEnd`.
- retell: Retell analyses a call and delivers its event, a delivery that has begun
  goes on, the worker of the mails goes on, and time passes.

Where a property has the form "again and again P", P holds in the end for good as
far as the bounded requests go; it is written so because one such formula costs
the checker less than one per request.

## 5. What is proved

All proofs hold for every value of the constants that satisfies the named
assumptions (`NStagesAssumption`, `BoundsAssumption`, `NullsAssumption`,
`BreakerAssumption`, `LoopAssumption`, `KeysAssumption`, `PreviewsAssumption`,
`BackupAssumption`, `AuthAssumption`, `NamesAssumption`, `AccessAssumption`,
`AbsentAssumption`, `MailQueueAssumption`, `RetellIngestAssumption`,
`BackofficeAssumption`): any number of campaigns, slots, stages,
calls, attempts, backups, requests, faults and crashes.

**`CampaignExport_proofs`**: `TypeCorrect`, `OverlapTypeCorrect` and
`OverlapLinksResolve`. `TypeInv` adds `WellFormed` to the types: a slot that
runs something has a campaign, and the status of a run at the announcement is
final; without it `told` would not keep its type. `LinksResolve` is not
inductive, since a save copies the memory of a run into the database.
`LinkInv` adds `RunLinked`: every result "ok" in memory has its object in R2,
and a run at "attach" has uploaded the zip of its stage. Each lemma about a
record transformer (`Save`, `Attach`, `Saved`, ...) shows that it introduces no
"ok" of its own. Expired locks do not matter to it, so the theorem is stated
for `OverlapSpec`.

The second part of the module is about `Spec` alone: `AnnouncedCorrect` and
`CampaignImplementsLifecycle` (`Spec => LifecycleSpec`). Both rest on `RefInv`:

- `Holds`: a slot that runs a campaign holds its job, so no two slots run the
  same one. (That is what an expired lock breaks, and why these two theorems
  are about `Spec` alone.)
- `Shape`: which status and which results a run has at each await.
- `Agrees`: what the row and the stage rows say meanwhile: "processing" while
  the loop runs, the run's status once its update is done, the results of the
  stages upserted so far.
- a row, and a run that is past its load, belong to a committed request.

Every step then maps to one step of the lifecycle (commit, update of the row,
delete, announcement) or to none.

**`Retries_proofs`**, about what is tried again: the breaker, the quality loops, and
calls and mails. Of the breaker: types, `CountMatchesState`, and the action properties `NoEarlyProbe`,
`FailedProbeReopens` and `OnlyQuietForgives`. The invariant adds `WaitMatchesAge`,
which ties the time until the next attempt to the time since the last failure, and
says that a half-open circuit has seen none for a whole `ResetTimeout`. Of
the quality loops: `LoopInv` (the best attempt is the best one tried; a running loop
has seen nothing pass; what a finished loop hands over) and from it
`ExhaustedWhenWarned`, `BestWhenWarned` and `CampaignWarnedOrPassing`, for any set
of attempts, averages and thresholds.

Of calls and mails: `DeliveriesCorrect` (`DeliveriesAreKept`) and `LateMailsCorrect`
(`LateMailsReachTheProvider`), for any number of records, deliveries, deletions, edits and
faults, any backoff that grows by whatever steps (`MailQueueAssumption` says that the
attempts start one after the other) and any breaker. `IngestInv` adds to the types:

- `Mailed`: while a mail is queued its calls to the provider are at most its failed
  attempts, and one more if the worker has stopped with it.
- `Patient`: as long as the breaker has not opened again, a mail it has turned down
  will have attempts left when the breaker has waited. This is what remains at each
  moment of the comparison made at the first attempt; every attempt turned down, and
  every unit of time, keeps it.
- `RecordsInv`: a record is there once it has data, one at most is not deleted, and
  what a delivery or a synchronisation has found is there.
- `NewsInv`: a delivery about to tell of its record is alone in that, and the record
  has no mail yet. Hence one mail, or none if it is among those that `lost` names.
- `AnalysesInv`: an image without the analysis is on its way to the record only if
  nothing newer has been written since it was fetched, or `behind` notes it.

**`SocialQueue_proofs`**: types, `LinksResolve`, `CommittedOnce` and
`OrphansAreExcused`, for any keys, slots, attempts, stalls, faults and crashes.
The properties need more than themselves: a clean-up deletes objects,
so links stay whole only if no clean-up touches the objects of a committed row,
and uploads precede the commit, so an object without a row must be claimed by
somebody. `SocialInv` adds:

- `Alone`: no two slots run the job of one key.
- `Holds`, `Uploads`: a slot's job is active, its run is the latest one of its
  key, and what it remembers having uploaded is in R2.
- `ObjectOK`: a row links only to what is in R2; an object is linked from a row,
  claimed by the run that uploaded it, or excused by a fault, a crash or a
  deletion.
- `JobOK`: attempts and stalls stay within their limits, and the commits of a
  key are counted against its stalls.

**`Previews_proofs`**: `PreviewsCorrect`, that is `PreviewsAreKept` for any number
of themes, requests, servers, attempts and mishaps, and for any hash.
`PreviewsAssumption` is the hypothesis; `GenerationQueues`, which extends the
module, assumes it as `BlogAssumption`, and TLC evaluates it there. Servers are
finite, since the argument counts runs. Five invariants, each on top of the ones
before:

- `TypeInv`, the types.
- `FitInv`: a job, a run, a cached preview and an answer have the hash they are
  filed under. `AnswersFit` follows.
- `ImageInv`: an image of the n-th article of a hash is named `<<hash, n>>`, so a
  new article never takes the name of an old one; each image belongs to the run
  that makes it, to a preview that came as far as the cache, or to a mishap.
- `NewsInv`: the job of a hash without overlap has one run, so the last notice is
  the one of the run that ended it.
- `PayInv`: under each hash, what was paid, plus the runs that lost their job
  before they paid, plus one when the next run would still pay, is at most one
  more than the excuses. `PaidOnce` alone is not inductive: a run that has passed the
  cache and lost its lock has paid nothing yet, but will.

**`DatabaseBackup_proofs`**: `DumpsCorrect` (`DumpsAreAccountedFor`) and
`TerminalStays` (`TerminalIsFinal`), for any number of backups, deletions and faults
and any retention window. `DumpsAreAccountedFor` says nothing of where a run is, and
so is not inductive. `BackupInv` adds:

- `RowsFollowRuns`: until its flip a run has a row that is PENDING or was deleted
  under it (and is excused); a terminal row is of a run that is past the flip; and
  nobody takes the dump of a run that is about to register it.
- `RemovalsArePast`, `PrunesArePast`: a deletion or a retention run takes what was
  completed and has been beyond the window, and takes the row only once the dump is
  gone or excused. This is the order of `handle()`: object first, row second.
- `StaleIsNoted`: what the query would list has been noted as stale. It rests on
  `BeyondShrinks`: with fewer completed backups, none comes to be beyond the window.
- `FilesHaveRuns`: a whole file is of a run that knows its path and is not through.

**`Auth_proofs`**: `AccountCorrect` (`AccountIsWhole`), `SessionsCorrect`
(`SessionsKnowThePassword`) and the action properties `SavesLoseNothing`,
`RevokedStayRevoked` and `SpentOnce`, for any number of requests, agents and faults
and any limit of wrong passwords. `NamesAssumption` says that the name of a request is
not a pair, which is how the model tells backup codes from one-time codes. The
thirty-odd actions are first sorted into families (arrivals, saves, rollbacks,
issues, updates of sessions, creations of codes...), each of which changes few
variables; an invariant then needs one step per family. The invariants, each on
top of the ones before:

- `TypeInv`: what a request holds fits the step it is at; an image that is to be
  saved has passed the checks of its operation.
- `AccountInv`: an image without a save of another request since (`unseen`) is the
  row as it is; an enable whose proof no setup has overtaken has a proven secret; a
  request about to write codes or devices has the second factor on, unless it has
  missed a disable. `SecretIsProven` and `FactorsEndTogether` follow.
- `CodeInv`: a code about to be consumed is unspent, unless another consumer has
  come between; a request about to create a code has retired all those of its
  purpose, unless one like it has come between; and the throttle keeps requests to
  resend apart.
- `LockInv`: no wrong password is lost to the count, and once the limit is reached
  the account is locked, a request is about to lock it, or a fault has been.
- `SessionInv`: a live session knows the password, is stray, or will be revoked by a
  request that has yet to look for sessions or has found it; what a rotation has
  read is live, unless a revocation has come between.

**`Administration_proofs`**, about `Access`: `RulesCorrect`, that is `RulesAreTrue` for
any users, roles and permissions and any number of requests, administrators and lost
commands. `AbsentAssumption` says that a missing entry of the cache is no entry. `AccessInv` adds
to the types:

- `AsItIs`: a request that has seen no change holds the rows as they are, however
  many of the three queries it has made; so what it stores is true.
- `Outcome`: what a request will be judged by if nothing changes any more is within
  what the user was allowed meanwhile, as long as one change at most has come
  between. `CommitMixes` shows that for the kinds of commits, one by one: permissions
  of a role, its deletion, the roles and grants of a user, a direct permission. With
  two changes it is false, which is why the property excludes them.
- a scan that has not read the keys yet is about every user.

About `Backoffice`: `PicturesKept` (`FilesMatchRows`), `NoticesAreTrue`
(`NoticesTellTheTruth`), `RowsAreKept` (`RowsLoseOnlyToOverlap`),
`PathsLeadToTheirRoutes` (`RoutesAreReached`), `SeedGuards` (`SeedGuardsRoutes`),
`ReadersSeeAll` (`ReadersSeeRowsOnce`) and `OfficeTypes` (`BackofficeTypeOK`), for any
rows, requests, clerks, instances and faults, any dates and any size of pages and
exports. Since the parts share no variable, `OfficeInv` is the conjunction of one
invariant per part, and `OfficeKeeps` has each part move or stay:

- `PictureInv`: until an upload is committed nobody knows its file (`Known`), so that
  an upload that fails takes back a file no row links; and a file that is not doubtful
  has one row, whose link a clean-up has already taken away (`OneRow`), so that a
  clean-up never deletes what a row links. `FilesMatchRows` says neither.
- `DeskInv`: an event that crossed no other one tells of the state its calls are in;
  of a message nobody hears before its request has looked, and then one receiver after
  the other. `Blank` (nobody has read what was never sent) is what `MarksLoseOnlyToOverlap`
  needs besides.
- `PostInv`: what a run of the cron has read of a post is what the post is, and due,
  unless somebody has been there since. It needs `Dated`, that a scheduled post has a
  date, which in turn holds of every image in memory.
- `GateInv` adds to the types that a part of the seed comes after those before
  (`SeedOrder`), and that a request is answered by the route whose path it has. The
  rest is about the tables: every name in `ROLE_GRANTS` is one of
  `PERMISSIONS` (`NothingIsMisnamed`), and every route is `Good` (`EveryRouteIsGood`):
  what it demands is `Seedable`, and if a reader may use it, it changes nothing. Both
  go through the tables, the routes controller by controller, with one lemma for each
  kind of declaration (`Declared`, `AlsoDeclared`, `UnderIsGood`). That the router
  finds for the path of a route this route and no earlier one (`RouteIsFound`) is
  about every pair of the routes. A route that takes the path of a later one has
  its verb and, segment by segment, the same word or a parameter (`Clash`,
  `TakesClash`). The tables (`HealthRoutesTable` and so on) say of every route its
  verb and segments as its decorators and its controller give them; the first
  segments sort the routes into 21 areas, between which none can clash
  (`ClashesAreNear`), so that pairs are compared only within an area, controller by
  controller (`AuthBlock`, `UsersBlock` and so on), and joining an area to the ones
  before it keeps the order (`AreasJoin`, `RoutesAreOrdered`). The proof of
  `SeedGuards` showed that
  `ViewersOnlyRead` was stated wrongly: as an invariant it fails when a permission is
  attached, used and detached again, which one edit in the run could not show. It
  speaks now of the moment a request is let in, and the run has two edits.
- `ListInv` counts the rows that come before a row in the list (`Before`). A row
  without a twin of its date has exactly that place (`PlaceOf`), so: as long as no row comes, what was shown is before the next page
  (`Shown`); as long as none leaves, and none moves between a page and its count,
  what is before the next page was shown (`Seen`). The one page of an export lacks a
  row only if it is full (`Whole`, by `PlacesAreTaken`), whatever moves then.

**`Bookings_proofs`**: `LeadsCorrect` (`LeadsAreConsistent`), `BookingsSpaced`
(`BookingsAreSpaced`), `DeclinedStays` (`DeclinedIsFinal`) and `AddressesKept`, for any
leads, addresses, times, openings, requests, changes and faults. `NullsAssumption`
says that null and undefined are no values. Only `BookingsSpaced` needs more: `Zone = 0`,
times stored in the zone of the server; elsewhere slots are spaced by the clock of
the server and not by the stored times. `BInv` adds to the types:

- `RowsInv`: an image without a write of another request since (`unseen`) is the row
  as it is. That no two leads share an address needs nothing of the images: the
  index looks at what is saved.
- `ToldInv`: a lead whose client does not know is live, and once it is confirmed a
  request is about to tell them. The step that matters is `Update`: `Owed` shows that
  what `Knows` owes the client is what `Announced` finds in the image.
- `OffersInv`: what is on offer, or was picked, and is not out of date is among the
  slots of the day as the calendar stands. `BookingsAreSpaced` speaks of the moment
  of the write alone and could not be proved without it.

The steps are sorted into those of one request, the writes (`Marked`, the marks they
leave on others) and the changes of the calendar. The proof also found the only flaw
of the model it met: cases of `Knows` that overlapped, which a CASE leaves open.

Proved but not listed as properties of a run: the types, `FailedProbeReopens`,
`LoopInv`, `ExhaustedWhenWarned`, and `TerminalIsFinal`, which the run checks together
with `RunsEnd`.

Only model-checked:

- liveness (`DeliveredStaysSettled`, `Recovers`, `QueuesDrain`, `RunsEnd`,
  `WindowIsEnforced`, `DuePostsArePublished`, `ChangesShowInTheEnd`,
  `EverythingSettles`): liveness under fairness and ENABLED are beyond the prover;
- the arithmetic of `QualityScores`: what a sum over a set computes for every
  input needs induction over data, which the prover cannot instantiate.

## 6. Seen while modelling

What the code does that a comment, a document or an expectation says otherwise.
The properties above name each of these as an exception, or speak of what remains
true beside it.

**Campaigns, social generation, quality**

- A job redelivered after the final save finds a terminal campaign;
  `markProcessing()` throws inside the `try`, and the outer catch overwrites
  "completed" with "failed" (`campaign-export.processor.ts:471`). The listener says
  (line 39) that the job id makes retries safe.
- The event is emitted inside the transaction (`campaign-request.service.ts:158`).
  The worker may look for the row before the commit, finds none and completes the
  job: the accepted campaign stays pending for ever.
- The posts and social loops stop at a passing attempt but hand over the one with
  the best average, which may be an earlier failing one, without the warning
  (`social-post-generation.processor.ts:257`,
  `social-media-generation.processor.ts:571`).
- Two processors share one queue and neither looks at the job's name: the wrong
  one throws, and three wrong picks fail an accepted topic
  (`social-post-generation.processor.ts:58`).
- A topic whose job has failed is answered "queued" for a day although nothing is
  queued (`social-media-job.adapter.ts:61`).
- A user is given a generation that is not theirs (the job id of an idea has no
  user) or that was deleted (cache and job outlive the row)
  (`generate-social-post.handler.ts:72`, `:90`).
- Two crashes under one run exhaust `maxStalledCount`; BullMQ fails the job and
  the campaign stays "processing". So it does, with its job completed, when the save
  of the failure throws as well (`campaign-export.processor.ts:878`), and when a
  run whose lock had expired saves over the outcome of its successor and then dies.
- A hard delete leaves the zips of a campaign in R2, and invalidates keys under
  which nothing is cached (`delete-campaign.handler.ts:59`).
- The image of a topic is left behind by every failed attempt
  (`social-media-generation.processor.ts:614`).
- The social loop starts from an average of zero, so attempts that all score
  zero leave empty posts to be persisted with a warning; `BestWhenWarned`
  leaves this case out. An exception in a late iteration discards the best
  attempt of the earlier ones.
- Breaker: a success in the closed state leaves the count of failures alone
  (`circuit-breaker-storage.adapter.ts:113`), so that failures far apart add up;
  the timeout does not cancel the upload (line 230). Once the circuit is half-open
  it takes any success for a successful probe, also the late one of a call that was
  in flight when it opened.

**Previews**

- The key is a hash of 32 bits of the kind of Java's `hashCode`, and topics as
  short as "plc0" and "plan" collide in it: the second one is answered with the
  article of the first.
- A preview whose image failed is cached for a day without one, and asking again
  does not make it.
- A job that has failed answers a new request with its old error for a day.
- The user is told "failed" by every attempt, also when another one follows.
- The article is thrown away when the call for its SEO fields fails
  (`gemini-post-generation.adapter.ts:202`), and each of the attempts that follow pays
  for another one, although the header of `ai-preview.util.ts` promises that
  identical requests never call Gemini again.

**Backup**

- The temporary file of a dump that throws half-way is left, although the comment
  above it says "Always remove the temp file" (`run-backup.handler.ts:129`).
- A dump that could not be deleted stays in R2 for ever. `delete` of the storage
  swallows its failure (`r2-backup-storage.adapter.ts:91`), so that retention deletes
  the row next and with it the only pointer to the dump, although
  `backup-retention.listener.ts:62-63` says "If R2 fails the DB row stays so we don't
  lose the pointer". After a deletion by an administrator the row is gone before the
  dump is tried; `delete-backup.handler.ts:23-24` says "Orphaned blobs are cleaned up
  by the retention listener on the next backup", but that one asks the database for
  completed rows (`findCompletedBeyond`) and never lists the bucket.

**Auth and users**

- The refresh that detects reuse revokes the sessions and then throws inside the
  `@Transactional` method, which rolls the revocation back
  (`refresh-token.use-case.ts:78`, against the comment at lines 46-49).
- `session-issuer.service.ts:130` against its comment at line 125.
- After a change of password through a link sessions live on: the event has a
  listener that only logs (`user-event.listener.ts:33`).
- An update of a user saves the row it has read: it may turn the second factor
  back on after a disable, with the secret gone, undo a concurrent change of the
  password, or bring back the link to a deleted photo. The repository does not
  write `emailVerifiedAt`, so that an invited user stays unverified.

**Bookings**: an inspection without status does not block its time (SQL `NOT IN`
over NULL), although `availability.repository.ts:246` says "(non-declined)"; a first
date set after the confirmation is announced by neither event
(`update-appointment.handler.ts:174`); slots are not looked at again on save; bulk
deletion sends no cancellation; an open exception makes the calendar say available
without rule or capacity, and without `serviceDuration` it says so of a full day; an
update of anything else may write an address back that was changed meanwhile, or be
refused for it; news of an inspection goes nowhere if the address was removed.

**Calls and mails**: after a unique violation (P2002) the record is read again
inside the transaction that PostgreSQL has aborted, so that the delivery fails and
Retell repeats it; a synchronisation lists before its transaction and may write an
image without an analysis back, and one that inserts first swallows the mail; one
poisoned address opens the breaker for 60 s, while the retries of other mails last
30 s, and they are dropped, although `queued-mailer.adapter.ts:28` says "NEVER
silently dropped". A company without an address, or a listener whose lookup fails,
costs the mail about a new call for good, and the delivery is answered as done.

**Back office**

- Two overlapping bulk transitions announce the same ids twice, although
  `prisma-retell-call.repository.ts:224` speaks of "rows that really transitioned";
  deletions of contact messages send no event.
- A URL written over an uploaded image leaves the file behind; names of categories
  are unique among deleted rows too, while `findByName` ignores these.
- `two-factor.controller.ts:35` calls `setup` the only route without
  `FreshPasswordGuard`; `setup` has it (l.56), as all four routes do.
- A rerun of the seed attaches again what administrators have detached, resets the
  passwords of seeded users, although `seed.ts:13-15` calls it a no-op. It fails once a
  seeded category was deleted (`seed.ts:736`), and once a seeded user was given another
  email: the upsert by the email of the file (`seed.ts:665`) then creates a row with a
  username that is taken (`users.prisma:14-15`). `AVAILABILITY_EXCEPTION export` and
  `USER manage` have no permission. "contact-roles" and "contacts" share one subject.
- Lists are ordered by a date without tie breaker; the filter by network works on
  the page (`prisma-social-media.repository.ts:64`); the exports of posts and
  appointments give no limit and get 20 rows (`export-posts.handler.ts:96`,
  `export-appointments.handler.ts:121`); that of roles asks for 10 000 and gets 100
  (`roles.service.ts:289`); an `end_date` is midnight UTC and excludes its day
  (`date-range.util.ts:4`).
- The interceptor that caches GETs is registered nowhere.

## 7. What is not modelled

- **The wording and contents of what is generated**, layouts, files of exports and
  image conversions: data that no property tells apart.
- **Fields that single statements write**: profiles, company data, names and
  descriptions of categories and roles, deletion of users.
- **The activity log**: append only. In its strict mode it is a call that may roll a
  transaction back, and as such a fault of the modules.
- **A commit whose outcome is unknown to the client**, except in `Pictures`.
- **In Auth**: the memory of known devices, the profile, the wording of mails.
- **In Bookings**: several dates in one request, follow-ups and reasons, and the month
  calendar, which reads the same rows with the same loop and changes nothing.
- **In SocialQueue**: WebSocket notices, the `history.json` nothing reads,
  locks that expire under a live run, and two ideas that hash alike.
- **In Gate**: requests during a run of the seed; a stop or an edit between two
  upserts of one group is not told from one before the group.
- **In Listing**: two readings in a row by one reader; searches.
- **BullMQ, PostgreSQL, Redis, R2, Retell, Resend**: modelled from how the code uses
  them and marked external in the map.
- **Frontend, containers, wiring, logging, health**.

## 8. Plan

Done: every component whose correctness depends on order, failure or concurrency
has a module; the campaign pipeline, the breaker, the quality loops, social
generation, the previews, backups, accounts, access rules, bookings, calls, mails,
pictures, the inbox, posts, the seed with the routes and the lists have proofs.

Left:

| What | Why it is next |
|---|---|
| `SocialQueue` with expiring locks, as `CampaignOverlap` and `Previews` have them | the only queue without them |
