------------------------------ MODULE Previews ------------------------------
(***************************************************************************)
(* The preview of a blog post written by AI (src/src/modules/posts).  The  *)
(* request looks into the cache, puts a job into the queue ai-generation   *)
(* under an id made from the same hash as the key of the cache, and waits  *)
(* for it.  The worker looks into the cache again, writes the article,     *)
(* stores an image and keeps the preview for a day.  Topic, niche and word *)
(* count are a theme here; what the search on the web finds, and its       *)
(* failure, which is swallowed, change nothing.                            *)
(***************************************************************************)
EXTENDS Naturals, FiniteSets

CONSTANTS
  Themes,
  Barren,      \* themes of which Gemini makes an empty article every time
  HashKeys,    \* 32-bit hashes
  Hashes,      \* the ways they may fall: the key of every theme
  MaxCalls,     \* bound: requests, which come in the order of their numbers
  Servers,     \* instances: each serves requests and runs one job at a time
  None,
  MaxTries,    \* attempts: 3
  MaxMishaps   \* bound: calls that fail, crashes, locks that expire, and jobs
               \* and previews that are not kept any longer

PreviewsAssumption ==
  /\ Barren \subseteq Themes /\ None \notin Themes \union HashKeys \union Servers
  /\ Hashes \subseteq [Themes -> HashKeys] /\ IsFiniteSet(Servers)
  /\ MaxTries \in Nat \ {0} /\ {MaxCalls, MaxMishaps} \subseteq Nat

VARIABLES
  hash,     \* the key of every theme
  ask,      \* what each request does
  task,     \* the BullMQ job under every key
  slot,     \* what the worker of each server does
  cached,   \* the cache
  pictures, \* images in R2: the n-th article of a key has the image <<key, n>>
  paid,     \* articles that Gemini wrote, and so were paid, under every key
  news,     \* what the user of the job under a key was told last
  kept,     \* auxiliary: images whose preview came as far as the cache
  excuses,  \* auxiliary: events after which an article is paid again
  wasted,   \* auxiliary: images of runs that a crash or a lost answer cut off
  overlaps, \* auxiliary: keys of which a run went on after its lock expired
  mishaps

previewVars == <<hash, ask, task, slot, cached, pictures, paid, news, kept, excuses, wasted,
                 overlaps, mishaps>>
books == <<kept, excuses, wasted, overlaps>>

Asks     == 1 .. MaxCalls
Pictured == HashKeys \X (Nat \ {0})
Previews == [theme : Themes, id : Pictured, image : BOOLEAN]
Nothing  == [theme |-> None, id |-> None, image |-> FALSE]

\* buildAiPreviewKey, which the worker has a copy of: a hash of 32 bits, so that
\* two themes may share a key.
Key(t) == hash[t]

NewAsk == [pc |-> "new", theme |-> None, got |-> Nothing]
NoJob  == [st |-> "none", theme |-> None, owner |-> None, tries |-> 0, stalls |-> 0,
           result |-> Nothing]
Free   == [pc |-> "idle", key |-> None, theme |-> None, preview |-> Nothing]

Init ==
  /\ hash \in Hashes
  /\ ask = [a \in Asks |-> NewAsk]
  /\ task = [k \in HashKeys |-> NoJob]
  /\ slot = [s \in Servers |-> Free]
  /\ cached = [k \in HashKeys |-> Nothing]
  /\ pictures = {} /\ kept = {} /\ wasted = {} /\ overlaps = {}
  /\ paid = [k \in HashKeys |-> 0]
  /\ excuses = [k \in HashKeys |-> 0]
  /\ news = [k \in HashKeys |-> "none"]
  /\ mishaps = 0

Mishap == mishaps < MaxMishaps /\ mishaps' = mishaps + 1

\* An article under k may be paid once more.
Excuse(k) == excuses' = [excuses EXCEPT ![k] = @ + 1]

----------------------------------------------------------------------------
(* The request.                                                            *)

\* The first look into the cache, which answers nothing when Redis fails.
Ask(a, t) ==
  /\ ask[a].pc = "new" /\ \A b \in Asks : b < a => ask[b].pc # "new"
  /\ \/ /\ cached[Key(t)] # Nothing
        /\ ask' = [ask EXCEPT ![a] = [pc |-> "answered", theme |-> t, got |-> cached[Key(t)]]]
        /\ UNCHANGED mishaps
     \/ /\ IF cached[Key(t)] = Nothing THEN UNCHANGED mishaps ELSE Mishap
        /\ ask' = [ask EXCEPT ![a] = [NewAsk EXCEPT !.pc = "missed", !.theme = t]]
  /\ UNCHANGED <<hash, task, slot, cached, pictures, paid, news, books>>

\* waitUntilFinished resolves with the result of a job, or rejects.
Answer(r, j) == [r EXCEPT !.pc  = IF j.st = "completed" THEN "answered" ELSE "refused",
                          !.got = j.result]

\* queue.add adds nothing to a job that BullMQ still keeps under the id; when
\* that job has ended, the request hears how.
Enqueue(a) ==
  LET k == Key(ask[a].theme) IN
  /\ ask[a].pc = "missed"
  /\ task' = IF task[k].st = "none"
            THEN [task EXCEPT ![k] = [NoJob EXCEPT !.st = "waiting", !.theme = ask[a].theme]] ELSE task
  /\ ask' = [ask EXCEPT ![a] = IF task[k].st \in {"completed", "failed"} THEN Answer(ask[a], task[k])
                               ELSE [ask[a] EXCEPT !.pc = "waiting"]]
  /\ UNCHANGED <<hash, slot, cached, pictures, paid, news, books, mishaps>>

\* MUTANT of Ends: QueueEvents listens to another queue.
EndsUnheard(k, j) == task' = [task EXCEPT ![k] = j] /\ UNCHANGED ask

\* The job under k ends as j, and QueueEvents tells all who wait for it.
Ends(k, j) ==
  /\ task' = [task EXCEPT ![k] = j]
  /\ ask' = [a \in Asks |-> IF ask[a].pc = "waiting" /\ Key(ask[a].theme) = k
                            THEN Answer(ask[a], j) ELSE ask[a]]

----------------------------------------------------------------------------
(* The worker.                                                             *)

Goes(s, pc, preview) == slot' = [slot EXCEPT ![s].pc = pc, ![s].preview = preview]

Take(s, k) ==
  /\ slot[s].pc = "idle" /\ task[k].st = "waiting"
  /\ slot' = [slot EXCEPT ![s] = [Free EXCEPT !.pc = "look", !.key = k, !.theme = task[k].theme]]
  /\ task' = [task EXCEPT ![k].st = "active", ![k].owner = s]
  /\ UNCHANGED <<hash, ask, cached, pictures, paid, news, books, mishaps>>

\* MUTANT of Look: the worker relies on the look of the request.
LookAway(s) ==
  /\ slot[s].pc = "look"
  /\ Goes(s, "write", Nothing)
  /\ UNCHANGED <<hash, ask, task, cached, pictures, paid, news, books, mishaps>>

\* The second look into the cache.
Look(s) ==
  LET k == slot[s].key IN
  /\ slot[s].pc = "look"
  /\ \/ cached[k] # Nothing /\ Goes(s, "tell", cached[k]) /\ UNCHANGED <<excuses, mishaps>>
     \/ cached[k] = Nothing /\ Goes(s, "write", Nothing) /\ UNCHANGED <<excuses, mishaps>>
     \/ cached[k] # Nothing /\ Mishap /\ Excuse(k) /\ Goes(s, "write", Nothing)
  /\ UNCHANGED <<hash, ask, task, cached, pictures, paid, news, kept, wasted, overlaps>>

\* The article, which is paid whatever becomes of the run.
Write(s) ==
  LET k == slot[s].key IN
  /\ slot[s].pc = "write" /\ slot[s].theme \notin Barren
  /\ paid' = [paid EXCEPT ![k] = @ + 1]
  /\ Goes(s, "seo", [theme |-> slot[s].theme, id |-> <<k, paid'[k]>>, image |-> FALSE])
  /\ UNCHANGED <<hash, ask, task, cached, pictures, news, books, mishaps>>

\* No article: the user is told of the failure, whether attempts are left or not.
WriteFails(s) ==
  /\ slot[s].pc = "write"
  /\ \/ slot[s].theme \in Barren /\ UNCHANGED mishaps
     \/ slot[s].theme \notin Barren /\ Mishap
  /\ Goes(s, "throw", Nothing)
  /\ news' = [news EXCEPT ![slot[s].key] = "failed"]
  /\ UNCHANGED <<hash, ask, task, cached, pictures, paid, books>>

\* The SEO fields, from whatever Gemini answers.
Fields(s) ==
  /\ slot[s].pc = "seo"
  /\ Goes(s, "picture", slot[s].preview)
  /\ UNCHANGED <<hash, ask, task, cached, pictures, paid, news, books, mishaps>>

\* Without an answer the attempt fails, and its article is lost: the next attempt
\* pays for another one.
FieldsFail(s) ==
  /\ slot[s].pc = "seo" /\ Mishap
  /\ Excuse(slot[s].key)
  /\ Goes(s, "throw", Nothing)
  /\ news' = [news EXCEPT ![slot[s].key] = "failed"]
  /\ UNCHANGED <<hash, ask, task, cached, pictures, paid, kept, wasted, overlaps>>

\* The image is stored under a key of its own.
Picture(s) ==
  LET preview == slot[s].preview IN
  /\ slot[s].pc = "picture"
  /\ pictures' = pictures \union {preview.id}
  /\ Goes(s, "cache", [preview EXCEPT !.image = TRUE])
  /\ UNCHANGED <<hash, ask, task, cached, paid, news, books, mishaps>>

\* Its failure is swallowed, and the object may be there all the same.
PictureFails(s) ==
  /\ slot[s].pc = "picture" /\ Mishap
  /\ \E stored \in {{}, {slot[s].preview.id}} :
       pictures' = pictures \union stored /\ wasted' = wasted \union stored
  /\ Goes(s, "cache", slot[s].preview)
  /\ UNCHANGED <<hash, ask, task, cached, paid, news, kept, excuses, overlaps>>

\* cache.set swallows a failure of Redis too.
Cache(s) ==
  LET k == slot[s].key IN
  /\ slot[s].pc = "cache"
  /\ \/ cached' = [cached EXCEPT ![k] = slot[s].preview] /\ UNCHANGED <<excuses, mishaps>>
     \/ Mishap /\ Excuse(k) /\ UNCHANGED cached
  /\ kept' = kept \union {slot[s].preview.id}
  /\ Goes(s, "tell", slot[s].preview)
  /\ UNCHANGED <<hash, ask, task, pictures, paid, news, wasted, overlaps>>

\* broadcastGenerationCompleted.
Tell(s) ==
  /\ slot[s].pc = "tell"
  /\ news' = [news EXCEPT ![slot[s].key] = "completed"]
  /\ Goes(s, "return", slot[s].preview)
  /\ UNCHANGED <<hash, ask, task, cached, pictures, paid, books, mishaps>>

\* BullMQ takes the result of a run, or its error, from who holds the lock.
Return(s) ==
  LET k == slot[s].key IN
  /\ slot[s].pc = "return"
  /\ IF task[k].owner = s
     THEN Ends(k, [task[k] EXCEPT !.st = "completed", !.owner = None, !.result = slot[s].preview])
     ELSE UNCHANGED <<ask, task>>
  /\ slot' = [slot EXCEPT ![s] = Free]
  /\ UNCHANGED <<hash, cached, pictures, paid, news, books, mishaps>>

Throw(s) ==
  LET k == slot[s].key
      j == [task[k] EXCEPT !.tries = task[k].tries + 1, !.owner = None]
  IN
  /\ slot[s].pc = "throw"
  /\ IF task[k].owner # s THEN UNCHANGED <<ask, task>>
     ELSE IF j.tries < MaxTries
     THEN task' = [task EXCEPT ![k] = [j EXCEPT !.st = "waiting"]] /\ UNCHANGED ask
     ELSE Ends(k, [j EXCEPT !.st = "failed"])
  /\ slot' = [slot EXCEPT ![s] = Free]
  /\ UNCHANGED <<hash, cached, pictures, paid, news, books, mishaps>>

----------------------------------------------------------------------------
(* The processes and the queue.                                            *)

\* What a run that stops leaves behind: a paid article, an image without preview.
Cut(s) ==
  /\ IF slot[s].pc \in {"seo", "picture", "cache"} THEN Excuse(slot[s].key) ELSE UNCHANGED excuses
  /\ wasted' = IF slot[s].preview.image /\ slot[s].pc = "cache"
               THEN wasted \union {slot[s].preview.id} ELSE wasted

\* A server stops and starts again: its run is gone, and the requests it served.
Crash(s) ==
  /\ Mishap
  /\ slot[s] # Free
  /\ Cut(s)
  /\ slot' = [slot EXCEPT ![s] = Free]
  /\ \E served \in SUBSET {a \in Asks : ask[a].pc \in {"missed", "waiting"}} :
       ask' = [a \in Asks |-> IF a \in served THEN [ask[a] EXCEPT !.pc = "lost"] ELSE ask[a]]
  /\ UNCHANGED <<hash, task, cached, pictures, paid, news, kept, overlaps>>

\* BullMQ finds an active job without a lock: it gives it to a worker once more,
\* and the second time it fails it (maxStalledCount 1, by default).
Stalled(k) ==
  IF task[k].stalls = 0
  THEN task' = [task EXCEPT ![k].st = "waiting", ![k].owner = None, ![k].stalls = 1] /\ UNCHANGED ask
  ELSE Ends(k, [task[k] EXCEPT !.st = "failed", !.owner = None])

Recover(k) ==
  /\ task[k].st = "active" /\ slot[task[k].owner].key # k
  /\ Stalled(k)
  /\ UNCHANGED <<hash, slot, cached, pictures, paid, news, books, mishaps>>

\* The lock of a run expires, because its server was too busy to renew it.
LoseLock(k) ==
  /\ task[k].st = "active" /\ slot[task[k].owner].key = k
  /\ Mishap /\ Stalled(k)
  /\ overlaps' = overlaps \union {k}
  /\ Excuse(k)
  /\ UNCHANGED <<hash, slot, cached, pictures, paid, news, kept, wasted>>

\* removeOnComplete (an hour), removeOnFail (a day).
Remove(k) ==
  /\ task[k].st \in {"completed", "failed"}
  /\ Mishap
  /\ task' = [task EXCEPT ![k] = NoJob]
  /\ UNCHANGED <<hash, ask, slot, cached, pictures, paid, news, books>>

\* A preview is cached for a day.
Expire(k) ==
  /\ cached[k] # Nothing
  /\ Mishap
  /\ cached' = [cached EXCEPT ![k] = Nothing]
  /\ Excuse(k)
  /\ UNCHANGED <<hash, ask, task, slot, pictures, paid, news, kept, wasted, overlaps>>

Work(s) ==
  \/ \E k \in HashKeys : Take(s, k)
  \/ Look(s) \/ Write(s) \/ WriteFails(s) \/ Fields(s) \/ FieldsFail(s)
  \/ Picture(s) \/ PictureFails(s)
  \/ Cache(s) \/ Tell(s) \/ Return(s) \/ Throw(s)

Next ==
  \/ \E a \in Asks : Enqueue(a) \/ \E t \in Themes : Ask(a, t)
  \/ \E s \in Servers : Work(s) \/ Crash(s)
  \/ \E k \in HashKeys : Recover(k) \/ LoseLock(k) \/ Remove(k) \/ Expire(k)

\* Handlers and workers go on, and BullMQ looks for stalled jobs.
Fairness ==
  /\ \A a \in Asks : WF_previewVars(Enqueue(a))
  /\ \A s \in Servers : WF_previewVars(Work(s))
  /\ \A k \in HashKeys : WF_previewVars(Recover(k))

Spec == Init /\ [][Next]_previewVars /\ Fairness

----------------------------------------------------------------------------
(* Properties.                                                             *)

\* Every variable keeps its type, and an image that a preview names is there.
PreviewsTypeOK ==
  /\ hash \in Hashes
  /\ \A a \in Asks : ask[a].pc \in {"new", "missed", "waiting", "answered", "refused", "lost"}
                     /\ ask[a].got \in Previews \union {Nothing}
  /\ \A k \in HashKeys : /\ task[k].st \in {"none", "waiting", "active", "completed", "failed"}
                         /\ task[k].tries <= MaxTries
                         /\ news[k] \in {"none", "completed", "failed"}
                         /\ cached[k] \in Previews \union {Nothing}
                         /\ cached[k].image => cached[k].id \in pictures
  /\ mishaps \in 0 .. MaxMishaps

\* One article is paid for a theme (or for themes of one hash), however many ask
\* for it and whenever: again only after the preview expired or Redis lost it,
\* after a run was cut off or overlapped another one, or after the call for the SEO
\* fields of an article that was there already failed the attempt.  The header of
\* ai-preview.util.ts ("never call Gemini + Tavily again within TTL") promises it.
PaidOnce == \A k \in HashKeys : paid[k] <= 1 + excuses[k]

\* An attempt that fails stores no image: article and SEO fields come before it.
ImagesHavePreviews ==
  \A id \in pictures : \/ id \in kept \union wasted
                       \/ \E s \in Servers : slot[s].preview.id = id

\* Who is answered gets the theme it asked for, unless the hashes are the same.
AnswersFit ==
  \A a \in Asks : ask[a].pc = "answered" =>
    \/ ask[a].got.theme = ask[a].theme
    \/ \E t \in Themes \ {ask[a].theme} : hash[t] = hash[ask[a].theme]

\* A job that completed was told so last, unless two of its runs overlapped.
NewsIsTrue ==
  \A k \in HashKeys \ overlaps : task[k].st = "completed" => news[k] = "completed"

\* What becomes of an article that was paid.
PreviewsAreKept ==
  PreviewsTypeOK /\ PaidOnce /\ ImagesHavePreviews /\ AnswersFit /\ NewsIsTrue

\* Nobody waits: whoever asked was answered, refused, or lost with its server.
NobodyWaits == \A a \in Asks : ask[a].pc \notin {"missed", "waiting"}

=============================================================================
