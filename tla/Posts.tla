------------------------------- MODULE Posts -------------------------------
(***************************************************************************)
(* Blog posts and their scheduler (src/src/modules/posts).  An update      *)
(* reads the row, changes it in memory and writes it back whole; the cron, *)
(* in every instance of the backend, reads the posts that are due and then *)
(* publishes them one by one, each in a transaction of its own.  Of the    *)
(* text of a post only its last author matters, and of its date whether it *)
(* has come.                                                               *)
(***************************************************************************)
EXTENDS Naturals

CONSTANTS
  Ids,       \* posts
  Writers,   \* requests of editors, served once each
  Instances, \* instances of the backend, each with its cron
  Poison,    \* posts whose publication fails every time
  None,
  MaxFaults  \* bound: crashes, and transactions that fail

PostsAssumption ==
  Poison \subseteq Ids /\ MaxFaults \in Nat /\ None \notin Ids \union Writers \union {"later", "due"}

VARIABLES
  post,     \* the rows of posts
  req,      \* what each request of an editor does
  run,      \* what the cron of each instance does
  faults

vars == <<post, req, run, faults>>

Rows == [status : {"none", "draft", "scheduled", "published"},
         date : {None, "later", "due"}, text : Writers \union {None}, live : BOOLEAN]

NoRow == [status |-> "none", date |-> None, text |-> None, live |-> FALSE]
Row(status, text) ==
  [status |-> status, date |-> IF status = "scheduled" THEN "later" ELSE None,
   text |-> text, live |-> TRUE]

Idle(pc) == [pc |-> pc, id |-> None, op |-> "", img |-> NoRow, unseen |-> FALSE]
Resting  == [todo |-> {}, img |-> [p \in {} |-> NoRow], unseen |-> {}]

\* A post to be published at a later date, and room for another.
Init ==
  /\ \E p \in Ids : post = [q \in Ids |-> IF q = p THEN Row("scheduled", None) ELSE NoRow]
  /\ req  = [w \in Writers |-> Idle("new")]
  /\ run  = [i \in Instances |-> Resting]
  /\ faults = 0

Fault == faults < MaxFaults /\ faults' = faults + 1

\* w is through with p: whoever holds an image of p does not see that (auxiliary).
UnseenBut(w, p) ==
  /\ req' = [v \in Writers |-> IF v = w THEN Idle("done")
                               ELSE IF req[v].pc = "commit" /\ req[v].id = p
                               THEN [req[v] EXCEPT !.unseen = TRUE] ELSE req[v]]
  /\ run' = [i \in Instances |-> IF p \in run[i].todo
                                 THEN [run[i] EXCEPT !.unseen = @ \union {p}] ELSE run[i]]

----------------------------------------------------------------------------
(* The requests of editors.                                                *)

\* CreatePostHandler: the date of a scheduled post is at least a day ahead; a
\* date given to another one is kept as it is.
Create(w, p) ==
  /\ req[w].pc = "new" /\ post[p].status = "none"
  /\ \/ post' = [post EXCEPT ![p] = Row("scheduled", w)]
     \/ \E status \in {"draft", "published"}, date \in {None, "later", "due"} :
          post' = [post EXCEPT ![p] = [Row(status, w) EXCEPT !.date = date]]
  /\ UnseenBut(w, p)
  /\ UNCHANGED faults

Reads(w, p, op) ==
  /\ req' = [req EXCEPT ![w] = [pc |-> "commit", id |-> p, op |-> op, img |-> post[p], unseen |-> FALSE]]
  /\ UNCHANGED <<post, run, faults>>

\* UpdatePostHandler reads the post, deleted ones excepted.  A request without a
\* status that gives no date gives null, which a scheduled post does not accept.
ReadToUpdate(w, p) ==
  /\ req[w].pc = "new" /\ post[p].live
  /\ \/ post[p].status # "scheduled" /\ Reads(w, p, "edit")
     \/ post[p].status = "scheduled" /\ Reads(w, p, "putOff")
     \/ \E status \in {"draft", "scheduled", "published"} : Reads(w, p, status)

ReadToDelete(w, p)  == req[w].pc = "new" /\ post[p].live /\ Reads(w, p, "delete")
ReadToRestore(w, p) == req[w].pc = "new" /\ post[p].status # "none" /\ Reads(w, p, "restore")

\* MUTANT of Effect: a new status leaves the date alone.
EffectKeepsDate(w, op, img, row) ==
  CASE op = "delete"  -> [row EXCEPT !.live = FALSE]
    [] op = "restore" -> [row EXCEPT !.live = TRUE]
    [] op = "edit"    -> [img EXCEPT !.text = w, !.live = row.live]
    [] op = "putOff"  -> [img EXCEPT !.text = w, !.live = row.live, !.date = "later"]
    [] OTHER          -> [Row(op, w) EXCEPT !.live = row.live, !.date = img.date]

\* What the request makes of a row; updates write all of it but deletedAt.
Effect(w, op, img, row) ==
  CASE op = "delete"  -> [row EXCEPT !.live = FALSE]
    [] op = "restore" -> [row EXCEPT !.live = TRUE]
    [] op = "edit"    -> [img EXCEPT !.text = w, !.live = row.live]
    [] op = "putOff"  -> [img EXCEPT !.text = w, !.live = row.live, !.date = "later"]
    [] OTHER          -> [Row(op, w) EXCEPT !.live = row.live]

\* The write, its strict audit entry, commit.
Commit(w) ==
  LET p == req[w].id IN
  /\ req[w].pc = "commit"
  /\ post' = [post EXCEPT ![p] = Effect(w, req[w].op, req[w].img, post[p])]
  /\ UnseenBut(w, p)
  /\ UNCHANGED faults

\* The write or the audit fails and the transaction is rolled back.
CommitFails(w) ==
  /\ req[w].pc = "commit"
  /\ Fault
  /\ req' = [req EXCEPT ![w] = Idle("done")]
  /\ UNCHANGED <<post, run>>

\* Bulk deletion and restoration: one statement, without a read.
BulkDelete(w, S) ==
  /\ req[w].pc = "new" /\ \E p \in S : post[p].live
  /\ post' = [p \in Ids |-> IF p \in S THEN [post[p] EXCEPT !.live = FALSE] ELSE post[p]]
  /\ req' = [v \in Writers |-> IF v = w THEN Idle("done")
                               ELSE IF req[v].pc = "commit" /\ req[v].id \in S
                               THEN [req[v] EXCEPT !.unseen = TRUE] ELSE req[v]]
  /\ run' = [i \in Instances |-> [run[i] EXCEPT !.unseen = @ \union (S \intersect run[i].todo)]]
  /\ UNCHANGED faults

BulkRestore(w, S) ==
  /\ req[w].pc = "new" /\ \E p \in S : post[p].status # "none" /\ ~post[p].live
  /\ post' = [p \in Ids |-> IF p \in S /\ post[p].status # "none"
                            THEN [post[p] EXCEPT !.live = TRUE] ELSE post[p]]
  /\ req' = [v \in Writers |-> IF v = w THEN Idle("done")
                               ELSE IF req[v].pc = "commit" /\ req[v].id \in S
                               THEN [req[v] EXCEPT !.unseen = TRUE] ELSE req[v]]
  /\ run' = [i \in Instances |-> [run[i] EXCEPT !.unseen = @ \union (S \intersect run[i].todo)]]
  /\ UNCHANGED faults

----------------------------------------------------------------------------
(* PostScheduler.publishScheduledPosts, every five minutes.                *)

\* A date comes.
Tick(p) ==
  /\ post[p].date = "later"
  /\ post' = [post EXCEPT ![p].date = "due"]
  /\ UNCHANGED <<req, run, faults>>

\* MUTANT of Due: deleted posts as well.
DueOrDeleted == {p \in Ids : post[p].status = "scheduled" /\ post[p].date = "due"}

\* findScheduledDue.
Due == {p \in Ids : post[p].status = "scheduled" /\ post[p].date = "due" /\ post[p].live}

\* MUTANT of Find: the texts come from a cache filled at the start.
FindCached(i) ==
  /\ run[i].todo = {} /\ Due # {}
  /\ run' = [run EXCEPT ![i] = [todo |-> Due, unseen |-> {},
                                img |-> [p \in Due |-> [post[p] EXCEPT !.text = None]]]]
  /\ UNCHANGED <<post, req, faults>>

Find(i) ==
  /\ run[i].todo = {} /\ Due # {}
  /\ run' = [run EXCEPT ![i] = [todo |-> Due, img |-> [p \in Due |-> post[p]], unseen |-> {}]]
  /\ UNCHANGED <<post, req, faults>>

\* What is left of the run of i when it is through with p.
Rest(i, p) ==
  LET todo == run[i].todo \ {p}
  IN  IF todo = {} THEN Resting
      ELSE [todo |-> todo, img |-> [q \in todo |-> run[i].img[q]], unseen |-> run[i].unseen \ {p}]

\* Post.publish, on the image of the run; the row keeps only its deletedAt.
Published(img, row) == [img EXCEPT !.status = "published", !.date = None, !.live = row.live]

\* publishOne, in any order: the query names none.
Publish(i) ==
  \E p \in run[i].todo \ Poison :
    /\ post' = [post EXCEPT ![p] = Published(run[i].img[p], post[p])]
    /\ req' = [w \in Writers |-> IF req[w].pc = "commit" /\ req[w].id = p
                                 THEN [req[w] EXCEPT !.unseen = TRUE] ELSE req[w]]
    /\ run' = [j \in Instances |-> IF j = i THEN Rest(i, p)
                                   ELSE IF p \in run[j].todo
                                   THEN [run[j] EXCEPT !.unseen = @ \union {p}] ELSE run[j]]
    /\ UNCHANGED faults

\* MUTANT of PublishFails: the exception ends the run.
PublishFailsAll(i) ==
  /\ run[i].todo # {}
  /\ run[i].todo \intersect Poison = {} => Fault
  /\ run[i].todo \intersect Poison # {} => UNCHANGED faults
  /\ run' = [run EXCEPT ![i] = Resting]
  /\ UNCHANGED <<post, req>>

\* "continue with remaining posts - one failure must not block the batch".
PublishFails(i) ==
  \E p \in run[i].todo :
    /\ (p \in Poison /\ UNCHANGED faults) \/ Fault
    /\ run' = [run EXCEPT ![i] = Rest(i, p)]
    /\ UNCHANGED <<post, req>>

\* The instance stops, and starts again.
Crash(i) ==
  /\ run[i].todo # {}
  /\ Fault
  /\ run' = [run EXCEPT ![i] = Resting]
  /\ UNCHANGED <<post, req>>

----------------------------------------------------------------------------

Cron(i) == Find(i) \/ Publish(i) \/ PublishFails(i)

Next ==
  \/ \E w \in Writers :
       \/ \E p \in Ids : Create(w, p) \/ ReadToUpdate(w, p) \/ ReadToDelete(w, p) \/ ReadToRestore(w, p)
       \/ \E S \in SUBSET Ids : BulkDelete(w, S) \/ BulkRestore(w, S)
       \/ Commit(w) \/ CommitFails(w)
  \/ \E p \in Ids : Tick(p)
  \/ \E i \in Instances : Cron(i) \/ Crash(i)

\* The cron fires again and again, and a run goes on.
Fairness == \A i \in Instances : WF_vars(Cron(i))

Spec == Init /\ [][Next]_vars /\ Fairness

----------------------------------------------------------------------------
(* Properties.                                                             *)

\* Every variable keeps its type, and a scheduled post has a date, whatever
\* saves of whole rows overlap.
TypeOK ==
  /\ post \in [Ids -> Rows]
  /\ \A p \in Ids : post[p].status = "scheduled" => post[p].date # None
  /\ \A w \in Writers : req[w].pc \in {"new", "commit", "done"} /\ req[w].img \in Rows
  /\ \A i \in Instances : run[i].todo \subseteq Ids /\ run[i].unseen \subseteq run[i].todo
  /\ faults \in 0 .. MaxFaults

\* The text an author has saved is replaced by an older one only by a request or
\* a run that had read the post before: no write is lost to one that comes later.
TextsLoseOnlyToOverlap ==
  [][\A p \in Ids :
       post'[p].text # post[p].text =>
         \/ \E w \in Writers : req[w].pc # "done" /\ req'[w].pc = "done" /\ post'[p].text = w
         \/ \E w \in Writers : req[w].pc = "commit" /\ req[w].id = p /\ req[w].unseen
         \/ \E i \in Instances : p \in run[i].unseen]_vars

\* The cron publishes what is due: a post that is a draft, deleted, published
\* already or put off when it is published was changed since the run read it.
PublishesWhatIsDue ==
  [][\A p \in Ids, i \in Instances :
       p \in run[i].todo /\ post'[p] # post[p] /\ p \notin run'[i].todo =>
         \/ post[p].status = "scheduled" /\ post[p].date = "due" /\ post[p].live
         \/ p \in run[i].unseen]_vars

\* Every post that is due is published, edited or deleted in the end, also if
\* the publication of another one fails every time.
DuePostsArePublished == []<>(Due \subseteq Poison)

=============================================================================
