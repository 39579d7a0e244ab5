------------------------------ MODULE Pictures ------------------------------
(***************************************************************************)
(* Files in R2 that a column of a row links: the image of a blog category  *)
(* (src/src/modules/blog-category), the signature of the company           *)
(* (src/src/modules/companydata), the photo of a user (upload-profile-     *)
(* photo.use-case.ts).  The file is stored first, then a transaction links *)
(* it, then the file linked before is deleted.  Which of the three tables  *)
(* it is, is chosen at the start: they differ in when the old link is read *)
(* and in what else writes the column.                                     *)
(***************************************************************************)
EXTENDS Naturals

CONSTANTS
  Folders,  \* rows
  Main,     \* the row of the company, or of a user
  Hands,    \* requests, served once each; a file has the name of the request
            \* that stored it
  Start,    \* the file that is there at the start
  Outside,  \* a URL of another site
  None,
  MaxSlips  \* bound: calls that fail, answers that are lost, crashes

PicturesAssumption ==
  /\ Main \in Folders /\ MaxSlips \in Nat
  /\ Start \notin Hands /\ Outside \notin Hands /\ None \notin Hands
  /\ Start # Outside /\ Start # None /\ Outside # None

VARIABLES
  table,     \* "category", "company" or "profile"
  folder,    \* the rows: in which state, and what the column links
  files,     \* the objects in the bucket
  hand,      \* what each request does
  doubtful,  \* auxiliary: files linked by a URL in a form, by a stale image of
             \* the row, or by a commit whose answer was lost
  stray,     \* auxiliary: files whose link was overwritten by a request that
             \* had not seen it or by a URL in a form, and those left by a fault
  slips

pictureVars == <<table, folder, files, hand, doubtful, stray, slips>>

Keys  == Hands \union {Start}
Links == Keys \union {Outside, None}

NoFolder    == [state |-> "none", link |-> None]
Waiting(pc) == [pc |-> pc, op |-> "", id |-> Main, seen |-> None, link |-> None]

\* A row with a file or without one; other categories come later.
Init ==
  /\ table \in {"category", "company", "profile"}
  /\ \E link \in {None, Start} :
       /\ folder = [i \in Folders |-> IF i = Main THEN [state |-> "live", link |-> link] ELSE NoFolder]
       /\ files = {link} \ {None}
  /\ hand = [h \in Hands |-> Waiting("new")]
  /\ doubtful = {} /\ stray = {}
  /\ slips = 0

Slip == slips < MaxSlips /\ slips' = slips + 1

Goes(h, r)  == hand' = [hand EXCEPT ![h] = r]
Finished(h) == Goes(h, Waiting("done"))

\* What h has to delete, unless it links it.
Owned(h) == IF hand[h].op = "upload" /\ hand[h].pc \in {"read", "commit", "undo"} THEN {h}
            ELSE IF hand[h].pc = "cleanup" THEN {hand[h].seen} ELSE {}

----------------------------------------------------------------------------
(* Requests read the row first; the upload of a photo does not.            *)

\* findOrFail, at the start of an upload or a removal.
Find(h, i, op) ==
  /\ hand[h].pc = "new"
  /\ folder[i].state = "live"
  /\ Goes(h, [pc |-> IF op = "upload" THEN "upload" ELSE "commit", op |-> op, id |-> i,
              seen |-> folder[i].link, link |-> None])
  /\ UNCHANGED <<table, folder, files, doubtful, stray, slips>>

UploadImage(h, i)     == table = "category" /\ Find(h, i, "upload")
DeleteImage(h, i)     == table = "category" /\ Find(h, i, "remove")
UploadSignature(h, i) == table = "company" /\ Find(h, i, "upload")
DeleteSignature(h, i) == table = "company" /\ Find(h, i, "remove")

\* UploadProfilePhotoUseCase.execute: the image is processed and has a key.
Begin(h) ==
  /\ hand[h].pc = "new" /\ table = "profile"
  /\ Goes(h, [Waiting("upload") EXCEPT !.op = "upload"])
  /\ UNCHANGED <<table, folder, files, doubtful, stray, slips>>

\* The form of a category has a field for the URL of its image.
FindToWrite(h, i, link) ==
  /\ hand[h].pc = "new" /\ table = "category"
  /\ folder[i].state = "live"
  /\ Goes(h, [pc |-> "commit", op |-> "text", id |-> i, seen |-> folder[i].link, link |-> link])
  /\ UNCHANGED <<table, folder, files, doubtful, stray, slips>>

\* UpdateUserHandler reads the row of the user, which it will save whole.
ReadUser(h) ==
  /\ hand[h].pc = "new" /\ table = "profile"
  /\ Goes(h, [pc |-> "commit", op |-> "save", id |-> Main, seen |-> folder[Main].link,
              link |-> folder[Main].link])
  /\ UNCHANGED <<table, folder, files, doubtful, stray, slips>>

----------------------------------------------------------------------------
(* Upload, commit, clean-up.                                               *)

Upload(h) ==
  /\ hand[h].pc = "upload"
  /\ files' = files \union {h}
  /\ Goes(h, [hand[h] EXCEPT !.pc = IF table = "profile" THEN "read" ELSE "commit"])
  /\ UNCHANGED <<table, folder, doubtful, stray, slips>>

\* An error, and the object may be there all the same.
UploadFails(h) ==
  /\ hand[h].pc = "upload"
  /\ Slip
  /\ \E stored \in {{}, {h}} : files' = files \union stored /\ stray' = stray \union stored
  /\ Finished(h)
  /\ UNCHANGED <<table, folder, doubtful>>

\* The transaction of a photo reads the old key itself, then writes.
ReadLink(h) ==
  /\ hand[h].pc = "read"
  /\ Goes(h, [hand[h] EXCEPT !.pc = "commit", !.seen = folder[Main].link])
  /\ UNCHANGED <<table, folder, files, doubtful, stray, slips>>

\* What h writes into the column.
NewLink(h) == CASE hand[h].op = "upload" -> h
                [] hand[h].op = "remove" -> None
                [] OTHER                 -> hand[h].link

Lost(h, link)  == {folder[hand[h].id].link} \ {link, None, Outside}
Risky(h, link) == IF hand[h].op \in {"upload", "remove"} \/ link = folder[hand[h].id].link THEN {}
                  ELSE {link} \ {None, Outside}

Linked(h) == folder' = [folder EXCEPT ![hand[h].id].link = NewLink(h)]

\* MUTANT of Commit: the link that was there first is forgotten.
CommitForgetful(h) ==
  /\ hand[h].pc = "commit"
  /\ Linked(h)
  /\ doubtful' = doubtful \union Risky(h, NewLink(h))
  /\ stray' = stray \union (Lost(h, NewLink(h)) \
                            (IF hand[h].op \in {"upload", "remove"} THEN {hand[h].seen} ELSE {}))
  /\ Finished(h)
  /\ UNCHANGED <<table, files, slips>>

\* The update and its strict audit entry: both or neither.
Commit(h) ==
  LET clean == hand[h].op \in {"upload", "remove"} /\ hand[h].seen # None IN
  /\ hand[h].pc = "commit"
  /\ Linked(h)
  /\ doubtful' = doubtful \union Risky(h, NewLink(h))
  /\ stray' = stray \union (Lost(h, NewLink(h)) \ (IF clean THEN {hand[h].seen} ELSE {}))
  /\ IF clean THEN Goes(h, [hand[h] EXCEPT !.pc = "cleanup"]) ELSE Finished(h)
  /\ UNCHANGED <<table, files, slips>>

\* Rolled back, or committed and the answer lost: an upload is undone.
CommitFails(h) ==
  /\ hand[h].pc = "commit"
  /\ Slip
  /\ \/ UNCHANGED <<folder, doubtful, stray>>
     \/ /\ Linked(h)
        /\ doubtful' = doubtful \union ({NewLink(h)} \ {None, Outside})
        /\ stray' = stray \union Lost(h, NewLink(h))
  /\ IF hand[h].op = "upload" THEN Goes(h, [hand[h] EXCEPT !.pc = "undo"]) ELSE Finished(h)
  /\ UNCHANGED <<table, files>>

\* deleteImageFileByKey, deleteSignatureFileByKey, tryDelete.
Undo(h) ==
  /\ hand[h].pc = "undo"
  /\ files' = files \ {h}
  /\ Finished(h)
  /\ UNCHANGED <<table, folder, doubtful, stray, slips>>

\* What the row linked when it was read; keyFromUrl refuses other sites.
Cleanup(h) ==
  /\ hand[h].pc = "cleanup"
  /\ files' = files \ {hand[h].seen}
  /\ Finished(h)
  /\ UNCHANGED <<table, folder, doubtful, stray, slips>>

\* "logs but never rethrows"; or the process stops on the way.
GiveUp(h) ==
  /\ hand[h].pc \notin {"new", "done"}
  /\ Slip
  /\ stray' = stray \union (Owned(h) \ {Outside})
  /\ Finished(h)
  /\ UNCHANGED <<table, folder, files, doubtful>>

----------------------------------------------------------------------------
(* The other operations on categories.                                     *)

Create(h, i, link) ==
  /\ hand[h].pc = "new" /\ table = "category"
  /\ folder[i].state = "none"
  /\ folder' = [folder EXCEPT ![i] = [state |-> "live", link |-> link]]
  /\ doubtful' = doubtful \union ({link} \ {None, Outside})
  /\ Finished(h)
  /\ UNCHANGED <<table, files, stray, slips>>

\* MUTANT of SetDeleted: the image goes with its category, as companydata does it.
SetDeletedWithFile(h, S, from, to) ==
  /\ hand[h].pc = "new" /\ table = "category"
  /\ \E i \in S : folder[i].state = from
  /\ folder' = [i \in Folders |-> IF i \in S /\ folder[i].state = from
                                  THEN [folder[i] EXCEPT !.state = to] ELSE folder[i]]
  /\ files' = files \ {folder[i].link : i \in {j \in S : from = "live"}}
  /\ Finished(h)
  /\ UNCHANGED <<table, doubtful, stray, slips>>

\* The image stays where it is, "so restore() can bring the record back with its
\* image intact".
SetDeleted(h, S, from, to) ==
  /\ hand[h].pc = "new" /\ table = "category"
  /\ \E i \in S : folder[i].state = from
  /\ folder' = [i \in Folders |-> IF i \in S /\ folder[i].state = from
                                  THEN [folder[i] EXCEPT !.state = to] ELSE folder[i]]
  /\ Finished(h)
  /\ UNCHANGED <<table, files, doubtful, stray, slips>>

Delete(h, i)      == SetDeleted(h, {i}, "live", "deleted")
Restore(h, i)     == SetDeleted(h, {i}, "deleted", "live")
BulkDelete(h, S)  == SetDeleted(h, S, "live", "deleted")
BulkRestore(h, S) == SetDeleted(h, S, "deleted", "live")

----------------------------------------------------------------------------

Next ==
  \E h \in Hands :
    \/ \E i \in Folders :
         \/ UploadImage(h, i) \/ DeleteImage(h, i) \/ UploadSignature(h, i) \/ DeleteSignature(h, i)
         \/ \E link \in {Start, Outside} : FindToWrite(h, i, link)
         \/ \E link \in {Start, Outside, None} : Create(h, i, link)
         \/ Delete(h, i) \/ Restore(h, i)
    \/ \E S \in SUBSET Folders : BulkDelete(h, S) \/ BulkRestore(h, S)
    \/ Begin(h) \/ ReadUser(h)
    \/ Upload(h) \/ UploadFails(h) \/ ReadLink(h) \/ Commit(h) \/ CommitFails(h)
    \/ Undo(h) \/ Cleanup(h) \/ GiveUp(h)

Spec == Init /\ [][Next]_pictureVars

----------------------------------------------------------------------------
(* Properties.                                                             *)

\* Every variable keeps its type.
PicturesTypeOK ==
  /\ folder \in [Folders -> [state : {"none", "live", "deleted"}, link : Links]]
  /\ files \subseteq Keys
  /\ \A h \in Hands : /\ hand[h].pc \in {"new", "upload", "read", "commit", "undo", "cleanup", "done"}
                      /\ hand[h].seen \in Links
  /\ doubtful \subseteq Keys /\ stray \subseteq Keys
  /\ slips \in 0 .. MaxSlips

\* What a row links is in the bucket, also while the row is deleted, so that it
\* comes back with its picture, whatever uploads and clean-ups overlap; except a
\* file that a form, a stale row or a commit without an answer has linked.
PicturesResolve ==
  \A i \in Folders : folder[i].link \in files \union {None, Outside} \union doubtful

\* A file that no row links is about to be deleted by a request, or was left by a
\* fault, an overlap or a URL written over it: no other sequence of requests
\* leaves one behind.
NoFileIsForgotten ==
  \A k \in files :
    \/ \E i \in Folders : folder[i].link = k
    \/ \E h \in Hands : k \in Owned(h)
    \/ k \in stray

=============================================================================
