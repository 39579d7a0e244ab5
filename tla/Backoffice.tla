----------------------------- MODULE Backoffice -----------------------------
(***************************************************************************)
(* Parts of the back office that share no state: blog posts, pictures, the *)
(* inbox, the gate, and lists.  Their product would add states and no      *)
(* behaviour, so that one of them, chosen at the start, moves, and the     *)
(* others stay as they are at first.                                       *)
(***************************************************************************)
EXTENDS Naturals

CONSTANTS
  Ids, Writers, Instances, Poison, MaxFaults,        \* Posts
  Folders, Main, Hands, Start, Outside, MaxSlips,    \* Pictures
  Entries, Clerks, MaxDrops,                         \* Inbox
  Callers, Edits, MaxEdits,                          \* Gate
  Records, Calendars, PageSize, PageCap, Many, MaxMoves,   \* Listing
  None

VARIABLES
  part,
  post, req, run, faults,
  table, folder, files, hand, doubtful, stray, slips,
  kind, entry, clerk, board, mailed, crossed, missed, drops,
  perm, wired, attached, detached, seed, account, category, seeded, edits, call,
  list, date, rows, gone, unfit, reader, moves

Blog   == INSTANCE Posts
Images == INSTANCE Pictures
Desk   == INSTANCE Inbox
Door   == INSTANCE Gate
Lists  == INSTANCE Listing

ASSUME BackofficeAssumption ==
  /\ Blog!PostsAssumption /\ Images!PicturesAssumption /\ Desk!InboxAssumption
  /\ Door!GateAssumption /\ Lists!ListingAssumption

blog   == <<post, req, run, faults>>
images == <<table, folder, files, hand, doubtful, stray, slips>>
desk   == <<kind, entry, clerk, board, mailed, crossed, missed, drops>>
door   == <<perm, wired, attached, detached, seed, account, category, seeded, edits, call>>
lists  == <<list, date, rows, gone, unfit, reader, moves>>
office == <<part, blog, images, desk, door, lists>>

\* A part that does not move has one initial state.
OfficeInit ==
  /\ part \in {"blog", "images", "desk", "door", "lists"}
  /\ Blog!Init /\ Images!Init /\ Desk!Init /\ Door!Init /\ Lists!Init
  /\ part # "blog"   => post[CHOOSE p \in Ids : TRUE].live
  /\ part # "images" => table = "profile" /\ files = {}
  /\ part # "desk"   => kind = "message"
  /\ part # "lists"  => list = Lists!Users /\ rows = {} /\ date = CHOOSE d \in Calendars : TRUE

OfficeNext ==
  /\ UNCHANGED part
  /\ \/ part = "blog"   /\ Blog!Next   /\ UNCHANGED <<images, desk, door, lists>>
     \/ part = "images" /\ Images!Next /\ UNCHANGED <<blog, desk, door, lists>>
     \/ part = "desk"   /\ Desk!Next   /\ UNCHANGED <<blog, images, door, lists>>
     \/ part = "door"   /\ Door!Next   /\ UNCHANGED <<blog, images, desk, lists>>
     \/ part = "lists"  /\ Lists!Next  /\ UNCHANGED <<blog, images, desk, door>>

OfficeSpec == OfficeInit /\ [][OfficeNext]_office /\ Blog!Fairness

----------------------------------------------------------------------------
(* The properties of the parts, under their names.                         *)

\* Every variable of every part keeps its type.
BackofficeTypeOK == Blog!TypeOK /\ Images!PicturesTypeOK /\ Desk!InboxTypeOK /\ Door!GateTypeOK
                    /\ Lists!ListingTypeOK

\* What a request or a run has written to a row is lost only to one that had read
\* the row before (Posts, Inbox).
RowsLoseOnlyToOverlap ==
  Blog!TextsLoseOnlyToOverlap /\ Blog!PublishesWhatIsDue /\ Desk!MarksLoseOnlyToOverlap
\* What is due is published in the end (Posts).
DuePostsArePublished == Blog!DuePostsArePublished

\* The bucket holds what the rows link, and nothing that was forgotten (Pictures).
FilesMatchRows == Images!PicturesResolve /\ Images!NoFileIsForgotten

\* Calls and messages that are there are shown and mailed, and events tell of
\* changes that were made (Inbox).
NoticesTellTheTruth ==
  [](Desk!BoardShowsCalls /\ Desk!MessagesAreTold) /\ Desk!EventsTellChanges

\* Every route is reached by its path (Gate).
RoutesAreReached == Door!RoutesAnswerTheirPaths
\* The seed gives roles what routes demand, and viewers no more, and can run again
\* (Gate).
SeedGuardsRoutes ==
  [](seeded => Door!DemandsAreSeeded) /\ Door!ViewersOnlyRead /\ Door!SeedRunsAgain

\* Who reads to the end has seen every row once (Listing).
ReadersSeeRowsOnce == [](Lists!ListsMissNothing /\ Lists!ExportsMissNothing) /\ Lists!NothingTwice

=============================================================================
