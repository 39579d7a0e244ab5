------------------------------ MODULE Listing ------------------------------
(***************************************************************************)
(* The lists and exports of the back office.  A list is read page by page: *)
(* each page is a query with an order, an offset and a size, beside one    *)
(* that counts, and rows come and go between all of them.  The order is by *)
(* a date alone, so that rows of one date come in any order.  An export is *)
(* one such query with a size of its own.  Which table it is, is chosen at *)
(* the start.                                                              *)
(***************************************************************************)
EXTENDS Naturals, FiniteSets, Functions

CONSTANTS
  Records,    \* rows that are there or come later
  Calendars,  \* their dates, as far as they are told apart
  PageSize,   \* the default of `limit', 20
  PageCap,    \* the most that `limit' may be, 100
  Many,       \* what exports ask for, 5000 or 10000
  MaxMoves    \* bound: rows that come, go or are deleted

ListingAssumption ==
  /\ IsFiniteSet(Records) /\ Calendars \subseteq [Records -> Nat]
  /\ PageSize \in Nat \ {0} /\ PageCap \in Nat /\ Many \in Nat /\ MaxMoves \in Nat
  /\ PageSize <= PageCap

VARIABLES
  list,    \* how the table is listed
  date,    \* the date of each row
  rows,    \* those that are there
  gone,    \* those that are marked as deleted
  unfit,   \* rows without the network that a reader may ask for
  reader,  \* who reads the list
  moves

listVars == <<list, date, rows, gone, unfit, reader, moves>>

Everything == Cardinality(Records)

----------------------------------------------------------------------------
(* The tables.  `order': by the date of creation, newest first, or by a    *)
(* date of the row.  `deletes': with a mark or for good.  `memory': a      *)
(* filter is applied to the page after the query.  `export': the number of *)
(* rows that an export gets.  Where a page is "Math.min(limit, 100)", the  *)
(* request has no greater limit.                                           *)

Smaller(a, b) == IF a < b THEN a ELSE b

Table(order, deletes, memory, export) ==
  [order |-> order, deletes |-> deletes, memory |-> memory, export |-> export]

UsersExport        == Many
PostsExport        == PageSize  \* no limit is given: that of a page applies
AppointmentsExport == PageSize
CampaignsExport    == Many
GenerationsExport  == Many
MessagesExport     == Many
CallsExport        == Everything
BackupsExport      == Many
CategoriesExport   == Many
RolesExport        == Smaller(Many, PageCap)  \* it asks the list for 10000
ExceptionsExport   == Everything

Users        == Table("newest", "mark", FALSE, UsersExport)
Posts        == Table("newest", "mark", FALSE, PostsExport)
Appointments == Table("newest", "mark", FALSE, AppointmentsExport)
Campaigns    == Table("newest", "row", FALSE, CampaignsExport)
Generations  == Table("newest", "row", TRUE, GenerationsExport)
Messages     == Table("newest", "mark", FALSE, MessagesExport)
Calls        == Table("own", "mark", FALSE, CallsExport)
Backups      == Table("newest", "row", FALSE, BackupsExport)
Categories   == Table("newest", "mark", FALSE, CategoriesExport)
Roles        == Table("newest", "mark", FALSE, RolesExport)
Exceptions   == Table("own", "mark", FALSE, ExceptionsExport)
ActivityLogs == Table("newest", "row", FALSE, 0)

Tables == {Users, Posts, Appointments, Campaigns, Generations, Messages, Calls, Backups, Categories,
           Roles, Exceptions, ActivityLogs}

----------------------------------------------------------------------------
(* What a request asks for.                                                *)

\* The flags of a request that are not refused: "Use either status or
\* withTrashed/onlyTrashed, not both".
Flags == {f \in [status : {"none", "active", "suspended", "all"}, with : BOOLEAN, only : BOOLEAN] :
            ~(f.with /\ f.only) /\ (f.status # "none" => ~f.with /\ ~f.only)}

\* resolveTrashedMode.
Mode(f) == CASE f.status = "all"       -> "include"
             [] f.status = "suspended" -> "only"
             [] f.status = "active"    -> "exclude"
             [] f.only                 -> "only"
             [] f.with                 -> "include"
             [] OTHER                  -> "exclude"

\* buildTrashedWhere, where g are marked as deleted.
Where(mode, g, r) == CASE mode = "include" -> TRUE
                       [] mode = "only"    -> r \in g
                       [] OTHER            -> r \notin g

Idle(pc) == [pc |-> pc, export |-> FALSE, mode |-> "exclude", network |-> FALSE, page |-> 0,
             got |-> FALSE, data |-> {}, counted |-> FALSE, total |-> 0,
             shown |-> {}, steady |-> {}, came |-> FALSE, left |-> FALSE, between |-> FALSE, full |-> FALSE]

\* The rows a query finds, and those that a reader wants to see.
Found(mode) == {r \in rows : Where(mode, gone, r)}
Fits(rd, r) == ~rd.network \/ r \notin unfit
Wanted(rd)  == {r \in Found(rd.mode) : Fits(rd, r)}

\* What was created last is the newest.
Newest(new, olds) == list.order = "newest" => \A x \in olds : date[x] <= date[new]

\* Some rows, of which some may have been deleted.
Init ==
  /\ list \in Tables /\ date \in Calendars
  /\ rows \in SUBSET Records /\ \A r \in Records \ rows : Newest(r, rows)
  /\ gone \in SUBSET rows /\ (list.deletes = "row" => gone = {})
  /\ unfit \in SUBSET Records /\ (~list.memory => unfit = {})
  /\ reader = Idle("idle")
  /\ moves = 0

----------------------------------------------------------------------------
(* Records come and go while somebody reads: what has come and gone before is *)
(* another initial state.                                                  *)

\* What the reader does not see of a change to the rows it looks at.
Noticed(before, after) ==
  reader' = [reader EXCEPT !.steady = @ \intersect after,
                           !.came = @ \/ ~(after \subseteq before),
                           !.left = @ \/ ~(before \subseteq after),
                           !.between = @ \/ (before # after /\ (reader.got \/ reader.counted))]

Move(s, g) ==
  /\ reader.pc = "page" /\ moves < MaxMoves
  /\ moves' = moves + 1
  /\ rows' = s /\ gone' = g
  /\ Noticed(Found(reader.mode), {r \in s : Where(reader.mode, g, r)})
  /\ UNCHANGED <<list, date, unfit>>

\* A row with a date of its own comes anywhere in the list.
Add(r)     == r \notin rows /\ Newest(r, rows) /\ Move(rows \union {r}, gone)
Trash(r)   == list.deletes = "mark" /\ r \in rows \ gone /\ Move(rows, gone \union {r})
Restore(r) == r \in gone /\ Move(rows, gone \ {r})
Erase(r)   == list.deletes = "row" /\ r \in rows /\ Move(rows \ {r}, gone)

----------------------------------------------------------------------------
(* The reader.                                                             *)

Begin(f, network, export) ==
  LET rd == [Idle("page") EXCEPT !.mode = Mode(f), !.network = network, !.export = export] IN
  /\ reader.pc = "idle"
  /\ Mode(f) # "exclude" => list.deletes = "mark"
  /\ network => list.memory
  /\ export => list.export > 0
  /\ reader' = [rd EXCEPT !.steady = Wanted(rd)]
  /\ UNCHANGED <<list, date, rows, gone, unfit, moves>>

\* ORDER BY date: the places that the rows may get, those of one date in any order.
Orders(S) == {place \in Bijection(S, 0 .. (Cardinality(S) - 1)) :
                \A x, y \in S : date[x] > date[y] => place[x] < place[y]}

\* OFFSET and LIMIT.
Window(place, skip, take) == {r \in DOMAIN place : place[r] \in skip .. (skip + take - 1)}

Take == IF reader.export THEN list.export ELSE PageSize

\* MUTANT of Data: pages overlap by a row.
DataOverlap ==
  /\ reader.pc = "page" /\ ~reader.got
  /\ \E place \in Orders(Found(reader.mode)) :
       reader' = [reader EXCEPT !.got = TRUE, !.data = Window(place, reader.page * (PageSize - 1), Take)]
  /\ UNCHANGED <<list, date, rows, gone, unfit, moves>>

\* MUTANT of Data: the first page is taken to be page 1 of the offset.
DataOffByOne ==
  /\ reader.pc = "page" /\ ~reader.got
  /\ \E place \in Orders(Found(reader.mode)) :
       reader' = [reader EXCEPT !.got = TRUE, !.data = Window(place, (reader.page + 1) * PageSize, Take)]
  /\ UNCHANGED <<list, date, rows, gone, unfit, moves>>

\* findMany of a page, beside the count: "Promise.all".
Data ==
  /\ reader.pc = "page" /\ ~reader.got
  /\ \E place \in Orders(Found(reader.mode)) :
       reader' = [reader EXCEPT !.got = TRUE, !.data = Window(place, reader.page * PageSize, Take)]
  /\ UNCHANGED <<list, date, rows, gone, unfit, moves>>

\* The filter of the page comes too late for the count.
Count ==
  /\ reader.pc = "page" /\ ~reader.counted
  /\ reader' = [reader EXCEPT !.counted = TRUE, !.total = Cardinality(Found(reader.mode))]
  /\ UNCHANGED <<list, date, rows, gone, unfit, moves>>

Filtered == {r \in reader.data : Fits(reader, r)}

\* Both answers are there.  Whoever reads the list asks for the next page until
\* there are as many rows as were counted.
Turn ==
  LET last == reader.export \/ (reader.page + 1) * PageSize >= reader.total IN
  /\ reader.pc = "page" /\ reader.got /\ reader.counted
  /\ reader' = [reader EXCEPT !.pc = IF last THEN "done" ELSE @, !.page = @ + 1,
                              !.got = FALSE, !.data = {}, !.counted = FALSE, !.total = 0,
                              !.shown = @ \union Filtered,
                              !.full = reader.export /\ Cardinality(reader.data) = list.export]
  /\ UNCHANGED <<list, date, rows, gone, unfit, moves>>

Next ==
  \/ \E r \in Records : Add(r) \/ Trash(r) \/ Restore(r) \/ Erase(r)
  \/ \E f \in Flags, network \in BOOLEAN, export \in BOOLEAN : Begin(f, network, export)
  \/ Data \/ Count \/ Turn

Spec == Init /\ [][Next]_listVars

----------------------------------------------------------------------------
(* Properties.                                                             *)

\* Every variable keeps its type.
ListingTypeOK ==
  /\ rows \subseteq Records /\ gone \subseteq rows
  /\ reader.pc \in {"idle", "page", "done"}
  /\ reader.data \union reader.shown \union reader.steady \subseteq Records
  /\ moves \in 0 .. MaxMoves

\* There is another record of the same date.
Tied(r) == \E x \in Records \ {r} : date[x] = date[r]

\* A row is shown twice only if another one came into the list since, or if it
\* shares its date with another one.
NothingTwice ==
  [][Turn => \A r \in Filtered \intersect reader.shown : reader.came \/ Tied(r)]_listVars

\* Who reads to the end has seen every row that was there all the time, unless one
\* left the list meanwhile, or one came or went between a page and its count, or
\* the row shares its date with another one.
ListsMissNothing ==
  reader.pc = "done" /\ ~reader.export =>
    \A r \in reader.steady : r \in reader.shown \/ reader.left \/ reader.between \/ Tied(r)

\* An export has every row that was there all the time, unless it is full.
ExportsMissNothing == reader.pc = "done" /\ reader.export => reader.steady \subseteq reader.shown \/ reader.full

=============================================================================
