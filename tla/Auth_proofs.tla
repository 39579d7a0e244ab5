------------------------------- MODULE Auth_proofs -------------------------------
(***************************************************************************)
(* What Auth guarantees, for every number of requests to the account, of   *)
(* agents, of wrong passwords before the lock and of faults: a whole       *)
(* account, live sessions that know the password, saves that lose nothing  *)
(* but to an overlap, and sessions and codes that end once.                *)
(***************************************************************************)
EXTENDS Auth, TLAPS, FiniteSetTheorems

----------------------------------------------------------------------------
(* Types, and which operation is where.                                    *)

SaveOps == {"lock", "fresh", "change", "reset", "verify", "link", "setup", "enable",
            "disable", "unlink", "edit", "password"}
CodeOps == {"verify", "reset", "password"}
Otps    == Names \X Purposes

ReqType == [op : Ops, pc : PCs, img : Accounts, sids : SUBSET Names,
            code : Otps \union Names \union {None}, missed : SUBSET Ops, unseen : SUBSET Ops]

\* Operations that may be at pc.
OpsAt(pc) ==
  CASE pc = "new"     -> {"new"}
    [] pc = "count"   -> {"login"}
    [] pc = "begin"   -> {"lock", "fresh", "enable"}
    [] pc = "save"    -> SaveOps
    [] pc = "issue"   -> {"login", "google", "link"}
    [] pc = "find"    -> {"change", "reset"}
    [] pc = "update"  -> {"change", "reset", "revoke"}
    [] pc = "create"  -> {"resend", "forgot", "ask"}
    [] pc = "replace" -> {"regenerate"}
    [] pc \in {"mark", "trust"} -> {"challenge"}
    [] pc = "rotate"  -> {"refresh", "challenge"}
    [] pc = "done"    -> Ops

\* What a request holds fits the step it is at.
Shaped(rec) ==
  /\ rec.op \in OpsAt(rec.pc)
  /\ rec.pc = "new" => rec = Idle("new")
  /\ rec.pc = "save" => Admits(rec.op, rec.img)
  /\ rec.pc = "save" => IF rec.op \in CodeOps THEN rec.code \in Otps ELSE rec.code = None
  /\ rec.pc \in {"count", "begin", "issue"} => rec.code = None
  /\ rec.pc = "mark" => rec.code \in Names
  /\ rec.pc \in {"mark", "trust", "rotate"} => \E s \in Names : rec.sids = {s}

TypeInv ==
  /\ account \in Accounts /\ failures \in Nat /\ throttle \in BOOLEAN
  /\ otps \subseteq Otps
  /\ codes \subseteq Names /\ devices \subseteq Names /\ stray \subseteq Names
  /\ proven \subseteq Names
  /\ sessions \in [Names -> Sessions]
  /\ req \in [Requests -> ReqType]
  /\ \A r \in Requests : Shaped(req[r])
  /\ wrong \subseteq Requests /\ IsFiniteSet(wrong)
  /\ faults \in 0 .. MaxFaults

----------------------------------------------------------------------------
(* The account row and what must end with it.                              *)

\* No two saves of the account have overlapped.
Clean == "account" \notin crossed /\ "row" \notin crossed

WellFormed(a) == a.enabled => a.secret # None

\* What a request knows of the account.
ImageOK(rec) ==
  /\ "row" \notin crossed => WellFormed(rec.img)
  /\ rec.pc = "save" /\ rec.unseen = {} => rec.img = account
  /\ Clean /\ rec.op = "enable" /\ rec.pc \in {"begin", "save"} /\ "setup" \notin rec.missed
     => account.secret \in proven \union {None}
  /\ Clean /\ rec.pc \in {"replace", "mark", "trust"} /\ "disable" \notin rec.missed
     => account.enabled

AccountOK ==
  /\ "row" \notin crossed => WellFormed(account)
  /\ Clean /\ "setup" \notin crossed /\ account.enabled => account.secret \in proven
  /\ Clean /\ ~account.enabled => /\ codes = {} \/ "codes" \in crossed
                                  /\ devices = {} \/ "devices" \in crossed

AccountInv == AccountOK /\ \A r \in Requests : ImageOK(req[r])

----------------------------------------------------------------------------
(* One-time codes.                                                         *)

Purpose(op) == CASE op = "resend" -> "verify" [] op = "forgot" -> "reset" [] op = "ask" -> "link"

\* A code is of the start or of a request that is done.
Done(n) == n = Start \/ req[n].pc = "done"
Owned(c) == \E n \in Names : Done(n) /\ (c = n \/ \E p \in Purposes : c = <<n, p>>)

CodesOK ==
  /\ \A c \in otps \union codes \union spent : Owned(c)
  /\ None \notin spent /\ spent \intersect otps = {} /\ spent \intersect codes = {}

AtMostOne(p) == \A m, n \in Names : <<m, p>> \in otps /\ <<n, p>> \in otps => m = n

SingleOK == \A p \in Purposes : AtMostOne(p) \/ (p # "verify" /\ p \in crossed)

\* What a request knows of the codes.
CodeOK(rec) ==
  /\ rec.pc \in {"save", "mark"} /\ rec.code \in spent
     => rec.missed \intersect {"verify", "reset", "password", "challenge"} # {}
  /\ rec.pc \in {"save", "mark"} /\ rec.code # None => Owned(rec.code)
  /\ rec.pc = "create" /\ (rec.op = "resend" \/ rec.op \notin rec.missed)
     => \A n \in Names : <<n, Purpose(rec.op)>> \in otps => n \in rec.sids
  /\ rec.pc = "create" /\ rec.op = "resend" => throttle

\* Two requests never resend at a time.
Resending(r) == At(r, "resend", "create")
ResendsApart == \A q, r \in Requests : Resending(q) /\ Resending(r) => q = r

CodeInv == CodesOK /\ SingleOK /\ ResendsApart /\ \A r \in Requests : CodeOK(req[r])

----------------------------------------------------------------------------
(* The lock.                                                               *)

Locking(r) == req[r].op = "lock" /\ req[r].pc \in {"begin", "save"}

LockInv ==
  /\ Cardinality(wrong) <= failures
  /\ Cardinality(wrong) >= LockAt =>
       account.locked \/ faults > 0 \/ \E r \in Requests : Locking(r)

----------------------------------------------------------------------------
(* Sessions.                                                               *)

PwdOps == {"change", "reset", "password"}

\* What a request knows of the sessions.
SessionOK(r, rec) ==
  /\ rec.pc \in {"new", "count", "issue"} \/ (rec.pc = "save" /\ rec.op = "link")
     => sessions[r].state = "none"
  /\ rec.pc \notin {"create", "done"} => \A s \in rec.sids : sessions[s].state # "none"
  /\ rec.pc = "save" /\ rec.op = "reset" => rec.sids = {}
  /\ rec.pc = "rotate" /\ "revoke" \notin rec.unseen => \A s \in rec.sids : sessions[s].state = "live"
  /\ Clean /\ (rec.pc = "issue" \/ (rec.pc = "save" /\ rec.op = "link")) /\ rec.missed \intersect PwdOps = {}
     => rec.img.pwd = account.pwd

WillRevoke(r, s) == (req[r].pc = "find" /\ s \notin req[r].sids) \/ (req[r].pc = "update" /\ s \in req[r].sids)

Known(s) == \/ sessions[s].by = account.pwd \/ s \in stray
            \/ \E r \in Requests : WillRevoke(r, s)

SessionInv ==
  /\ faults = 0 /\ Clean => \A s \in Live : Known(s)
  /\ \A r \in Requests : SessionOK(r, req[r])
----------------------------------------------------------------------------
(* The steps of the account, in families.                                  *)

\* Every request but r keeps what it holds, and misses `what' if it is under way.
Others(r, what) ==
  \A q \in Requests \ {r} :
    /\ req'[q] \in ReqType
    /\ req'[q].op = req[q].op /\ req'[q].pc = req[q].pc /\ req'[q].img = req[q].img
    /\ req'[q].sids = req[q].sids /\ req'[q].code = req[q].code
    /\ IF req[q].pc \in {"new", "done"} THEN req'[q] = req[q]
       ELSE /\ req'[q].missed = req[q].missed \union what
            /\ req'[q].unseen = req[q].unseen \union what

Moved(r, rec, what) ==
  /\ rec \in ReqType /\ Shaped(rec)
  /\ req' \in [Requests -> ReqType] /\ req'[r] = rec
  /\ Others(r, what)

\* A request arrives: it reads the account and goes to rec.
Arrived(rec) ==
  /\ rec.img = account /\ rec.missed = {} /\ rec.unseen = {}
  /\ rec.pc = "save" => rec.op \notin {"lock", "fresh", "enable"} /\ rec.code \in otps \union {None}
  /\ rec.pc = "begin" => rec.op = "enable" /\ account.secret \in proven'
  /\ rec.pc \in {"replace", "mark", "trust"} => account.enabled
  /\ rec.pc = "mark" => rec.code \in codes
  /\ rec.pc = "create" => \A n \in Names : <<n, Purpose(rec.op)>> \in otps => n \in rec.sids
  /\ rec.pc = "create" /\ rec.op = "resend" => ~throttle /\ throttle'
  /\ rec.pc # "create" => rec.sids \subseteq Live
  /\ rec.pc = "save" /\ rec.op = "reset" => rec.sids = {}
  /\ rec.pc \in {"count", "begin", "save", "issue", "update", "create", "replace", "mark",
                 "trust", "rotate"}

Arrival(r) ==
  /\ req[r].pc = "new"
  /\ \E rec \in ReqType : Arrived(rec) /\ Moved(r, rec, {})
  /\ proven \subseteq proven' /\ proven' \subseteq Names
  /\ throttle' \in {throttle, TRUE}
  /\ <<failures', wrong'>> \in {<<failures, wrong>>, <<0, {}>>}
  /\ UNCHANGED <<account, otps, spent, codes, devices, sessions, stray, crossed, faults>>

\* The request goes on to pc as op, with what it holds.
Goes(r, op, pc, what) ==
  \E rec \in ReqType :
    /\ rec.op = op /\ rec.pc = pc /\ rec.img = req[r].img /\ rec.sids = req[r].sids
    /\ rec.code = req[r].code /\ rec.missed = req[r].missed /\ rec.unseen = req[r].unseen
    /\ Moved(r, rec, what)

\* The request is through.
Ends(r, what) ==
  \E rec \in ReqType : rec.pc = "done" /\ rec.img = Registered /\ Moved(r, rec, what)

\* A request ends without having done what it came for.
Quit(r) ==
  /\ Ends(r, {}) /\ req[r].pc # "done"
  /\ \/ faults' = faults + 1 /\ faults < MaxFaults
     \/ UNCHANGED faults /\ (req[r].pc = "new" \/ (req[r].pc = "begin" /\ ~Admits(req[r].op, account)))
  /\ UNCHANGED <<account_, factors_, mail_, session_, crossed>>

\* A second transaction reads the account.
Resumed(r) ==
  /\ req[r].pc = "begin"
  /\ \E rec \in ReqType :
       /\ rec.op = req[r].op /\ rec.pc = "save" /\ rec.img = account /\ rec.unseen = {}
       /\ rec.missed = req[r].missed /\ rec.sids = req[r].sids /\ rec.code = None
       /\ Moved(r, rec, {})
  /\ UNCHANGED <<account_, factors_, mail_, session_, rest_>>

\* A transaction commits, and its request goes on.
Saved(r) ==
  LET op == req[r].op IN
  /\ Save(r)
  /\ op \in {"change", "reset"} => Goes(r, op, "find", {op})
  /\ op = "link" => \E rec \in ReqType :
       /\ rec.op = op /\ rec.pc = "issue" /\ rec.img = [req[r].img EXCEPT !.verified = TRUE]
       /\ rec.missed = req[r].missed /\ rec.sids = req[r].sids /\ Moved(r, rec, {op})
  /\ op \notin {"change", "reset", "link"} => Ends(r, {op})

\* A transaction is rolled back, and the listener of its event runs.
RolledBack(r) ==
  /\ req[r].pc = "save" /\ req[r].op \in {"change", "reset"} /\ Goes(r, req[r].op, "find", {})
  /\ faults' = faults + 1 /\ faults < MaxFaults
  /\ UNCHANGED <<account_, factors_, mail_, session_, crossed>>

Counted(r) ==
  /\ Count(r)
  /\ IF failures' >= LockAt THEN Goes(r, "lock", "begin", {}) ELSE Ends(r, {})

Issued(r) ==
  /\ Issue(r)
  /\ Goes(r, "fresh", "begin", {}) \/ Ends(r, {})

Found(r) ==
  /\ req[r].pc = "find"
  /\ \E rec \in ReqType : rec.pc = "update" /\ rec.img = req[r].img /\ rec.sids = Live \ req[r].sids
                          /\ Moved(r, rec, {})
  /\ UNCHANGED <<account_, factors_, mail_, session_, rest_>>

Updated(r) == UpdateSessions(r) /\ Ends(r, {"revoke"})

Rotated(r) ==
  /\ Rotate(r) /\ Ends(r, {})
  /\ \E s \in Names : /\ req[r].sids = {s}
                      /\ sessions' = [sessions EXCEPT ![s].state = "live"]
                      /\ s \in stray' \/ req[r].unseen \intersect {"revoke", "change", "reset", "password"} = {}

Replaced(r) == Replace(r) /\ Ends(r, {"regenerate"})

Marked(r) == MarkUsed(r) /\ Goes(r, "challenge", "trust", {"challenge"})

Trusted(r) ==
  /\ Trust(r)
  /\ \/ Ends(r, {})
     \/ /\ req[r].sids \subseteq Live
        /\ \E rec \in ReqType : /\ rec.pc = "rotate" /\ rec.img = req[r].img /\ rec.sids = req[r].sids
                                /\ rec.unseen = {} /\ Moved(r, rec, {})

Forgotten(r) == RevokeDevices(r) /\ Ends(r, {"device"})

Created(r) == CreateCode(r) /\ Ends(r, {req[r].op})

----------------------------------------------------------------------------
(* Every step belongs to one of them.                                      *)

\* What an idle request holds is well formed.
LEMMA IdleFacts ==
  \A pc \in PCs : /\ Idle(pc) \in ReqType
                  /\ Idle(pc).op = "new" /\ Idle(pc).pc = pc /\ Idle(pc).img = Registered
                  /\ Idle(pc).sids = {} /\ Idle(pc).code = None
                  /\ Idle(pc).missed = {} /\ Idle(pc).unseen = {}
BY AuthAssumption DEF Idle, ReqType, Registered, Accounts, Names, Ops

\* Move does what Moved says.
LEMMA MoveMoves ==
  ASSUME TypeInv, NEW r \in Requests, NEW rec \in ReqType, Shaped(rec),
         NEW what \in SUBSET Ops, Move(r, rec, what)
  PROVE  Moved(r, rec, what)
<1>1. ASSUME NEW q \in Requests \ {r}
      PROVE  /\ req'[q] \in ReqType
             /\ req'[q].op = req[q].op /\ req'[q].pc = req[q].pc /\ req'[q].img = req[q].img
             /\ req'[q].sids = req[q].sids /\ req'[q].code = req[q].code
             /\ IF req[q].pc \in {"new", "done"} THEN req'[q] = req[q]
                ELSE /\ req'[q].missed = req[q].missed \union what
                     /\ req'[q].unseen = req[q].unseen \union what
  <2>1. req[q] \in ReqType
    BY DEF TypeInv
  <2>2. req'[q] = IF Running(q)
                  THEN [req[q] EXCEPT !.missed = @ \union what, !.unseen = @ \union what]
                  ELSE req[q]
    BY DEF Move
  <2> QED
    BY <2>1, <2>2 DEF Running, ReqType
<1>2. req'[r] = rec
  BY DEF Move
<1>3. req' \in [Requests -> ReqType]
  BY <1>1, <1>2 DEF Move
<1> QED
  BY <1>1, <1>2, <1>3 DEF Moved, Others

\* A new request is idle.
LEMMA NewFacts ==
  ASSUME TypeInv, NEW r \in Requests, Arrives(r)
  PROVE  /\ req[r] \in ReqType /\ req[r].pc = "new"
         /\ req[r].code = None /\ req[r].sids = {} /\ req[r].missed = {}
BY IdleFacts DEF TypeInv, Shaped, Arrives, PCs

\* What an arriving request holds, for each form in which the actions write it.
Has(rec, op, pc, S, c) ==
  /\ rec \in ReqType /\ rec.op = op /\ rec.pc = pc /\ rec.img = account
  /\ rec.missed = {} /\ rec.unseen = {} /\ rec.sids = S /\ rec.code = c

LEMMA HoldsNothing ==
  ASSUME TypeInv, NEW r \in Requests, Arrives(r), NEW op \in Ops, NEW pc \in PCs,
         NEW rec, rec = Reading(r, op, pc)
  PROVE  Has(rec, op, pc, {}, None)
<1>1. account \in Accounts
  BY DEF TypeInv
<1> QED
  BY <1>1, NewFacts DEF Reading, ReqType, Has

LEMMA HoldsSessions ==
  ASSUME TypeInv, NEW r \in Requests, Arrives(r), NEW op \in Ops, NEW pc \in PCs,
         NEW S \in SUBSET Names, NEW rec, rec = [Reading(r, op, pc) EXCEPT !.sids = S]
  PROVE  Has(rec, op, pc, S, None)
<1>1. account \in Accounts
  BY DEF TypeInv
<1> QED
  BY <1>1, NewFacts DEF Reading, ReqType, Has

LEMMA HoldsCode ==
  ASSUME TypeInv, NEW r \in Requests, Arrives(r), NEW op \in Ops, NEW pc \in PCs,
         NEW S \in SUBSET Names, NEW c \in Otps \union Names \union {None}, NEW rec,
         rec = [Reading(r, op, pc) EXCEPT !.sids = S, !.code = c]
           \/ rec = [Reading(r, op, pc) EXCEPT !.code = c, !.sids = S]
  PROVE  Has(rec, op, pc, S, c)
<1>1. account \in Accounts
  BY DEF TypeInv
<1> QED
  BY <1>1, NewFacts DEF Reading, ReqType, Has

\* An arrival whose record is known.
LEMMA Arriving ==
  ASSUME TypeInv, NEW r \in Requests, Arrives(r), NEW rec \in ReqType, Move(r, rec, {}),
         Shaped(rec), Arrived(rec),
         proven \subseteq proven' /\ proven' \subseteq Names,
         throttle' \in {throttle, TRUE},
         <<failures', wrong'>> \in {<<failures, wrong>>, <<0, {}>>},
         UNCHANGED <<account, otps, spent, codes, devices, sessions, stray, crossed, faults>>
  PROVE  Arrival(r)
<1>1. Moved(r, rec, {})
  BY MoveMoves
<1> QED
  BY <1>1, NewFacts DEF Arrival

LEMMA LiveNames == TypeInv => Live \subseteq Names
BY DEF Live

\* Transactions that begin when their request arrives.
LEMMA BeginsArrive ==
  ASSUME TypeInv, NEW r \in Requests, Arrives(r),
         NEW op \in SaveOps \ {"lock", "fresh", "enable", "link"}, NEW S \in SUBSET Live, Begins(r, op, S),
         op = "reset" => S = {}
  PROVE  Arrival(r)
<1>1. PICK o \in Needed(op) : Move(r, [Reading(r, op, "save") EXCEPT !.code = o, !.sids = S], {})
  BY DEF Begins
<1>2. IF op \in CodeOps THEN o \in otps /\ o \in Otps ELSE o = None
  BY DEF Needed, CodeOps, SaveOps, TypeInv
<1>3. op \in Ops /\ "save" \in PCs /\ S \in SUBSET Names /\ o \in Otps \union Names \union {None}
  BY <1>2, LiveNames DEF SaveOps, Ops, PCs
<1> DEFINE rec == [Reading(r, op, "save") EXCEPT !.code = o, !.sids = S]
<1>4. Has(rec, op, "save", S, o)
  BY <1>3, HoldsCode
<1>5. Move(r, rec, {})
  BY <1>1
<1>6. Admits(op, account)
  BY DEF Begins
<1> HIDE DEF rec
<1>7. Shaped(rec)
  BY <1>2, <1>4, <1>6 DEF Has, Shaped, OpsAt
<1>8. Arrived(rec)
  BY <1>2, <1>4 DEF Has, Arrived
<1>9. UNCHANGED <<account, otps, spent, codes, devices, sessions, stray, crossed, faults, proven, throttle, failures, wrong>>
  BY DEF Begins, account_, factors_, mail_, session_, rest_
<1> QED
  BY <1>4, <1>5, <1>7, <1>8, <1>9, Arriving DEF TypeInv, Has

\* ChangePassword ... PasswordThroughLink.
LEMMA TransactionsArrive ==
  ASSUME TypeInv, NEW r \in Requests,
         \/ ChangePassword(r) \/ ResetPassword(r) \/ VerifyEmail(r) \/ SetupTotp(r)
         \/ DisableTotp(r) \/ UnlinkGoogle(r) \/ UpdateUser(r) \/ PasswordThroughLink(r)
  PROVE  Arrival(r)
<1>1. CASE ChangePassword(r)
  <2>1. PICK s \in Live : Begins(r, "change", {s})
    BY <1>1 DEF ChangePassword
  <2> QED
    BY <1>1, <2>1, BeginsArrive DEF ChangePassword, SaveOps
<1>2. CASE ResetPassword(r)
  BY <1>2, BeginsArrive DEF ResetPassword, SaveOps
<1>3. CASE VerifyEmail(r)
  BY <1>3, BeginsArrive DEF VerifyEmail, SaveOps
<1>4. CASE SetupTotp(r)
  BY <1>4, BeginsArrive DEF SetupTotp, SaveOps
<1>5. CASE DisableTotp(r)
  BY <1>5, BeginsArrive DEF DisableTotp, SaveOps
<1>6. CASE UnlinkGoogle(r)
  BY <1>6, BeginsArrive DEF UnlinkGoogle, SaveOps
<1>7. CASE UpdateUser(r)
  BY <1>7, BeginsArrive DEF UpdateUser, SaveOps
<1>8. CASE PasswordThroughLink(r)
  BY <1>8, BeginsArrive DEF PasswordThroughLink, SaveOps
<1> QED
  BY <1>1, <1>2, <1>3, <1>4, <1>5, <1>6, <1>7, <1>8

\* Requests that begin with a plain reading of the account.
LEMMA PlainArrives ==
  ASSUME TypeInv, NEW r \in Requests, Arrives(r),
         NEW op \in Ops, NEW pc \in {"count", "begin", "issue", "save", "replace"}, Move(r, Reading(r, op, pc), {}),
         op \in OpsAt(pc), pc = "save" => op = "link", pc = "begin" => op = "enable" /\ account.secret \in proven',
         pc = "replace" => account.enabled,
         proven \subseteq proven' /\ proven' \subseteq Names,
         <<failures', wrong'>> \in {<<failures, wrong>>, <<0, {}>>},
         UNCHANGED <<account, otps, spent, codes, devices, sessions, stray, crossed, faults, throttle>>
  PROVE  Arrival(r)
<1> DEFINE rec == Reading(r, op, pc)
<1>1. Has(rec, op, pc, {}, None)
  BY HoldsNothing DEF PCs
<1>2. Move(r, rec, {})
  OBVIOUS
<1> HIDE DEF rec
<1>3. Shaped(rec)
  BY <1>1 DEF Has, Shaped, OpsAt, CodeOps, Admits
<1>4. Arrived(rec)
  BY <1>1 DEF Has, Arrived
<1> QED
  BY <1>1, <1>2, <1>3, <1>4, Arriving DEF Has

LEMMA LoginsArrive ==
  ASSUME TypeInv, NEW r \in Requests,
         RightPassword(r) \/ WrongPassword(r) \/ Google(r) \/ Regenerate(r) \/ EnablePreflight(r)
  PROVE  Arrival(r)
<1> USE DEF OpsAt, Ops
<1> proven \subseteq Names /\ account \in Accounts
  BY DEF TypeInv
<1>1. CASE RightPassword(r)
  BY <1>1, PlainArrives DEF RightPassword, account_, factors_, mail_, session_, rest_
<1>2. CASE WrongPassword(r)
  BY <1>2, PlainArrives DEF WrongPassword, account_, factors_, mail_, session_, rest_
<1>3. CASE Google(r)
  <2>1. CASE Move(r, Reading(r, "link", "save"), {})
    BY <1>3, <2>1, PlainArrives DEF Google, SaveOps, account_, factors_, mail_, session_, rest_
  <2>2. CASE Move(r, Reading(r, "google", "issue"), {})
    BY <1>3, <2>2, PlainArrives DEF Google, account_, factors_, mail_, session_, rest_
  <2> QED
    BY <1>3, <2>1, <2>2 DEF Google
<1>4. CASE Regenerate(r)
  BY <1>4, PlainArrives DEF Regenerate, account_, factors_, mail_, session_, rest_
<1>5. CASE EnablePreflight(r)
  <2>1. account.secret \in Names
    BY <1>5 DEF EnablePreflight, Admits, Accounts
  <2> QED
    BY <1>5, <2>1, PlainArrives DEF EnablePreflight, account_, factors_, mail_, session_, rest_
<1> QED
  BY <1>1, <1>2, <1>3, <1>4, <1>5

\* Requests about sessions, and challenges.
LEMMA SessionsArrive ==
  ASSUME TypeInv, NEW r \in Requests, Arrives(r), NEW S \in SUBSET Live,
         NEW op \in Ops, NEW pc \in {"update", "rotate", "mark", "trust"},
         NEW c \in codes \union {None}, NEW rec, Has(rec, op, pc, S, c), Move(r, rec, {}),
         op \in OpsAt(pc), pc \in {"rotate", "mark", "trust"} => \E s \in Live : S = {s},
         pc \in {"mark", "trust"} => account.enabled, pc = "mark" => c \in codes,
         UNCHANGED <<account_, factors_, mail_, session_, rest_>>
  PROVE  Arrival(r)
<1>1. Shaped(rec)
  BY LiveNames DEF Has, Shaped, OpsAt, TypeInv
<1>2. Arrived(rec)
  BY DEF Has, Arrived
<1>3. UNCHANGED <<account, otps, spent, codes, devices, sessions, stray, crossed, faults, proven, throttle, failures, wrong>>
  BY DEF account_, factors_, mail_, session_, rest_
<1> QED
  BY <1>1, <1>2, <1>3, Arriving DEF TypeInv, Has

LEMMA RevocationsArrive ==
  ASSUME TypeInv, NEW r \in Requests,
         Logout(r) \/ LogoutAll(r) \/ RevokeSession(r) \/ Refresh(r) \/ Challenge(r)
  PROVE  Arrival(r)
<1> USE DEF OpsAt, Ops
<1>1. ASSUME NEW S \in SUBSET Live, Revokes(r, S), Arrives(r)
      PROVE  Arrival(r)
  <2> DEFINE rec == [Reading(r, "revoke", "update") EXCEPT !.sids = S]
  <2>1. Has(rec, "revoke", "update", S, None)
    BY <1>1, HoldsSessions, LiveNames DEF PCs
  <2>2. Move(r, rec, {})
    BY <1>1 DEF Revokes
  <2> HIDE DEF rec
  <2> QED
    BY <1>1, <2>1, <2>2, SessionsArrive DEF Revokes
<1>2. CASE Logout(r)
  BY <1>1, <1>2 DEF Logout
<1>3. CASE LogoutAll(r)
  BY <1>1, <1>3 DEF LogoutAll
<1>4. CASE RevokeSession(r)
  BY <1>1, <1>4 DEF RevokeSession
<1>5. CASE Refresh(r)
  <2>1. PICK s \in Live : Move(r, [Reading(r, "refresh", "rotate") EXCEPT !.sids = {s}], {})
    BY <1>5 DEF Refresh
  <2> DEFINE rec == [Reading(r, "refresh", "rotate") EXCEPT !.sids = {s}]
  <2>2. Has(rec, "refresh", "rotate", {s}, None)
    BY <1>5, HoldsSessions, LiveNames DEF PCs, Refresh
  <2>3. Move(r, rec, {})
    BY <2>1
  <2> HIDE DEF rec
  <2> QED
    BY <1>5, <2>2, <2>3, SessionsArrive DEF Refresh
<1>6. CASE Challenge(r)
  <2>1. PICK s \in Live :
          \/ Move(r, [Reading(r, "challenge", "trust") EXCEPT !.sids = {s}], {})
          \/ \E c \in codes :
               Move(r, [Reading(r, "challenge", "mark") EXCEPT !.sids = {s}, !.code = c], {})
    BY <1>6 DEF Challenge
  <2>2. ASSUME NEW pc \in {"mark", "trust"}, NEW c \in codes \union {None}, NEW rec,
               Has(rec, "challenge", pc, {s}, c), Move(r, rec, {}), pc = "mark" => c \in codes
        PROVE  Arrival(r)
    BY <1>6, <2>2, SessionsArrive DEF Challenge
  <2>3. CASE Move(r, [Reading(r, "challenge", "trust") EXCEPT !.sids = {s}], {})
    <3> DEFINE rec == [Reading(r, "challenge", "trust") EXCEPT !.sids = {s}]
    <3>1. Has(rec, "challenge", "trust", {s}, None)
      BY <1>6, HoldsSessions, LiveNames DEF PCs, Challenge
    <3>2. Move(r, rec, {})
      BY <2>3
    <3> HIDE DEF rec
    <3> QED
      BY <2>2, <3>1, <3>2
  <2>4. ASSUME NEW c \in codes,
               Move(r, [Reading(r, "challenge", "mark") EXCEPT !.sids = {s}, !.code = c], {})
        PROVE  Arrival(r)
    <3> DEFINE rec == [Reading(r, "challenge", "mark") EXCEPT !.sids = {s}, !.code = c]
    <3>1. Has(rec, "challenge", "mark", {s}, c)
      BY <1>6, HoldsCode, LiveNames DEF PCs, Challenge, TypeInv
    <3>2. Move(r, rec, {})
      BY <2>4
    <3> HIDE DEF rec
    <3> QED
      BY <2>2, <3>1, <3>2
  <2> QED
    BY <2>1, <2>3, <2>4
<1> QED
  BY <1>2, <1>3, <1>4, <1>5, <1>6

\* Requests for a code.
LEMMA CodesArrive ==
  ASSUME TypeInv, NEW r \in Requests, Arrives(r), NEW op \in {"resend", "forgot", "ask"},
         Move(r, [Reading(r, op, "create") EXCEPT !.sids = {o[1] : o \in {o \in otps : o[2] = Purpose(op)}}], {}),
         op = "resend" => ~throttle /\ throttle',
         throttle' \in {throttle, TRUE},
         UNCHANGED <<account_, factors_, otps, spent, session_, rest_>>
  PROVE  Arrival(r)
<1> DEFINE S == {o[1] : o \in {o \in otps : o[2] = Purpose(op)}}
           rec == [Reading(r, op, "create") EXCEPT !.sids = S]
<1>1. S \in SUBSET Names
  BY DEF TypeInv, Otps
<1>2. \A n \in Names : <<n, Purpose(op)>> \in otps => n \in S
  OBVIOUS
<1>3. Move(r, rec, {})
  OBVIOUS
<1> HIDE DEF S
<1>4. Has(rec, op, "create", S, None)
  BY <1>1, HoldsSessions DEF PCs, Ops
<1> HIDE DEF rec
<1>5. Shaped(rec)
  BY <1>4 DEF Has, Shaped, OpsAt
<1>6. Arrived(rec)
  BY <1>2, <1>4 DEF Has, Arrived
<1>7. UNCHANGED <<account, otps, spent, codes, devices, sessions, stray, crossed, faults, proven, failures, wrong>>
  BY DEF account_, factors_, session_, rest_
<1> QED
  BY <1>3, <1>4, <1>5, <1>6, <1>7, Arriving DEF TypeInv, Has

LEMMA LettersArrive ==
  ASSUME TypeInv, NEW r \in Requests, Resend(r) \/ Forgot(r) \/ AskForLink(r)
  PROVE  Arrival(r)
<1>1. CASE Resend(r)
  BY <1>1, CodesArrive DEF Resend, Purpose, account_, factors_, session_, rest_
<1>2. CASE Forgot(r)
  BY <1>2, CodesArrive DEF Forgot, Purpose, account_, factors_, mail_, session_, rest_
<1>3. CASE AskForLink(r)
  BY <1>3, CodesArrive DEF AskForLink, Purpose, account_, factors_, mail_, session_, rest_
<1> QED
  BY <1>1, <1>2, <1>3
LEMMA Ending ==
  ASSUME TypeInv, NEW r \in Requests, NEW what \in SUBSET Ops, Move(r, Idle("done"), what)
  PROVE  Ends(r, what)
<1>1. Idle("done") \in ReqType /\ Shaped(Idle("done")) /\ Idle("done").pc = "done"
      /\ Idle("done").img = Registered
  BY IdleFacts DEF PCs, Shaped, OpsAt, Ops
<1> QED
  BY <1>1, MoveMoves DEF Ends

LEMMA Going ==
  ASSUME TypeInv, NEW r \in Requests, NEW what \in SUBSET Ops,
         NEW op \in Ops, NEW pc \in {"begin", "find", "trust"},
         NEW rec \in ReqType, rec = [req[r] EXCEPT !.op = op, !.pc = pc], Move(r, rec, what),
         op \in OpsAt(pc), pc = "begin" => req[r].code = None,
         pc = "trust" => \E s \in Names : req[r].sids = {s}
  PROVE  Goes(r, op, pc, what)
<1>1. req[r] \in ReqType
  BY DEF TypeInv
<1>2. /\ rec.op = op /\ rec.pc = pc /\ rec.img = req[r].img /\ rec.sids = req[r].sids
      /\ rec.code = req[r].code /\ rec.missed = req[r].missed /\ rec.unseen = req[r].unseen
  BY <1>1 DEF ReqType
<1>3. Shaped(rec)
  BY <1>2 DEF Shaped
<1> QED
  BY <1>2, <1>3, MoveMoves DEF Goes

\* LockAccount, MarkFresh, CommitEnable.
LEMMA SecondReads ==
  ASSUME TypeInv, NEW r \in Requests, NEW op \in {"lock", "fresh", "enable"}, BeginsAgain(r, op)
  PROVE  Resumed(r) \/ Quit(r)
<1>1. req[r] \in ReqType /\ Shaped(req[r]) /\ account \in Accounts
  BY DEF TypeInv
<1>2. CASE Admits(op, account)
  <2> DEFINE rec == Reading(r, op, "save")
  <2>1. /\ rec \in ReqType /\ rec.op = op /\ rec.pc = "save" /\ rec.img = account /\ rec.unseen = {}
        /\ rec.missed = req[r].missed /\ rec.sids = req[r].sids /\ rec.code = req[r].code
    BY <1>1 DEF Reading, ReqType, Ops, PCs
  <2>2. Move(r, rec, {})
    BY <1>2 DEF BeginsAgain
  <2>3. op = req[r].op /\ req[r].pc = "begin" /\ req[r].code = None
    BY <1>1 DEF BeginsAgain, At, Shaped
  <2> HIDE DEF rec
  <2>4. Shaped(rec)
    BY <1>2, <2>1, <2>3 DEF Shaped, OpsAt, SaveOps, CodeOps
  <2> QED
    BY <2>1, <2>2, <2>3, <2>4, MoveMoves DEF Resumed, BeginsAgain
<1>3. CASE ~Admits(op, account)
  <2>1. Ends(r, {})
    BY <1>3, Ending DEF BeginsAgain
  <2> QED
    BY <1>3, <2>1 DEF Quit, BeginsAgain, At, rest_
<1> QED
  BY <1>2, <1>3

LEMMA SaveSaves ==
  ASSUME TypeInv, NEW r \in Requests, Save(r)
  PROVE  Saved(r)
<1> DEFINE op == req[r].op
<1>1. req[r] \in ReqType /\ Shaped(req[r]) /\ req[r].pc = "save"
  BY DEF TypeInv, Save
<1>2. op \in SaveOps /\ op \in Ops
  BY <1>1 DEF Shaped, OpsAt, ReqType
<1>3. Move(r, AfterSave(r), {op})
  BY DEF Save
<1>4. ASSUME op \in {"change", "reset"}
      PROVE  Goes(r, op, "find", {op})
  <2> DEFINE rec == [req[r] EXCEPT !.op = op, !.pc = "find"]
  <2>1. rec = AfterSave(r) /\ rec \in ReqType
    BY <1>1, <1>4 DEF AfterSave, ReqType, PCs
  <2> QED
    BY <1>2, <1>3, <1>4, <2>1, Going DEF OpsAt
<1>5. ASSUME op = "link"
      PROVE  \E rec \in ReqType :
               /\ rec.op = op /\ rec.pc = "issue" /\ rec.img = [req[r].img EXCEPT !.verified = TRUE]
               /\ rec.missed = req[r].missed /\ rec.sids = req[r].sids /\ Moved(r, rec, {op})
  <2> DEFINE rec == [req[r] EXCEPT !.pc = "issue", !.img.verified = TRUE]
  <2>1. /\ rec \in ReqType /\ rec.op = op /\ rec.pc = "issue"
        /\ rec.img = [req[r].img EXCEPT !.verified = TRUE]
        /\ rec.missed = req[r].missed /\ rec.code = req[r].code /\ rec.sids = req[r].sids
    BY <1>1 DEF ReqType, PCs, Accounts
  <2>2. rec = AfterSave(r)
    BY <1>5 DEF AfterSave
  <2>3. req[r].code = None
    BY <1>1, <1>5 DEF Shaped, CodeOps
  <2> HIDE DEF rec
  <2>4. Shaped(rec)
    BY <1>5, <2>1, <2>3 DEF Shaped, OpsAt
  <2> QED
    BY <1>2, <1>3, <2>1, <2>2, <2>4, MoveMoves
<1>6. ASSUME op \notin {"change", "reset", "link"}
      PROVE  Ends(r, {op})
  BY <1>2, <1>3, <1>6, Ending DEF AfterSave
<1> QED
  BY <1>4, <1>5, <1>6 DEF Saved

LEMMA FailuresQuit ==
  ASSUME TypeInv, NEW r \in Requests, SaveFails(r) \/ FindFails(r) \/ RefreshRevoked(r)
  PROVE  Quit(r) \/ RolledBack(r)
<1>1. req[r] \in ReqType /\ Shaped(req[r])
  BY DEF TypeInv
<1>2. CASE (SaveFails(r) \/ FindFails(r)) /\ Move(r, Idle("done"), {})
  BY <1>2, Ending DEF Quit, SaveFails, FindFails, Fault
<1>3. CASE SaveFails(r) /\ ~Move(r, Idle("done"), {})
  <2> DEFINE rec == [req[r] EXCEPT !.op = req[r].op, !.pc = "find"]
  <2>1. req[r].op \in {"change", "reset"} /\ Move(r, [req[r] EXCEPT !.pc = "find"], {})
    BY <1>3 DEF SaveFails
  <2>2. rec = [req[r] EXCEPT !.pc = "find"] /\ rec \in ReqType
    BY <1>1 DEF ReqType, PCs
  <2>3. req[r].op \in Ops /\ req[r].op \in OpsAt("find") /\ Move(r, rec, {})
    BY <2>1, <2>2 DEF OpsAt, Ops
  <2> HIDE DEF rec
  <2>4. rec = [req[r] EXCEPT !.op = req[r].op, !.pc = "find"]
    BY DEF rec
  <2>5. Goes(r, req[r].op, "find", {})
    BY <2>2, <2>3, <2>4, Going
  <2> QED
    BY <1>3, <2>1, <2>5 DEF RolledBack, SaveFails, Fault
<1>4. CASE RefreshRevoked(r)
  <2> DEFINE rec == [Idle("done") EXCEPT !.op = "refresh"]
  <2>1. /\ rec \in ReqType /\ rec.pc = "done" /\ rec.op = "refresh" /\ rec.img = Registered
    BY IdleFacts DEF ReqType, PCs, Ops
  <2>2. Move(r, rec, {})
    BY <1>4 DEF RefreshRevoked
  <2> HIDE DEF rec
  <2>3. Shaped(rec)
    BY <2>1 DEF Shaped, OpsAt, Ops
  <2>4. Ends(r, {})
    BY <2>1, <2>2, <2>3, MoveMoves DEF Ends
  <2> QED
    BY <1>4, <2>4 DEF Quit, RefreshRevoked, Arrives, rest_
<1> QED
  BY <1>2, <1>3, <1>4 DEF FindFails

LEMMA LoginsGoOn ==
  ASSUME TypeInv, NEW r \in Requests, Count(r) \/ Issue(r)
  PROVE  Counted(r) \/ Issued(r)
<1>1. req[r] \in ReqType /\ Shaped(req[r])
  BY DEF TypeInv
<1>2. ASSUME NEW op \in {"lock", "fresh"}, req[r].pc \in {"count", "issue"},
             Move(r, [req[r] EXCEPT !.op = op, !.pc = "begin"], {})
      PROVE  Goes(r, op, "begin", {})
  <2>1. [req[r] EXCEPT !.op = op, !.pc = "begin"] \in ReqType
    BY <1>1 DEF ReqType, Ops, PCs
  <2>2. req[r].code = None
    BY <1>1, <1>2 DEF Shaped
  <2> QED
    BY <1>2, <2>1, <2>2, Going DEF Ops, OpsAt
<1>3. CASE Count(r)
  BY <1>2, <1>3, Ending DEF Count, Counted
<1>4. CASE Issue(r)
  <2>1. CASE Move(r, [req[r] EXCEPT !.op = "fresh", !.pc = "begin"], {})
    BY <1>2, <1>4, <2>1 DEF Issue, Issued
  <2>2. CASE Move(r, Idle("done"), {})
    BY <1>4, <2>2, Ending DEF Issued
  <2> QED
    BY <1>4, <2>1, <2>2 DEF Issue
<1> QED
  BY <1>3, <1>4

LEMMA SessionsGoOn ==
  ASSUME TypeInv, NEW r \in Requests, FindSessions(r) \/ UpdateSessions(r) \/ Rotate(r)
  PROVE  Found(r) \/ Updated(r) \/ Rotated(r)
<1>1. req[r] \in ReqType /\ Shaped(req[r])
  BY DEF TypeInv
<1>2. CASE FindSessions(r)
  <2> DEFINE rec == [req[r] EXCEPT !.pc = "update", !.sids = Live \ @]
  <2>1. /\ rec \in ReqType /\ rec.op = req[r].op /\ rec.pc = "update" /\ rec.img = req[r].img
        /\ rec.sids = Live \ req[r].sids
    BY <1>1, LiveNames DEF ReqType, PCs
  <2>2. Move(r, rec, {}) /\ req[r].pc = "find"
    BY <1>2 DEF FindSessions
  <2> HIDE DEF rec
  <2>3. Shaped(rec)
    BY <1>1, <2>1, <2>2 DEF Shaped, OpsAt
  <2> QED
    BY <1>2, <2>1, <2>2, <2>3, MoveMoves DEF Found, FindSessions
<1>3. CASE UpdateSessions(r)
  BY <1>3, Ending DEF UpdateSessions, Updated, Ops
<1>4. CASE Rotate(r)
  <2>1. PICK s \in Names : req[r].sids = {s}
    BY <1>1, <1>4 DEF Rotate, Shaped
  <2>2. (CHOOSE t \in {s} : TRUE) = s
    OBVIOUS
  <2>3. Ends(r, {})
    BY <1>4, Ending DEF Rotate
  <2>4. sessions' = [sessions EXCEPT ![s].state = "live"]
        /\ (s \in stray' \/ req[r].unseen \intersect {"revoke", "change", "reset", "password"} = {})
    BY <1>4, <2>1, <2>2 DEF Rotate
  <2> QED
    BY <1>4, <2>1, <2>3, <2>4 DEF Rotated
<1> QED
  BY <1>2, <1>3, <1>4

LEMMA FactorsGoOn ==
  ASSUME TypeInv, NEW r \in Requests,
         Replace(r) \/ MarkUsed(r) \/ Trust(r) \/ RevokeDevices(r) \/ CreateCode(r)
  PROVE  Replaced(r) \/ Marked(r) \/ Trusted(r) \/ Forgotten(r) \/ Created(r)
<1>1. req[r] \in ReqType /\ Shaped(req[r])
  BY DEF TypeInv
<1>2. CASE Replace(r)
  BY <1>2, Ending DEF Replace, Replaced, Ops
<1>3. CASE MarkUsed(r)
  <2> DEFINE rec == [req[r] EXCEPT !.op = "challenge", !.pc = "trust"]
  <2>1. req[r].op = "challenge" /\ \E s \in Names : req[r].sids = {s}
    BY <1>1, <1>3 DEF MarkUsed, Shaped, OpsAt
  <2>2. rec = [req[r] EXCEPT !.pc = "trust"] /\ rec \in ReqType
    BY <1>1, <2>1 DEF ReqType, PCs, Ops
  <2> QED
    BY <1>3, <2>1, <2>2, Going DEF MarkUsed, Marked, OpsAt, Ops
<1>4. CASE Trust(r)
  <2>1. CASE req[r].sids \subseteq Live
    <3> DEFINE rec == [req[r] EXCEPT !.pc = "rotate", !.unseen = {}]
    <3>1. /\ rec \in ReqType /\ rec.pc = "rotate" /\ rec.op = req[r].op /\ rec.img = req[r].img
          /\ rec.sids = req[r].sids /\ rec.unseen = {}
      BY <1>1 DEF ReqType, PCs
    <3>2. Move(r, rec, {})
      BY <1>4, <2>1 DEF Trust
    <3>3. req[r].op = "challenge" /\ \E s \in Names : req[r].sids = {s}
      BY <1>1, <1>4 DEF Trust, Shaped, OpsAt
    <3> HIDE DEF rec
    <3>4. Shaped(rec)
      BY <3>1, <3>3 DEF Shaped, OpsAt
    <3> QED
      BY <1>4, <2>1, <3>1, <3>2, <3>4, MoveMoves DEF Trusted
  <2>2. CASE ~(req[r].sids \subseteq Live)
    BY <1>4, <2>2, Ending DEF Trust, Trusted
  <2> QED
    BY <2>1, <2>2
<1>5. CASE RevokeDevices(r)
  BY <1>5, Ending DEF RevokeDevices, Forgotten, Ops
<1>6. CASE CreateCode(r)
  <2>1. req[r].op \in Ops
    BY <1>1 DEF ReqType
  <2> QED
    BY <1>6, <2>1, Ending DEF CreateCode, Created
<1> QED
  BY <1>2, <1>3, <1>4, <1>5, <1>6

Family(r) ==
  \/ Arrival(r) \/ Quit(r) \/ Resumed(r) \/ Saved(r) \/ RolledBack(r) \/ Counted(r) \/ Issued(r)
  \/ Found(r) \/ Updated(r) \/ Rotated(r) \/ Replaced(r) \/ Marked(r) \/ Trusted(r)
  \/ Forgotten(r) \/ Created(r)

LEMMA StepsBelong ==
  ASSUME TypeInv, NEW r \in Requests, Step(r)
  PROVE  Family(r)
BY TransactionsArrive, LoginsArrive, RevocationsArrive, LettersArrive, SecondReads, SaveSaves,
   FailuresQuit, LoginsGoOn, SessionsGoOn, FactorsGoOn
   DEF Step, Family, LockAccount, MarkFresh, CommitEnable

----------------------------------------------------------------------------
(* The types.                                                              *)

\* Whatever it is, a step keeps what the requests hold in shape.
LEMMA OthersShaped ==
  ASSUME TypeInv, NEW r \in Requests, NEW rec \in ReqType, NEW what, Moved(r, rec, what)
  PROVE  req' \in [Requests -> ReqType] /\ \A q \in Requests : Shaped(req'[q])
<1>1. ASSUME NEW q \in Requests \ {r}
      PROVE  Shaped(req'[q])
  <2>1. Shaped(req[q])
    BY DEF TypeInv
  <2>2. CASE req'[q] = req[q]
    BY <2>1, <2>2
  <2>3. CASE req[q].pc \notin {"new", "done"}
    BY <2>1, <2>3 DEF Moved, Others, Shaped
  <2> QED
    BY <2>2, <2>3 DEF Moved, Others
<1>2. Shaped(req'[r])
  BY DEF Moved
<1> QED
  BY <1>1, <1>2 DEF Moved

LEMMA FamiliesMove ==
  ASSUME TypeInv, NEW r \in Requests, Family(r)
  PROVE  \E rec \in ReqType, what \in SUBSET Ops : Moved(r, rec, what)
<1> req[r].op \in Ops /\ "challenge" \in Ops /\ "revoke" \in Ops /\ "regenerate" \in Ops /\ "device" \in Ops
  BY DEF TypeInv, ReqType, Ops
<1>1. \A op, pc : \A what \in SUBSET Ops : Goes(r, op, pc, what) => \E rec \in ReqType : Moved(r, rec, what)
  BY DEF Goes
<1>2. \A what \in SUBSET Ops : Ends(r, what) => \E rec \in ReqType : Moved(r, rec, what)
  BY DEF Ends
<1>3. CASE Arrival(r) \/ Resumed(r) \/ Found(r)
  BY <1>3 DEF Arrival, Resumed, Found
<1>4. CASE Quit(r) \/ Updated(r) \/ Rotated(r) \/ Replaced(r) \/ Forgotten(r) \/ Created(r)
  BY <1>2, <1>4 DEF Quit, Updated, Rotated, Replaced, Forgotten, Created
<1>5. CASE RolledBack(r) \/ Counted(r) \/ Issued(r) \/ Marked(r)
  BY <1>1, <1>2, <1>5 DEF RolledBack, Counted, Issued, Marked
<1>6. CASE Saved(r)
  BY <1>1, <1>2, <1>6 DEF Saved
<1>7. CASE Trusted(r)
  BY <1>2, <1>7 DEF Trusted
<1> QED
  BY <1>3, <1>4, <1>5, <1>6, <1>7 DEF Family

\* What a save makes of the row is a row.
LEMMA EffectTyped ==
  ASSUME NEW op \in SaveOps, NEW a \in Accounts, NEW r \in Requests
  PROVE  Effect(op, a, r) \in Accounts
BY DEF Effect, SaveOps, Accounts, Names

LEMMA TypeInit == Init => TypeInv
<1> SUFFICES ASSUME Init
             PROVE  TypeInv
  OBVIOUS
<1> USE AuthAssumption
<1>1. account \in Accounts
  <2>1. Registered \in Accounts
    BY DEF Registered, Accounts, Names
  <2> QED
    BY <2>1 DEF Init, Invited, Accounts, Names
<1>2. otps \subseteq Otps /\ codes \subseteq Names /\ devices \subseteq Names /\ proven \subseteq Names
  BY DEF Init, Otps, Names, Purposes, Invited
<1>3. sessions \in [Names -> Sessions]
  <2>1. SomeAgent \in Agents
    BY DEF SomeAgent
  <2>2. NoSession \in Sessions /\ Opened(Start, SomeAgent) \in Sessions
    BY <2>1 DEF NoSession, Opened, Sessions, Names
  <2> QED
    BY <2>2 DEF Init
<1>4. req \in [Requests -> ReqType]
  BY IdleFacts DEF Init, PCs
<1>5. \A r \in Requests : Shaped(req[r])
  <2>1. Shaped(Idle("new"))
    BY IdleFacts DEF Shaped, PCs, OpsAt
  <2> QED
    BY <2>1 DEF Init
<1>6. /\ failures \in Nat /\ throttle \in BOOLEAN /\ stray \subseteq Names
      /\ wrong \subseteq Requests /\ IsFiniteSet(wrong)
  BY FS_EmptySet DEF Init
<1>7. faults \in 0 .. MaxFaults
  BY DEF Init
<1> QED
  BY <1>1, <1>2, <1>3, <1>4, <1>5, <1>6, <1>7 DEF TypeInv

\* The variables but req.
Typed ==
  /\ account \in Accounts /\ failures \in Nat /\ throttle \in BOOLEAN
  /\ otps \subseteq Otps
  /\ codes \subseteq Names /\ devices \subseteq Names /\ stray \subseteq Names
  /\ proven \subseteq Names
  /\ sessions \in [Names -> Sessions]
  /\ wrong \subseteq Requests /\ IsFiniteSet(wrong)
  /\ faults \in 0 .. MaxFaults

LEMMA TypeStep == TypeInv /\ [Next]_vars => TypeInv'
<1> SUFFICES ASSUME TypeInv, [Next]_vars
             PROVE  TypeInv'
  OBVIOUS
<1> USE AuthAssumption
<1> Typed
  BY DEF Typed, TypeInv
<1>1. ASSUME NEW r \in Requests, Step(r)
      PROVE  TypeInv'
  <2>1. Family(r)
    BY <1>1, StepsBelong
  <2>2. req' \in [Requests -> ReqType] /\ \A q \in Requests : Shaped(req'[q])
    BY <2>1, FamiliesMove, OthersShaped
  <2> SUFFICES Typed'
    BY <2>2 DEF Typed, TypeInv
  <2> req[r] \in ReqType /\ Shaped(req[r])
    BY DEF TypeInv
  <2> r \in Names /\ Live \subseteq Names
    BY DEF Names, Live
  <2>3. CASE Arrival(r)
    <3>1. (failures' = failures /\ wrong' = wrong) \/ (failures' = 0 /\ wrong' = {})
      BY <2>3 DEF Arrival
    <3>2. failures' \in Nat /\ wrong' \subseteq Requests /\ IsFiniteSet(wrong')
      BY <3>1, FS_EmptySet DEF Typed
    <3>3. throttle' \in BOOLEAN /\ proven' \subseteq Names
      BY <2>3 DEF Arrival, Typed
    <3> QED
      BY <2>3, <3>2, <3>3 DEF Arrival, Typed
  <2>4. CASE Quit(r) \/ Resumed(r) \/ RolledBack(r) \/ Found(r)
    BY <2>4 DEF Quit, Resumed, RolledBack, Found, Typed, account_, factors_, mail_, session_, rest_
  <2>5. CASE Saved(r)
    <3>1. req[r].op \in SaveOps /\ req[r].img \in Accounts
      BY <2>5 DEF Saved, Save, Shaped, OpsAt, ReqType
    <3>2. account' \in Accounts
      <4>1. Effect(req[r].op, req[r].img, r) \in Accounts
        BY <3>1, EffectTyped
      <4>2. account' = Columns(req[r].op, Effect(req[r].op, req[r].img, r))
        BY <2>5 DEF Saved, Save
      <4> QED
        BY <4>1, <4>2 DEF Columns, Accounts, Typed
    <3>3. sessions' \in [Names -> Sessions]
      BY <2>5 DEF Saved, Save, Sessions, Typed
    <3>4. wrong' \subseteq Requests /\ IsFiniteSet(wrong')
      BY <2>5, FS_EmptySet DEF Saved, Save, Typed
    <3>5. otps' \subseteq Otps /\ codes' \subseteq Names /\ devices' \subseteq Names /\ stray' \subseteq Names
      BY <2>5 DEF Saved, Save, Typed
    <3> QED
      BY <2>5, <3>2, <3>3, <3>4, <3>5 DEF Saved, Save, Typed
  <2>6. CASE Counted(r)
    BY <2>6, FS_AddElement DEF Counted, Count, Typed, factors_, mail_, session_, rest_
  <2>7. CASE Issued(r)
    <3>1. sessions' \in [Names -> Sessions]
      BY <2>7 DEF Issued, Issue, Opened, Sessions, Typed, ReqType, Accounts
    <3> QED
      BY <2>7, <3>1 DEF Issued, Issue, Typed, account_, factors_, mail_, rest_
  <2>8. CASE Updated(r)
    <3>1. sessions' \in [Names -> Sessions]
      BY <2>8 DEF Updated, UpdateSessions, Sessions, Typed
    <3> QED
      BY <2>8, <3>1 DEF Updated, UpdateSessions, Typed, account_, factors_, mail_, rest_
  <2>9. CASE Rotated(r)
    <3>1. PICK s \in Names : req[r].sids = {s} /\ sessions' = [sessions EXCEPT ![s].state = "live"]
      BY <2>9 DEF Rotated
    <3>2. sessions' \in [Names -> Sessions]
      BY <3>1 DEF Sessions, Typed
    <3>3. stray' \subseteq Names
      <4>1. (CHOOSE t \in {s} : TRUE) = s
        OBVIOUS
      <4> QED
        BY <2>9, <3>1, <4>1 DEF Rotated, Rotate, Typed
    <3> QED
      BY <2>9, <3>2, <3>3 DEF Rotated, Rotate, Typed, account_, factors_, mail_, rest_
  <2>10. CASE Replaced(r)
    BY <2>10 DEF Replaced, Replace, Typed, account_, mail_, session_
  <2>11. CASE Marked(r)
    BY <2>11 DEF Marked, MarkUsed, Typed, account_, session_, rest_
  <2>12. CASE Trusted(r)
    BY <2>12 DEF Trusted, Trust, Typed, account_, mail_, session_
  <2>13. CASE Forgotten(r)
    BY <2>13 DEF Forgotten, RevokeDevices, Typed, account_, mail_, session_, rest_
  <2>14. CASE Created(r)
    <3>1. req[r].op \in {"resend", "forgot", "ask"}
      BY <2>14 DEF Created, CreateCode, Shaped, OpsAt
    <3>2. otps' \subseteq Otps
      BY <2>14, <3>1 DEF Created, CreateCode, Typed, Otps, Purposes
    <3> QED
      BY <2>14, <3>2 DEF Created, CreateCode, Typed, account_, factors_, session_
  <2> QED
    BY <2>1, <2>3, <2>4, <2>5, <2>6, <2>7, <2>8, <2>9, <2>10, <2>11, <2>12, <2>13, <2>14 DEF Family
<1>2. CASE TimePasses
  BY <1>2, FS_EmptySet DEF TimePasses, TypeInv, factors_, session_, rest_, Accounts
<1>3. CASE UNCHANGED vars
  BY <1>3 DEF TypeInv, vars
<1> QED
  BY <1>1, <1>2, <1>3 DEF Next

LEMMA TypeInvariant == Spec => []TypeInv
BY TypeInit, TypeStep, PTL DEF Spec

\* Every variable keeps its type, whatever requests overlap: what a request has
\* read of the account, its codes and its sessions is what its step needs.
THEOREM TypeCorrect == Spec => []TypeOK
<1>1. TypeInv => TypeOK
  BY DEF TypeInv, TypeOK, ReqType, Otps
<1> QED
  BY <1>1, TypeInvariant, PTL

----------------------------------------------------------------------------
(* The account row.                                                        *)

\* A step that leaves the row leaves what the other requests know of it.
LEMMA QuietImages ==
  ASSUME TypeInv, AccountInv, NEW r \in Requests, NEW rec \in ReqType, NEW what, Moved(r, rec, what),
         account' = account, proven \subseteq proven', crossed \subseteq crossed'
  PROVE  \A q \in Requests \ {r} : ImageOK(req[q])'
<1> SUFFICES ASSUME NEW q \in Requests \ {r}
             PROVE  ImageOK(req[q])'
  OBVIOUS
<1>1. ImageOK(req[q])
  BY DEF AccountInv
<1>2. /\ req'[q].op = req[q].op /\ req'[q].pc = req[q].pc /\ req'[q].img = req[q].img
      /\ req[q].missed \subseteq req'[q].missed /\ req[q].unseen \subseteq req'[q].unseen
  BY DEF Moved, Others
<1> QED
  BY <1>1, <1>2 DEF ImageOK, Clean, WellFormed

\* A save: what it makes of the row, and what the others know then.
LEMMA SaveFacts ==
  ASSUME TypeInv, AccountInv, NEW r \in Requests, Saved(r)
  PROVE  /\ req[r].op \in SaveOps /\ Admits(req[r].op, req[r].img) /\ ImageOK(req[r])
         /\ account \in Accounts /\ req[r].img \in Accounts
         /\ account' = Columns(req[r].op, Effect(req[r].op, req[r].img, r))
         /\ crossed \subseteq crossed'
         /\ "row" \notin crossed' /\ req[r].op \in {"edit", "password"} => account' = Effect(req[r].op, account, r)
         /\ Clean' => Clean /\ account' = Effect(req[r].op, account, r)
         /\ req[r].op = "enable" /\ "setup" \in req[r].missed => "setup" \in crossed'
<1>1. req[r] \in ReqType /\ Shaped(req[r]) /\ Save(r) /\ account \in Accounts /\ ImageOK(req[r])
  BY DEF TypeInv, Saved, AccountInv
<1>2. req[r].op \in SaveOps /\ Admits(req[r].op, req[r].img) /\ req[r].img \in Accounts
  BY <1>1 DEF Save, Shaped, OpsAt, ReqType
<1>3. account' = Columns(req[r].op, Effect(req[r].op, req[r].img, r))
  BY <1>1 DEF Save
<1>4. crossed' = crossed \union (IF account' = Effect(req[r].op, account, r) THEN {}
                        ELSE IF req[r].op \in {"edit", "password"} THEN {"row"} ELSE {"account"})
                       \union (IF req[r].op = "enable" THEN req[r].missed \intersect {"setup"} ELSE {})
  BY <1>1 DEF Save
<1> HIDE DEF Save
<1> QED
  BY <1>1, <1>2, <1>3, <1>4 DEF Clean

\* What an operation makes of the secret, the flag and the hash.
Makes(op, a, r, e) ==
  /\ op = "setup" => e.secret = r
  /\ op = "disable" => e.secret = None /\ ~e.enabled
  /\ op \notin {"setup", "disable"} => e.secret = a.secret
  /\ op = "enable" => e.enabled
  /\ op \notin {"enable", "disable"} => e.enabled = a.enabled
  /\ op \in PwdOps => e.pwd = r
  /\ op \notin PwdOps => e.pwd = a.pwd

LEMMA EffectFacts ==
  ASSUME NEW op \in SaveOps, NEW a \in Accounts, NEW r \in Requests, NEW e, e = Effect(op, a, r)
  PROVE  Makes(op, a, r, e)
<1>1. op \in {"lock", "fresh", "change", "reset", "verify", "link", "setup", "enable",
              "disable", "unlink", "edit", "password"}
  BY DEF SaveOps
<1> QED
  BY <1>1 DEF Effect, Accounts, Makes, PwdOps

LEMMA SavePreservesAccount ==
  ASSUME TypeInv, AccountInv, NEW r \in Requests, Saved(r)
  PROVE  AccountInv'
<1> DEFINE op == req[r].op
           img == req[r].img
<1> USE AuthAssumption
<1>1. /\ op \in SaveOps /\ Admits(op, img) /\ ImageOK(req[r]) /\ account \in Accounts /\ img \in Accounts
      /\ account' = Columns(op, Effect(op, img, r)) /\ crossed \subseteq crossed'
      /\ "row" \notin crossed' /\ op \in {"edit", "password"} => account' = Effect(op, account, r)
      /\ Clean' => Clean /\ account' = Effect(op, account, r)
      /\ op = "enable" /\ "setup" \in req[r].missed => "setup" \in crossed'
  BY SaveFacts
<1>2. AccountOK /\ req[r].pc = "save" /\ req[r] \in ReqType /\ req[r].op \in Ops
  BY DEF AccountInv, Saved, Save, TypeInv, ReqType
<1>3. proven' = proven /\ codes' = (CASE op = "enable" -> {r} [] op = "disable" -> {} [] OTHER -> codes)
      /\ devices' = IF op = "disable" THEN {} ELSE devices
  BY DEF Saved, Save
<1> DEFINE E1 == Effect(op, img, r)
           E2 == Effect(op, account, r)
<1>4. Makes(op, img, r, E1)
  BY <1>1, EffectFacts
<1>5. Makes(op, account, r, E2)
  BY <1>1, EffectFacts
<1>6. op \notin {"edit", "password"} => account' = E1
  BY <1>1 DEF Columns
<1>7. Admits(op, img) => /\ op = "setup" => ~img.enabled
                         /\ op = "enable" => img.secret # None
  BY DEF Admits
<1> HIDE DEF E1, E2
<1>8. "row" \notin crossed' => WellFormed(account')
  <2>1. "row" \notin crossed' => WellFormed(img) /\ WellFormed(account)
    BY <1>1, <1>2 DEF ImageOK, AccountOK
  <2>2. CASE op \in {"edit", "password"}
    BY <1>1, <1>5, <2>1, <2>2 DEF Makes, WellFormed, E2
  <2>3. CASE op \notin {"edit", "password"}
    BY <1>1, <1>4, <1>6, <1>7, <2>1, <2>3 DEF Makes, WellFormed, E1
  <2> QED
    BY <2>2, <2>3
<1>9. ASSUME Clean', "setup" \notin crossed', account'.enabled
      PROVE  account'.secret \in proven'
  <2>1. account' = E2 /\ Clean /\ "setup" \notin crossed /\ WellFormed(account')
    BY <1>1, <1>8, <1>9 DEF Clean, E2
  <2>2. CASE op = "enable"
    BY <1>1, <1>2, <1>3, <1>5, <1>9, <2>1, <2>2 DEF Makes, ImageOK, WellFormed, E2
  <2>3. CASE op = "setup"
    BY <1>1, <1>4, <1>6, <1>7, <1>9, <2>3 DEF Makes, E1
  <2>4. CASE op = "disable"
    BY <1>5, <1>9, <2>1, <2>4 DEF Makes, E2
  <2>5. CASE op \notin {"enable", "setup", "disable"}
    BY <1>2, <1>3, <1>5, <1>9, <2>1, <2>5 DEF Makes, AccountOK, E2
  <2> QED
    BY <2>2, <2>3, <2>4, <2>5
<1>10. ASSUME Clean', ~account'.enabled
       PROVE  (codes' = {} \/ "codes" \in crossed') /\ (devices' = {} \/ "devices" \in crossed')
  <2>1. account' = E2 /\ Clean
    BY <1>1, <1>10 DEF E2
  <2> QED
    BY <1>1, <1>2, <1>3, <1>5, <1>10, <2>1 DEF Makes, AccountOK, E2
<1>11. ASSUME NEW q \in Requests \ {r}
       PROVE  ImageOK(req[q])'
  <2>1. PICK rec \in ReqType : Moved(r, rec, {op})
    <3>1. \A o, pc : Goes(r, o, pc, {op}) => \E rec \in ReqType : Moved(r, rec, {op})
      BY DEF Goes
    <3>2. Ends(r, {op}) => \E rec \in ReqType : Moved(r, rec, {op})
      BY DEF Ends
    <3> QED
      BY <3>1, <3>2 DEF Saved
  <2>2. ImageOK(req[q])
    BY DEF AccountInv
  <2>3. /\ req'[q].op = req[q].op /\ req'[q].pc = req[q].pc /\ req'[q].img = req[q].img
        /\ req[q].pc \notin {"new", "done"} => /\ req'[q].missed = req[q].missed \union {op}
                                               /\ req'[q].unseen = req[q].unseen \union {op}
    BY <2>1 DEF Moved, Others
  <2>4. "row" \notin crossed' => WellFormed(req'[q].img)
    BY <1>1, <2>2, <2>3 DEF ImageOK
  <2>5. req'[q].pc = "save" => req'[q].unseen # {}
    BY <2>3
  <2>6. ASSUME Clean', req'[q].op = "enable", req'[q].pc \in {"begin", "save"}, "setup" \notin req'[q].missed
        PROVE  account'.secret \in proven' \union {None}
    <3>1. account.secret \in proven \union {None} /\ op # "setup" /\ account' = E2
      BY <1>1, <2>2, <2>3, <2>6 DEF ImageOK, E2
    <3> QED
      BY <1>3, <1>5, <3>1 DEF Makes, E2
  <2>7. ASSUME Clean', req'[q].pc \in {"replace", "mark", "trust"}, "disable" \notin req'[q].missed
        PROVE  account'.enabled
    <3>1. account.enabled /\ op # "disable" /\ account' = E2
      BY <1>1, <2>2, <2>3, <2>7 DEF ImageOK, E2
    <3> QED
      BY <1>5, <3>1 DEF Makes, E2
  <2> QED
    BY <2>4, <2>5, <2>6, <2>7 DEF ImageOK
<1>12. ImageOK(req[r])'
  <2>1. WellFormed(Registered)
    BY DEF WellFormed, Registered
  <2>2. "row" \notin crossed' => WellFormed(img)
    BY <1>1 DEF ImageOK
  <2>3. CASE op \in {"change", "reset"}
    BY <2>2, <2>3 DEF Saved, Goes, Moved, ImageOK
  <2>4. CASE op = "link"
    <3>1. PICK rec \in ReqType : /\ rec.pc = "issue" /\ rec.img = [img EXCEPT !.verified = TRUE]
                                 /\ Moved(r, rec, {op})
      BY <2>4 DEF Saved
    <3>2. WellFormed(img) => WellFormed(rec.img)
      BY <1>1, <3>1 DEF WellFormed, Accounts
    <3> QED
      BY <2>2, <3>1, <3>2 DEF Moved, ImageOK
  <2>5. CASE op \notin {"change", "reset", "link"}
    BY <2>1, <2>5 DEF Saved, Ends, Moved, ImageOK
  <2> QED
    BY <2>3, <2>4, <2>5
<1>13. AccountOK'
  BY <1>8, <1>9, <1>10 DEF AccountOK
<1> QED
  BY <1>11, <1>12, <1>13 DEF AccountInv

\* A step that leaves the row keeps the invariant if the request does.
LEMMA QuietAccount ==
  ASSUME TypeInv, AccountInv, NEW r \in Requests, NEW rec \in ReqType, NEW what, Moved(r, rec, what),
         account' = account, proven \subseteq proven', crossed \subseteq crossed', ImageOK(rec)',
         Clean /\ ~account.enabled => /\ codes' \subseteq codes \/ "codes" \in crossed'
                                      /\ devices' \subseteq devices \/ "devices" \in crossed'
  PROVE  AccountInv'
<1>1. \A q \in Requests : ImageOK(req[q])'
  BY QuietImages DEF Moved, ImageOK, Clean, WellFormed
<1>2. AccountOK'
  BY DEF AccountInv, AccountOK, Clean, WellFormed
<1> QED
  BY <1>1, <1>2 DEF AccountInv

\* What the images of requests that go on need.
LEMMA GoingImages ==
  ASSUME AccountInv, NEW r \in Requests, account' = account, crossed \subseteq crossed', NEW rec \in ReqType,
         rec.img \in {req[r].img, account, Registered}, rec.pc \in {"find", "update", "rotate", "done"}
           \/ (rec.pc = "begin" /\ rec.op # "enable")
  PROVE  ImageOK(rec)'
<1>1. WellFormed(Registered)
  BY DEF WellFormed, Registered
<1>2. "row" \notin crossed' => WellFormed(rec.img)
  BY <1>1 DEF AccountInv, AccountOK, ImageOK
<1> QED
  BY <1>2 DEF ImageOK, Clean, WellFormed

LEMMA AccountInit == Init => AccountInv
<1> SUFFICES ASSUME Init
             PROVE  AccountInv
  OBVIOUS
<1> USE AuthAssumption
<1>1. account.enabled => account.secret = Start /\ proven = {Start}
  <2>1. account.enabled => account = [Registered EXCEPT !.verified = TRUE, !.enabled = TRUE, !.secret = Start]
    <3>1. ~Registered.enabled /\ ~Invited.enabled /\ ~[Registered EXCEPT !.verified = TRUE].enabled
          /\ ~[Registered EXCEPT !.verified = TRUE, !.secret = Start].enabled
      BY DEF Registered, Invited
    <3> QED
      BY <3>1 DEF Init
  <2>2. account.enabled => account.secret = Start
    BY <2>1 DEF Registered
  <2>3. account.enabled => proven = {Start}
    BY DEF Init
  <2> QED
    BY <2>2, <2>3
<1>2. ~account.enabled => codes = {} /\ devices = {}
  BY DEF Init
<1>3. \A r \in Requests : req[r] = Idle("new")
  BY DEF Init
<1>4. AccountOK
  BY <1>1, <1>2 DEF AccountOK, WellFormed, Names
<1>5. ImageOK(Idle("new"))
  BY IdleFacts DEF ImageOK, PCs, WellFormed, Registered
<1> QED
  BY <1>3, <1>4, <1>5 DEF AccountInv

LEMMA AccountStep == TypeInv /\ AccountInv /\ [Next]_vars => AccountInv'
<1> SUFFICES ASSUME TypeInv, AccountInv, [Next]_vars
             PROVE  AccountInv'
  OBVIOUS
<1>1. ASSUME NEW r \in Requests, Step(r)
      PROVE  AccountInv'
  <2>1. Family(r) /\ req[r] \in ReqType /\ ImageOK(req[r])
    BY <1>1, StepsBelong DEF TypeInv, AccountInv
  <2>2. CASE Arrival(r)
    <3>1. PICK rec \in ReqType : Arrived(rec) /\ Moved(r, rec, {})
      BY <2>2 DEF Arrival
    <3>2. ImageOK(rec)'
      BY <2>2, <3>1 DEF Arrival, Arrived, ImageOK, AccountInv, AccountOK, Clean, WellFormed
    <3> QED
      BY <2>2, <3>1, <3>2, QuietAccount DEF Arrival
  <2>3. CASE Resumed(r)
    <3>1. PICK rec \in ReqType :
            /\ rec.op = req[r].op /\ rec.pc = "save" /\ rec.img = account
            /\ rec.missed = req[r].missed /\ Moved(r, rec, {})
      BY <2>3 DEF Resumed
    <3>2. ImageOK(rec)'
      BY <2>1, <2>3, <3>1
         DEF Resumed, account_, factors_, rest_, ImageOK, AccountInv, AccountOK, Clean, WellFormed
    <3> QED
      BY <2>3, <3>1, <3>2, QuietAccount DEF Resumed, account_, factors_, rest_
  <2>4. ASSUME NEW what, Ends(r, what), account' = account, proven \subseteq proven', crossed \subseteq crossed',
               Clean /\ ~account.enabled => /\ codes' \subseteq codes \/ "codes" \in crossed'
                                            /\ devices' \subseteq devices \/ "devices" \in crossed'
        PROVE  AccountInv'
    <3>1. PICK rec \in ReqType : rec.pc = "done" /\ rec.img = Registered /\ Moved(r, rec, what)
      BY <2>4 DEF Ends
    <3>2. ImageOK(rec)'
      BY <2>4, <3>1, GoingImages
    <3> QED
      BY <2>4, <3>1, <3>2, QuietAccount
  <2>5. ASSUME NEW op \in {"lock", "fresh", "change", "reset"}, NEW pc \in {"begin", "find"}, Goes(r, op, pc, {}),
               account' = account, proven' = proven, crossed' = crossed, codes' = codes, devices' = devices
        PROVE  AccountInv'
    <3>1. PICK rec \in ReqType : rec.op = op /\ rec.pc = pc /\ rec.img = req[r].img /\ Moved(r, rec, {})
      BY <2>5 DEF Goes
    <3>2. ImageOK(rec)'
      BY <2>5, <3>1, GoingImages
    <3> QED
      BY <2>5, <3>1, <3>2, QuietAccount
  <2>6. CASE Quit(r)
    BY <2>4, <2>6 DEF Quit, account_, factors_
  <2>7. CASE Saved(r)
    BY <2>7, SavePreservesAccount
  <2>8. CASE RolledBack(r)
    BY <2>5, <2>8 DEF RolledBack, account_, factors_
  <2>9. CASE Counted(r)
    BY <2>4, <2>5, <2>9 DEF Counted, Count, factors_, rest_
  <2>10. CASE Issued(r)
    BY <2>4, <2>5, <2>10 DEF Issued, Issue, account_, factors_, rest_
  <2>11. CASE Found(r)
    <3>1. PICK rec \in ReqType : rec.pc = "update" /\ rec.img = req[r].img /\ Moved(r, rec, {})
      BY <2>11 DEF Found
    <3>2. ImageOK(rec)'
      BY <2>11, <3>1, GoingImages DEF Found, account_, rest_
    <3> QED
      BY <2>11, <3>1, <3>2, QuietAccount DEF Found, account_, factors_, rest_
  <2>12. CASE Updated(r)
    BY <2>4, <2>12 DEF Updated, UpdateSessions, account_, factors_, rest_
  <2>13. CASE Rotated(r)
    BY <2>4, <2>13 DEF Rotated, Rotate, account_, factors_, rest_
  <2>14. CASE Replaced(r)
    <3>1. Clean /\ ~account.enabled => "codes" \in crossed'
      BY <2>1, <2>14 DEF Replaced, Replace, ImageOK
    <3> QED
      BY <2>4, <2>14, <3>1 DEF Replaced, Replace, account_
  <2>15. CASE Marked(r)
    <3>1. PICK rec \in ReqType : /\ rec.op = "challenge" /\ rec.pc = "trust" /\ rec.img = req[r].img
                                 /\ rec.missed = req[r].missed /\ Moved(r, rec, {"challenge"})
      BY <2>15 DEF Marked, Goes
    <3>2. ImageOK(rec)'
      BY <2>1, <2>15, <3>1 DEF Marked, MarkUsed, account_, rest_, ImageOK, Clean, WellFormed
    <3> QED
      BY <2>15, <3>1, <3>2, QuietAccount DEF Marked, MarkUsed, account_, rest_
  <2>16. CASE Trusted(r)
    <3>1. /\ account' = account /\ proven' = proven /\ crossed \subseteq crossed' /\ codes' = codes
          /\ Clean /\ ~account.enabled => devices' \subseteq devices \/ "devices" \in crossed'
      BY <2>1, <2>16 DEF Trusted, Trust, account_, ImageOK
    <3>2. CASE Ends(r, {})
      BY <2>4, <3>1, <3>2
    <3>3. ASSUME NEW rec \in ReqType, rec.pc = "rotate", rec.img = req[r].img, Moved(r, rec, {})
          PROVE  AccountInv'
      <4>1. ImageOK(rec)'
        BY <3>1, <3>3, GoingImages
      <4> QED
        BY <3>1, <3>3, <4>1, QuietAccount
    <3> QED
      BY <2>16, <3>2, <3>3 DEF Trusted
  <2>17. CASE Forgotten(r)
    BY <2>4, <2>17 DEF Forgotten, RevokeDevices, account_, rest_
  <2>18. CASE Created(r)
    BY <2>4, <2>18 DEF Created, CreateCode, account_, factors_
  <2> QED
    BY <2>1, <2>2, <2>3, <2>6, <2>7, <2>8, <2>9, <2>10, <2>11, <2>12, <2>13, <2>14, <2>15, <2>16,
       <2>17, <2>18 DEF Family
<1>2. CASE TimePasses
  <2>1. account'.secret = account.secret /\ account'.enabled = account.enabled
    BY <1>2 DEF TimePasses, TypeInv, Accounts
  <2>2. \A r \in Requests : req[r].pc \in {"new", "done"}
    BY <1>2 DEF TimePasses, Running
  <2>3. UNCHANGED <<codes, devices, proven, req, crossed>>
    BY <1>2 DEF TimePasses, factors_, rest_
  <2>4. AccountOK'
    BY <2>1, <2>3 DEF AccountInv, AccountOK, Clean, WellFormed
  <2>5. \A r \in Requests : ImageOK(req[r])'
    BY <2>2, <2>3 DEF AccountInv, ImageOK, Clean, WellFormed
  <2> QED
    BY <2>4, <2>5 DEF AccountInv
<1>3. CASE UNCHANGED vars
  BY <1>3 DEF vars, AccountInv, AccountOK, ImageOK, Clean, WellFormed
<1> QED
  BY <1>1, <1>2, <1>3 DEF Next

----------------------------------------------------------------------------
(* One-time codes.                                                         *)

\* Only a request that is not through takes a step, and those that are through stay so.
LEMMA NotDone ==
  ASSUME TypeInv, NEW r \in Requests, Family(r)
  PROVE  req[r].pc # "done"
BY DEF Family, Arrival, Quit, Resumed, Saved, Save, RolledBack, Counted, Count, Issued, Issue, Found,
       Updated, UpdateSessions, Rotated, Rotate, Replaced, Replace, Marked, MarkUsed, Trusted, Trust,
       Forgotten, RevokeDevices, Arrives, Created, CreateCode

LEMMA OwnersStay ==
  ASSUME TypeInv, NEW r \in Requests, req[r].pc # "done", NEW rec, NEW what, Moved(r, rec, what), NEW c, Owned(c)
  PROVE  /\ Owned(c)'
         /\ \E n \in Names : Done(n)' /\ (c = n \/ \E p \in Purposes : c = <<n, p>>)
<1>1. PICK n \in Names : Done(n) /\ (c = n \/ \E p \in Purposes : c = <<n, p>>)
  BY DEF Owned
<1>2. Done(n)'
  BY <1>1 DEF Done, Moved, Others, Names
<1> QED
  BY <1>1, <1>2 DEF Owned

\* What another request holds stays owned.
LEMMA HeldStay ==
  ASSUME TypeInv, CodeInv, NEW r \in Requests, req[r].pc # "done", NEW rec, NEW what, Moved(r, rec, what),
         NEW q \in Requests \ {r}
  PROVE  (req[q].pc \in {"save", "mark"} /\ req[q].code # None => Owned(req[q].code))'
<1>1. req'[q].pc = req[q].pc /\ req'[q].code = req[q].code
  BY DEF Moved, Others
<1>2. CodeOK(req[q])
  BY DEF CodeInv
<1>3. ASSUME req[q].pc \in {"save", "mark"}, req[q].code # None
      PROVE  \E n \in Names : Done(n)' /\ (req[q].code = n \/ \E p \in Purposes : req[q].code = <<n, p>>)
  BY <1>2, <1>3, OwnersStay DEF CodeOK
<1> QED
  BY <1>1, <1>3 DEF Owned

\* Nobody else owns a code named after a request under way.
LEMMA NotOwned ==
  ASSUME NEW r \in Requests, req[r].pc # "done"
  PROVE  ~Owned(r) /\ \A p \in Purposes : ~Owned(<<r, p>>)
<1>1. ~Done(r) /\ r \in Names
  BY AuthAssumption DEF Done, Names
<1>2. \A n \in Names, p \in Purposes : <<n, p>> \notin Names
  BY NamesAssumption
<1> QED
  BY <1>1, <1>2 DEF Owned

\* What the others know of the codes, when one is spent or none.
LEMMA OthersCodes ==
  ASSUME TypeInv, CodeInv, NEW r \in Requests, req[r].pc # "done", NEW rec \in ReqType, NEW what, Moved(r, rec, what),
         otps' \subseteq otps, throttle' \in {throttle, TRUE}, spent \subseteq spent',
         spent' # spent => what \intersect {"verify", "reset", "password", "challenge"} # {}
  PROVE  \A q \in Requests \ {r} : CodeOK(req[q])'
<1> SUFFICES ASSUME NEW q \in Requests \ {r}
             PROVE  CodeOK(req[q])'
  OBVIOUS
<1>1. CodeOK(req[q])
  BY DEF CodeInv
<1>2. /\ req'[q].op = req[q].op /\ req'[q].pc = req[q].pc /\ req'[q].sids = req[q].sids
      /\ req'[q].code = req[q].code /\ req[q].missed \subseteq req'[q].missed
      /\ req[q].pc \notin {"new", "done"} => what \subseteq req'[q].missed
  BY DEF Moved, Others
<1>3. (req[q].pc \in {"save", "mark"} /\ req[q].code # None => Owned(req[q].code))'
  BY HeldStay
<1>4. req'[q].pc \in {"save", "mark"} /\ req'[q].code \in spent'
      => req'[q].missed \intersect {"verify", "reset", "password", "challenge"} # {}
  <2>1. CASE spent' = spent
    BY <1>1, <1>2, <2>1 DEF CodeOK
  <2>2. CASE spent' # spent
    BY <1>2, <2>2
  <2> QED
    BY <2>1, <2>2
<1>5. req'[q].pc = "create" /\ (req'[q].op = "resend" \/ req'[q].op \notin req'[q].missed)
      => \A n \in Names : <<n, Purpose(req'[q].op)>> \in otps' => n \in req'[q].sids
  BY <1>1, <1>2 DEF CodeOK
<1>6. req'[q].pc = "create" /\ req'[q].op = "resend" => throttle'
  BY <1>1, <1>2 DEF CodeOK
<1> QED
  BY <1>3, <1>4, <1>5, <1>6 DEF CodeOK

\* A step that makes no code keeps the invariant.
LEMMA CodesKept ==
  ASSUME TypeInv, CodeInv, NEW r \in Requests, req[r].pc # "done", NEW rec \in ReqType, NEW what, Moved(r, rec, what),
         otps' \subseteq otps, crossed \subseteq crossed',
         codes' \subseteq codes \union (IF rec.pc = "done" THEN {r} ELSE {}),
         throttle' \in {throttle, TRUE}, spent \subseteq spent',
         spent' # spent => what \intersect {"verify", "reset", "password", "challenge"} # {},
         \A c \in spent' \ spent : c # None /\ c \notin otps' /\ c \notin codes' /\ Owned(c),
         CodeOK(rec)', rec.pc = "create" /\ rec.op = "resend" => ~throttle
  PROVE  CodeInv'
<1>1. CodesOK'
  <2>1. \A c \in otps' \union codes' \union spent' : Owned(c)'
    <3>1. \A c : Owned(c) => Owned(c)'
      BY OwnersStay
    <3>2. rec.pc = "done" => Owned(r)'
      BY DEF Moved, Owned, Done, Names
    <3> QED
      BY <3>1, <3>2 DEF CodeInv, CodesOK
  <2>2. r \notin spent
    BY NotOwned DEF CodeInv, CodesOK
  <2> QED
    BY <2>1, <2>2 DEF CodeInv, CodesOK
<1>2. SingleOK'
  BY DEF CodeInv, SingleOK, AtMostOne
<1>3. ResendsApart'
  <2>1. \A q \in Requests \ {r} : Resending(q)' = Resending(q)
    BY DEF Moved, Others, Resending, At
  <2>2. Resending(r)' => ~throttle
    BY DEF Moved, Resending, At
  <2>3. \A q \in Requests : Resending(q) => throttle
    BY DEF CodeInv, CodeOK, Resending, At
  <2> QED
    BY <2>1, <2>2, <2>3 DEF CodeInv, ResendsApart
<1>4. \A q \in Requests : CodeOK(req[q])'
  BY OthersCodes DEF Moved, CodeOK
<1> QED
  BY <1>1, <1>2, <1>3, <1>4 DEF CodeInv

LEMMA NoCodes ==
  ASSUME NEW rec, rec.pc \notin {"save", "mark", "create"}
  PROVE  CodeOK(rec)'
BY DEF CodeOK

LEMMA CodesInit == Init => CodeInv
<1> SUFFICES ASSUME Init
             PROVE  CodeInv
  OBVIOUS
<1>1. PICK p \in Purposes : otps \subseteq {<<Start, p>>}
  BY DEF Init, Purposes
<1>2. codes \subseteq {Start} /\ spent = {} /\ \A r \in Requests : req[r] = Idle("new")
  BY DEF Init
<1>3. Owned(Start) /\ Owned(<<Start, p>>)
  BY DEF Owned, Done, Names
<1>4. \A q \in Requests : req[q].pc = "new"
  BY <1>2, IdleFacts DEF PCs
<1>5. CodesOK
  BY <1>1, <1>2, <1>3 DEF CodesOK
<1>6. SingleOK
  BY <1>1 DEF SingleOK, AtMostOne
<1> QED
  BY <1>4, <1>5, <1>6 DEF CodeInv, CodeOK, ResendsApart, Resending, At

\* The new code is the only one of its purpose, unless requests for it overlap.
LEMMA CreatedCodes ==
  ASSUME TypeInv, CodeInv, NEW r \in Requests, Created(r)
  PROVE  CodeInv'
<1>1. PICK op \in {"resend", "forgot", "ask"} : op = req[r].op /\ req[r].pc = "create"
  BY DEF Created, CreateCode, TypeInv, Shaped, OpsAt
<1>2. PICK p \in Purposes : p = Purpose(op) /\ (p = "verify" <=> op = "resend")
  BY DEF Purpose, Purposes
<1>3. PICK rec \in ReqType : rec.pc = "done" /\ Moved(r, rec, {op})
  BY <1>1 DEF Created, Ends
<1>4. /\ otps' = (otps \ {<<n, p>> : n \in req[r].sids}) \union {<<r, p>>}
      /\ crossed' = IF req[r].missed \intersect {op} # {} THEN crossed \union {p} ELSE crossed
      /\ UNCHANGED <<codes, throttle, spent>>
  BY <1>1, <1>2 DEF Created, CreateCode, Purpose, factors_
<1>5. CodeOK(req[r]) /\ req[r].sids \subseteq Names /\ otps \subseteq Otps /\ r \in Names
  BY DEF CodeInv, TypeInv, ReqType, Names
<1>6. CodesOK'
  <2>1. \A c : Owned(c) => Owned(c)'
    BY <1>3, <1>1, OwnersStay
  <2>2. req'[r].pc = "done"
    BY <1>3 DEF Moved
  <2>3. ~Owned(<<r, p>>)
    BY <1>1, <1>2, NotOwned
  <2>4. Owned(<<r, p>>)'
    BY <1>2, <1>5, <2>2 DEF Owned, Done
  <2>5. \A c \in otps' \union codes' \union spent' : Owned(c)'
    BY <1>4, <2>1, <2>4 DEF CodeInv, CodesOK
  <2> QED
    BY <1>4, <2>3, <2>5 DEF CodeInv, CodesOK
<1>7. SingleOK'
  <2>1. ASSUME NEW o \in Purposes
        PROVE  AtMostOne(o)' \/ (o # "verify" /\ o \in crossed')
    <3>1. CASE o = p /\ (op = "resend" \/ op \notin req[r].missed)
      <4>1. \A n \in Names : <<n, p>> \in otps => n \in req[r].sids
        BY <1>1, <1>2, <1>5, <3>1 DEF CodeOK
      <4> QED
        BY <1>4, <3>1, <4>1 DEF AtMostOne
    <3>2. CASE o = p /\ op # "resend" /\ op \in req[r].missed
      BY <1>1, <1>4, <1>2, <3>2
    <3>3. CASE o # p
      <4>1. \A n \in Names : <<n, o>> \in otps' => <<n, o>> \in otps
        BY <1>4, <3>3
      <4> QED
        BY <1>4, <4>1 DEF CodeInv, SingleOK, AtMostOne
    <3> QED
      BY <3>1, <3>2, <3>3
  <2> QED
    BY <2>1 DEF SingleOK
<1>8. ResendsApart'
  <2>1. \A q \in Requests : Resending(q)' => Resending(q)
    BY <1>3 DEF Moved, Others, Resending, At
  <2> QED
    BY <2>1 DEF CodeInv, ResendsApart
<1>9. ASSUME NEW q \in Requests \ {r}
      PROVE  CodeOK(req[q])'
  <2>1. CodeOK(req[q])
    BY DEF CodeInv
  <2>2. /\ req'[q].op = req[q].op /\ req'[q].pc = req[q].pc /\ req'[q].sids = req[q].sids
        /\ req'[q].code = req[q].code /\ req[q].missed \subseteq req'[q].missed
        /\ req[q].pc \notin {"new", "done"} => op \in req'[q].missed
    BY <1>3 DEF Moved, Others
  <2>3. (req[q].pc \in {"save", "mark"} /\ req[q].code # None => Owned(req[q].code))'
    BY <1>3, <1>1, HeldStay
  <2>4. req'[q].pc \in {"save", "mark"} /\ req'[q].code \in spent'
        => req'[q].missed \intersect {"verify", "reset", "password", "challenge"} # {}
    BY <1>4, <2>1, <2>2 DEF CodeOK
  <2>5. ASSUME req'[q].pc = "create", req'[q].op = "resend" \/ req'[q].op \notin req'[q].missed
        PROVE  \A n \in Names : <<n, Purpose(req'[q].op)>> \in otps' => n \in req'[q].sids
    <3>1. req[q].op \in {"resend", "forgot", "ask"}
      BY <2>2, <2>5 DEF TypeInv, Shaped, OpsAt
    <3>2. req[q].op # op
      <4>1. req[q].op = op => Resending(q) /\ Resending(r)
        BY <1>1, <2>2, <2>5 DEF Resending, At
      <4> QED
        BY <1>1, <4>1 DEF CodeInv, ResendsApart
    <3>3. Purpose(req[q].op) # p
      BY <1>2, <3>1, <3>2 DEF Purpose
    <3>4. \A n \in Names : <<n, Purpose(req[q].op)>> \in otps' => <<n, Purpose(req[q].op)>> \in otps
      BY <1>4, <3>3
    <3> QED
      BY <2>1, <2>2, <2>5, <3>4 DEF CodeOK
  <2>6. req'[q].pc = "create" /\ req'[q].op = "resend" => throttle'
    BY <1>4, <2>1, <2>2 DEF CodeOK
  <2> QED
    BY <2>3, <2>4, <2>5, <2>6 DEF CodeOK
<1>10. CodeOK(req[r])'
  BY <1>3 DEF CodeOK, Moved
<1> QED
  BY <1>6, <1>7, <1>8, <1>9, <1>10 DEF CodeInv

LEMMA CodesStep == TypeInv /\ CodeInv /\ [Next]_vars => CodeInv'
<1> SUFFICES ASSUME TypeInv, CodeInv, [Next]_vars
             PROVE  CodeInv'
  OBVIOUS
<1>1. ASSUME NEW r \in Requests, Step(r)
      PROVE  CodeInv'
  <2>1. Family(r) /\ req[r].pc # "done" /\ req[r] \in ReqType /\ CodeOK(req[r])
    BY <1>1, StepsBelong, NotDone DEF TypeInv, CodeInv
  <2>2. ASSUME NEW rec \in ReqType, rec.pc \notin {"save", "mark", "create"}, NEW what, Moved(r, rec, what),
               otps' = otps, spent' = spent, throttle' = throttle, crossed \subseteq crossed',
               codes' \subseteq codes \union (IF rec.pc = "done" THEN {r} ELSE {})
        PROVE  CodeInv'
    BY <2>1, <2>2, CodesKept, NoCodes
  <2>3. ASSUME NEW what, Ends(r, what), otps' = otps, spent' = spent, throttle' = throttle,
               crossed \subseteq crossed', codes' \subseteq codes \union {r}
        PROVE  CodeInv'
    <3>1. PICK rec \in ReqType : rec.pc = "done" /\ Moved(r, rec, what)
      BY <2>3 DEF Ends
    <3> QED
      BY <2>2, <2>3, <3>1
  <2>4. ASSUME NEW op, NEW pc \in {"begin", "find"}, Goes(r, op, pc, {}),
               otps' = otps, spent' = spent, throttle' = throttle, crossed' = crossed, codes' = codes
        PROVE  CodeInv'
    <3>1. PICK rec \in ReqType : rec.pc = pc /\ Moved(r, rec, {})
      BY <2>4 DEF Goes
    <3> QED
      BY <2>2, <2>4, <3>1
  <2>5. CASE Arrival(r)
    <3>1. PICK rec \in ReqType : Arrived(rec) /\ Moved(r, rec, {})
      BY <2>5 DEF Arrival
    <3>2. otps' = otps /\ spent' = spent /\ codes' = codes /\ crossed' = crossed /\ throttle' \in {throttle, TRUE}
      BY <2>5 DEF Arrival
    <3>3. \A c \in otps \union codes : c \notin spent /\ Owned(c)'
      <4>1. \A c : Owned(c) => Owned(c)'
        BY <2>1, <3>1, OwnersStay
      <4> QED
        BY <4>1 DEF CodeInv, CodesOK
    <3>4. CodeOK(rec)'
      <4>1. None \notin spent
        BY DEF CodeInv, CodesOK
      <4> QED
        BY <3>1, <3>2, <3>3, <4>1 DEF Arrived, CodeOK
    <3> QED
      BY <2>1, <3>1, <3>2, <3>4, CodesKept DEF Arrived
  <2>6. CASE Resumed(r)
    <3>1. PICK rec \in ReqType : rec.pc = "save" /\ rec.code = None /\ Moved(r, rec, {})
      BY <2>6 DEF Resumed
    <3>2. CodeOK(rec)'
      BY <2>6, <3>1 DEF Resumed, mail_, CodeInv, CodesOK, CodeOK
    <3> QED
      BY <2>1, <2>6, <3>1, <3>2, CodesKept DEF Resumed, mail_, factors_, rest_
  <2>7. CASE Saved(r)
    <3>1. PICK op \in SaveOps : op = req[r].op
      BY <2>1, <2>7 DEF Saved, Save, TypeInv, Shaped, OpsAt
    <3>2. PICK c \in Otps \union {None} : /\ c = req[r].code /\ req[r].pc = "save"
                                          /\ IF op \in CodeOps THEN c \in Otps ELSE c = None
      BY <2>1, <2>7, <3>1 DEF Saved, Save, TypeInv, Shaped
    <3>3. /\ otps' = otps \ {c} /\ spent' = spent \union ({c} \ {None})
          /\ codes' = (CASE op = "enable" -> {r} [] op = "disable" -> {} [] OTHER -> codes)
          /\ throttle' = throttle /\ crossed \subseteq crossed'
      BY <2>7, <3>1, <3>2 DEF Saved, Save
    <3>4. PICK rec \in ReqType : /\ rec.pc \in {"find", "issue", "done"} /\ Moved(r, rec, {op})
                                 /\ (op = "enable" => rec.pc = "done")
      BY <2>7, <3>1 DEF Saved, Ends, Goes
    <3>5. c # None => Owned(c) /\ c \notin codes /\ c # r /\ op \in {"verify", "reset", "password"}
      <4>1. c # None => Owned(c) /\ op \in {"verify", "reset", "password"} /\ c \in Otps
        BY <2>1, <3>2 DEF CodeOK, CodeOps
      <4> QED
        BY <4>1, NamesAssumption DEF TypeInv, Otps, Names
    <3>6. codes' \subseteq codes \union (IF rec.pc = "done" THEN {r} ELSE {})
      BY <3>3, <3>4
    <3>7. \A d \in spent' \ spent : d # None /\ d \notin otps' /\ d \notin codes' /\ Owned(d)
      BY <3>3, <3>5, <3>6
    <3>8. spent' # spent => {op} \intersect {"verify", "reset", "password", "challenge"} # {}
      BY <3>3, <3>5
    <3> QED
      BY <2>1, <3>3, <3>4, <3>6, <3>7, <3>8, CodesKept, NoCodes
  <2>8. CASE Marked(r)
    <3>1. PICK c \in Names : c = req[r].code /\ req[r].pc = "mark"
      BY <2>1, <2>8 DEF Marked, MarkUsed, TypeInv, Shaped
    <3>2. codes' = codes \ {c} /\ spent' = spent \union {c} /\ otps' = otps /\ throttle' = throttle /\ crossed' = crossed
      BY <2>8, <3>1 DEF Marked, MarkUsed, rest_
    <3>3. PICK rec \in ReqType : rec.pc = "trust" /\ Moved(r, rec, {"challenge"})
      BY <2>8 DEF Marked, Goes
    <3>4. c # None /\ Owned(c) /\ c \notin otps
      <4>1. c # None
        BY AuthAssumption DEF Names
      <4> QED
        BY <2>1, <3>1, <4>1, NamesAssumption DEF CodeOK, TypeInv, Otps
    <3> QED
      BY <2>1, <3>2, <3>3, <3>4, CodesKept, NoCodes
  <2>9. CASE Quit(r) \/ RolledBack(r)
    BY <2>3, <2>4, <2>9 DEF Quit, RolledBack, mail_, factors_
  <2>10. CASE Counted(r) \/ Issued(r)
    BY <2>3, <2>4, <2>10 DEF Counted, Count, Issued, Issue, factors_, mail_, rest_
  <2>11. CASE Found(r)
    BY <2>2, <2>11 DEF Found, mail_, factors_, rest_
  <2>12. CASE Updated(r) \/ Rotated(r)
    BY <2>3, <2>12 DEF Updated, UpdateSessions, Rotated, Rotate, mail_, factors_, rest_
  <2>13. CASE Replaced(r)
    BY <2>3, <2>13 DEF Replaced, Replace, mail_
  <2>14. CASE Trusted(r)
    <3>1. otps' = otps /\ spent' = spent /\ throttle' = throttle /\ codes' = codes /\ crossed \subseteq crossed'
      BY <2>14 DEF Trusted, Trust, mail_
    <3> QED
      BY <2>2, <2>3, <2>14, <3>1 DEF Trusted
  <2>15. CASE Forgotten(r)
    BY <2>3, <2>15 DEF Forgotten, RevokeDevices, mail_, rest_
  <2>16. CASE Created(r)
    BY <2>16, CreatedCodes
  <2> QED
    BY <2>1, <2>5, <2>6, <2>7, <2>8, <2>9, <2>10, <2>11, <2>12, <2>13, <2>14, <2>15, <2>16 DEF Family
<1>2. CASE TimePasses
  <2>1. \A r \in Requests : req[r].pc \in {"new", "done"}
    BY <1>2 DEF TimePasses, Running
  <2>2. UNCHANGED <<codes, otps, spent, req, crossed>>
    BY <1>2 DEF TimePasses, factors_, rest_
  <2>3. CodesOK' /\ SingleOK' /\ ResendsApart'
    BY <2>1, <2>2 DEF CodeInv, CodesOK, Owned, Done, SingleOK, AtMostOne, ResendsApart, Resending, At
  <2>4. \A r \in Requests : CodeOK(req[r])'
    BY <2>1, <2>2 DEF CodeOK
  <2> QED
    BY <2>3, <2>4 DEF CodeInv
<1>3. CASE UNCHANGED vars
  <2>1. UNCHANGED <<codes, otps, spent, req, crossed, throttle>>
    BY <1>3 DEF vars
  <2>2. CodesOK' /\ SingleOK' /\ ResendsApart'
    BY <2>1 DEF CodeInv, CodesOK, Owned, Done, SingleOK, AtMostOne, ResendsApart, Resending, At
  <2>3. \A r \in Requests : CodeOK(req[r])'
    BY <2>1 DEF CodeInv, CodeOK, Owned, Done
  <2> QED
    BY <2>2, <2>3 DEF CodeInv
<1> QED
  BY <1>1, <1>2, <1>3 DEF Next

----------------------------------------------------------------------------
(* The lock.                                                               *)

LEMMA LockInit == Init => LockInv
BY FS_EmptySet, AuthAssumption DEF Init, LockInv

\* A request that is not about to lock takes a step that counts nothing.
LEMMA QuietLock ==
  ASSUME TypeInv, LockInv, NEW r \in Requests, NEW rec, NEW what, Moved(r, rec, what),
         ~Locking(r), account'.locked = account.locked, failures' = failures, wrong' = wrong,
         faults' = faults \/ faults' = faults + 1
  PROVE  LockInv'
<1>1. faults \in Nat
  BY AuthAssumption DEF TypeInv
<1>2. \A q \in Requests : Locking(q) => Locking(q)'
  BY DEF Moved, Others, Locking
<1> QED
  BY <1>1, <1>2 DEF LockInv

\* With no wrong password counted there is nothing to lock.
LEMMA NoneWrong ==
  ASSUME wrong' = {}, failures' \in Nat
  PROVE  LockInv'
BY FS_EmptySet, AuthAssumption DEF LockInv

LEMMA SavePreservesLock ==
  ASSUME TypeInv, TypeInv', LockInv, NEW r \in Requests, Saved(r)
  PROVE  LockInv'
<1>1. PICK op \in SaveOps : op = req[r].op
  BY DEF Saved, Save, TypeInv, Shaped, OpsAt
<1>2. PICK rec \in ReqType : Moved(r, rec, {op})
  BY <1>1 DEF Saved, Ends, Goes
<1>3. /\ failures' = failures /\ faults' = faults /\ faults \in Nat /\ failures \in Nat
      /\ account' = Columns(op, Effect(op, req[r].img, r))
      /\ wrong' = IF op \in {"fresh", "change", "reset"} \/ (account.locked /\ ~account'.locked)
                  THEN {} ELSE wrong
  BY <1>1, AuthAssumption DEF Saved, Save, TypeInv
<1>4. CASE wrong' = {}
  BY <1>3, <1>4, NoneWrong
<1>5. CASE wrong' = wrong /\ wrong # {}
  <2>1. account.locked => account'.locked
    BY <1>3, <1>5
  <2>2. op = "lock" => account'.locked
    <3>1. req[r].img \in Accounts
      BY DEF TypeInv, ReqType
    <3> QED
      BY <1>3, <3>1 DEF Columns, Effect, Accounts
  <2>3. \A q \in Requests : Locking(q) => Locking(q)' \/ (q = r /\ op = "lock")
    BY <1>1, <1>2 DEF Moved, Others, Locking
  <2> QED
    BY <1>3, <1>5, <2>1, <2>2, <2>3 DEF LockInv
<1> QED
  BY <1>3, <1>4, <1>5

LEMMA LockStep == TypeInv /\ LockInv /\ [Next]_vars => LockInv'
<1> SUFFICES ASSUME TypeInv, LockInv, [Next]_vars
             PROVE  LockInv'
  OBVIOUS
<1>1. ASSUME NEW r \in Requests, Step(r)
      PROVE  LockInv'
  <2>1. Family(r) /\ req[r] \in ReqType /\ Shaped(req[r]) /\ TypeInv'
    BY <1>1, StepsBelong, TypeStep DEF TypeInv, Next
  <2>2. ASSUME NEW what, Ends(r, what), ~Locking(r), account' = account, failures' = failures, wrong' = wrong,
               faults' = faults \/ faults' = faults + 1
        PROVE  LockInv'
    BY <2>2, QuietLock DEF Ends
  <2>3. ASSUME NEW op, NEW pc, NEW what, Goes(r, op, pc, what), ~Locking(r), account' = account,
               failures' = failures, wrong' = wrong, faults' = faults \/ faults' = faults + 1
        PROVE  LockInv'
    BY <2>3, QuietLock DEF Goes
  <2>4. CASE Arrival(r)
    <3>1. PICK rec \in ReqType : Moved(r, rec, {})
      BY <2>4 DEF Arrival
    <3>2. (failures' = failures /\ wrong' = wrong) \/ wrong' = {}
      BY <2>4 DEF Arrival
    <3>3. failures' \in Nat
      BY <2>1 DEF TypeInv
    <3> QED
      BY <2>4, <3>1, <3>2, <3>3, QuietLock, NoneWrong DEF Arrival, Locking
  <2>5. CASE Quit(r)
    <3>1. CASE Locking(r)
      <4>1. account' = account /\ failures' = failures /\ wrong' = wrong
        BY <2>5 DEF Quit, account_
      <4>2. CASE faults' = faults + 1
        <5>1. faults' > 0
          BY <4>2, AuthAssumption DEF TypeInv
        <5> QED
          BY <4>1, <5>1 DEF LockInv
      <4>3. CASE ~Admits(req[r].op, account)
        BY <3>1, <4>1, <4>3 DEF LockInv, Locking, Admits
      <4> QED
        BY <2>5, <3>1, <4>2, <4>3 DEF Quit, Locking
    <3>2. CASE ~Locking(r)
      BY <2>2, <2>5, <3>2 DEF Quit, account_
    <3> QED
      BY <3>1, <3>2
  <2>6. CASE Resumed(r)
    <3>1. PICK rec \in ReqType : rec.op = req[r].op /\ rec.pc = "save" /\ Moved(r, rec, {})
      BY <2>6 DEF Resumed
    <3>2. \A q \in Requests : Locking(q) => Locking(q)'
      BY <3>1 DEF Moved, Others, Locking
    <3>3. UNCHANGED <<account, failures, wrong, faults>>
      BY <2>6 DEF Resumed, account_, rest_
    <3> QED
      BY <3>2, <3>3 DEF LockInv
  <2>7. CASE Saved(r)
    BY <2>1, <2>7, SavePreservesLock
  <2>8. CASE RolledBack(r)
    BY <2>3, <2>8 DEF RolledBack, account_, Locking
  <2>9. CASE Counted(r)
    <3>1. failures' = failures + 1 /\ wrong' = wrong \union {r}
          /\ account' = account /\ faults' = faults /\ req[r].pc = "count"
      BY <2>9 DEF Counted, Count, rest_
    <3>2. Cardinality(wrong') <= failures'
      <4>1. IsFiniteSet(wrong) /\ failures \in Nat /\ Cardinality(wrong) \in Nat
        BY FS_CardinalityType DEF TypeInv
      <4>2. Cardinality(wrong \union {r}) = IF r \in wrong THEN Cardinality(wrong) ELSE Cardinality(wrong) + 1
        BY <4>1, FS_AddElement
      <4> QED
        BY <3>1, <4>1, <4>2 DEF LockInv
    <3>3. CASE failures' >= LockAt
      <4>1. Locking(r)'
        BY <2>9, <3>3 DEF Counted, Goes, Moved, Locking
      <4> QED
        BY <3>2, <4>1 DEF LockInv
    <3>4. CASE ~(failures' >= LockAt)
      <4>1. Cardinality(wrong') \in Nat /\ failures' \in Nat /\ LockAt \in Nat
        BY <2>1, FS_CardinalityType, AuthAssumption DEF TypeInv
      <4> QED
        BY <3>2, <3>4, <4>1 DEF LockInv
    <3> QED
      BY <3>3, <3>4
  <2>10. CASE Issued(r)
    BY <2>2, <2>3, <2>10 DEF Issued, Issue, account_, rest_, Locking
  <2>11. CASE Found(r)
    BY <2>11, QuietLock DEF Found, account_, rest_, Locking
  <2>12. CASE Updated(r) \/ Rotated(r)
    BY <2>2, <2>12 DEF Updated, UpdateSessions, Rotated, Rotate, account_, rest_, Locking
  <2>13. CASE Replaced(r)
    BY <2>2, <2>13 DEF Replaced, Replace, account_, Locking
  <2>14. CASE Marked(r)
    BY <2>3, <2>14 DEF Marked, MarkUsed, account_, rest_, Locking
  <2>15. CASE Trusted(r)
    <3>1. UNCHANGED <<account, failures, wrong, faults>> /\ ~Locking(r)
      BY <2>15 DEF Trusted, Trust, account_, Locking
    <3> QED
      BY <2>15, <2>2, <3>1, QuietLock DEF Trusted
  <2>16. CASE Forgotten(r)
    BY <2>2, <2>16 DEF Forgotten, RevokeDevices, Arrives, account_, rest_, Locking
  <2>17. CASE Created(r)
    BY <2>2, <2>17 DEF Created, CreateCode, account_, Locking
  <2> QED
    BY <2>1, <2>4, <2>5, <2>6, <2>7, <2>8, <2>9, <2>10, <2>11, <2>12, <2>13, <2>14, <2>15, <2>16,
       <2>17 DEF Family
<1>2. CASE TimePasses
  <2>1. wrong' = {} /\ failures' \in Nat
    BY <1>2 DEF TimePasses
  <2> QED
    BY <2>1, NoneWrong
<1>3. CASE UNCHANGED vars
  BY <1>3 DEF vars, LockInv, Locking
<1> QED
  BY <1>1, <1>2, <1>3 DEF Next

----------------------------------------------------------------------------
(* The account is whole.                                                   *)

WholeInv == TypeInv /\ AccountInv /\ CodeInv /\ LockInv

LEMMA WholeInvariant == Spec => []WholeInv
<1>1. Init => WholeInv
  BY TypeInit, AccountInit, CodesInit, LockInit DEF WholeInv
<1>2. WholeInv /\ [Next]_vars => WholeInv'
  BY TypeStep, AccountStep, CodesStep, LockStep DEF WholeInv
<1> QED
  BY <1>1, <1>2, PTL DEF Spec

\* A set in which any two elements are the same has at most one.
LEMMA Singles ==
  ASSUME NEW S, \A x, y \in S : x = y
  PROVE  Cardinality(S) <= 1
<1>1. CASE S = {}
  BY <1>1, FS_EmptySet
<1>2. CASE S # {}
  <2>1. PICK x \in S : S = {x}
    BY <1>2
  <2> QED
    BY <2>1, FS_Singleton
<1> QED
  BY <1>1, <1>2

\* The account is whole, however its requests overlap: its second factor has a
\* secret that a code has proven and ends with its backup codes and its trusted
\* devices, one code of a purpose is valid at a time, and as many wrong passwords
\* as the limit lock it.
THEOREM AccountCorrect == Spec => []AccountIsWhole
<1>1. WholeInv => AccountIsWhole
  <2> SUFFICES ASSUME WholeInv
               PROVE  AccountIsWhole
    OBVIOUS
  <2>1. TypeOK
    BY DEF WholeInv, TypeInv, TypeOK, ReqType, Otps
  <2>2. SecretIsProven
    BY DEF WholeInv, AccountInv, AccountOK, Clean, WellFormed, SecretIsProven
  <2>3. FactorsEndTogether
    BY DEF WholeInv, AccountInv, AccountOK, Clean, FactorsEndTogether
  <2>4. OneCodeAtATime
    <3>1. ASSUME NEW p \in Purposes, AtMostOne(p)
          PROVE  Cardinality({o \in otps : o[2] = p}) <= 1
      <4>1. \A x, y \in {o \in otps : o[2] = p} : x = y
        BY <3>1 DEF AtMostOne, WholeInv, TypeInv, Otps
      <4> QED
        BY <4>1, Singles
    <3> QED
      BY <3>1 DEF OneCodeAtATime, WholeInv, CodeInv, SingleOK
  <2>5. FailuresLock
    BY DEF WholeInv, LockInv, FailuresLock, Locking, Running
  <2> QED
    BY <2>1, <2>2, <2>3, <2>4, <2>5 DEF AccountIsWhole
<1> QED
  BY <1>1, WholeInvariant, PTL

----------------------------------------------------------------------------
(* Sessions.                                                               *)

\* What a step may do to the sessions while the others look on: none appears
\* but r's own, and only a revocation ends one.
Gentle(r, what) ==
  \A s \in Names :
    /\ s # r => (sessions'[s].state = "none" <=> sessions[s].state = "none")
    /\ sessions'[s].state = "none" => sessions[s].state = "none"
    /\ sessions[s].state = "live" => sessions'[s].state = "live" \/ "revoke" \in what

LEMMA OthersSessions ==
  ASSUME TypeInv, SessionInv, NEW r \in Requests, NEW rec \in ReqType, NEW what, Moved(r, rec, what),
         Gentle(r, what), crossed \subseteq crossed',
         Clean' => account'.pwd = account.pwd \/ what \intersect PwdOps # {}
  PROVE  \A q \in Requests \ {r} : SessionOK(q, req[q])'
<1> SUFFICES ASSUME NEW q \in Requests \ {r}
             PROVE  SessionOK(q, req[q])'
  OBVIOUS
<1>1. SessionOK(q, req[q]) /\ req[q] \in ReqType /\ q \in Names
  BY DEF SessionInv, TypeInv, Names
<1>2. /\ req'[q].op = req[q].op /\ req'[q].pc = req[q].pc /\ req'[q].sids = req[q].sids
      /\ req'[q].img = req[q].img /\ req[q].sids \subseteq Names
      /\ req[q].missed \subseteq req'[q].missed /\ req[q].unseen \subseteq req'[q].unseen
      /\ req[q].pc \notin {"new", "done"} => what \subseteq req'[q].missed /\ what \subseteq req'[q].unseen
  BY <1>1 DEF Moved, Others, ReqType
<1>3. req'[q].pc \in {"new", "count", "issue"} \/ (req'[q].pc = "save" /\ req'[q].op = "link")
      => sessions'[q].state = "none"
  BY <1>1, <1>2 DEF SessionOK, Gentle
<1>4. req'[q].pc \notin {"create", "done"} => \A s \in req'[q].sids : sessions'[s].state # "none"
  BY <1>1, <1>2 DEF SessionOK, Gentle
<1>5. req'[q].pc = "rotate" /\ "revoke" \notin req'[q].unseen
      => \A s \in req'[q].sids : sessions'[s].state = "live"
  BY <1>1, <1>2 DEF SessionOK, Gentle
<1>6. Clean' /\ (req'[q].pc = "issue" \/ (req'[q].pc = "save" /\ req'[q].op = "link"))
        /\ req'[q].missed \intersect PwdOps = {}
      => req'[q].img.pwd = account'.pwd
  BY <1>1, <1>2 DEF SessionOK, Clean
<1>7. req'[q].pc = "save" /\ req'[q].op = "reset" => req'[q].sids = {}
  BY <1>1, <1>2 DEF SessionOK
<1> QED
  BY <1>3, <1>4, <1>5, <1>6, <1>7 DEF SessionOK

\* A step that leaves the sessions, and is of no request that will revoke.
LEMMA QuietSessions ==
  ASSUME TypeInv, SessionInv, NEW r \in Requests, NEW rec \in ReqType, NEW what, Moved(r, rec, what),
         account'.pwd = account.pwd, sessions' = sessions, stray' = stray, crossed \subseteq crossed',
         req[r].pc \notin {"find", "update"}, faults' = faults \/ faults' = faults + 1, SessionOK(r, rec)'
  PROVE  SessionInv'
<1>1. Gentle(r, what)
  BY DEF Gentle
<1>2. \A q \in Requests \ {r} : SessionOK(q, req[q])'
  BY <1>1, OthersSessions
<1>3. SessionOK(r, req[r])'
  BY DEF Moved, SessionOK
<1>4. ASSUME faults' = 0, Clean', NEW s \in Live'
      PROVE  Known(s)'
  <2>1. faults = 0 /\ Clean /\ s \in Live
    BY <1>4, AuthAssumption DEF Clean, Live, TypeInv
  <2>2. Known(s)
    BY <2>1 DEF SessionInv
  <2>3. \A q \in Requests : WillRevoke(q, s) => WillRevoke(q, s)'
    BY DEF Moved, Others, WillRevoke
  <2> QED
    BY <2>2, <2>3 DEF Known
<1> QED
  BY <1>2, <1>3, <1>4 DEF SessionInv

LEMMA SessionsInit == Init => SessionInv
<1> SUFFICES ASSUME Init
             PROVE  SessionInv
  OBVIOUS
<1>1. \A r \in Requests : req[r] = Idle("new") /\ r \in Names /\ r # Start
  BY AuthAssumption DEF Init, Names
<1>2. \A r \in Requests : req[r].pc = "new" /\ req[r].sids = {}
  BY <1>1, IdleFacts DEF PCs
<1>3. \A s \in Names : s # Start => sessions[s].state = "none"
  BY DEF Init, NoSession
<1>4. \A s \in Live : sessions[s].by = account.pwd
  <2>1. \A s \in Live : sessions[s] = Opened(Start, SomeAgent) /\ account.verified
    BY DEF Init, Live, NoSession
  <2>2. Opened(Start, SomeAgent).by = Start
    BY DEF Opened
  <2>3. account.verified => account.pwd = Start
    <3>1. ~Registered.verified /\ ~Invited.verified /\ [Registered EXCEPT !.verified = TRUE].pwd = Start
          /\ [Registered EXCEPT !.verified = TRUE, !.secret = Start].pwd = Start
          /\ [Registered EXCEPT !.verified = TRUE, !.enabled = TRUE, !.secret = Start].pwd = Start
      BY DEF Registered, Invited
    <3> QED
      BY <3>1 DEF Init
  <2> QED
    BY <2>1, <2>2, <2>3
<1> QED
  BY <1>1, <1>2, <1>3, <1>4 DEF SessionInv, SessionOK, Known

\* A save: a new password leaves no session without a revocation to come.
LEMMA SavePreservesSessions ==
  ASSUME TypeInv, AccountInv, SessionInv, NEW r \in Requests, Saved(r)
  PROVE  SessionInv'
<1>1. PICK op \in SaveOps : op = req[r].op /\ req[r].pc = "save"
  BY DEF Saved, Save, TypeInv, Shaped, OpsAt
<1>2. crossed \subseteq crossed' /\ faults' = faults /\ r \in Names
  BY SaveFacts DEF Saved, Save, Names
<1>3. Clean' => Clean /\ account'.pwd = IF op \in PwdOps THEN r ELSE account.pwd
  <2>1. account \in Accounts
    BY DEF TypeInv
  <2>2. Makes(op, account, r, Effect(op, account, r))
    BY <2>1, EffectFacts
  <2> QED
    BY <1>1, <2>2, SaveFacts DEF Makes
<1>4. /\ \A s \in Names : /\ sessions'[s].state = sessions[s].state
                          /\ sessions'[s].by = IF op = "change" /\ s \in req[r].sids THEN r ELSE sessions[s].by
      /\ stray' = IF op = "password" THEN stray \union Live ELSE stray
  BY <1>1 DEF Saved, Save, TypeInv, Sessions
<1>5. PICK rec \in ReqType :
        /\ Moved(r, rec, {op})
        /\ op \in {"change", "reset"} => rec.pc = "find" /\ rec.sids = req[r].sids
        /\ op = "link" => /\ rec.pc = "issue" /\ rec.img = [req[r].img EXCEPT !.verified = TRUE]
                          /\ rec.missed = req[r].missed /\ rec.sids = req[r].sids
        /\ op \notin {"change", "reset", "link"} => rec.pc = "done"
  BY <1>1 DEF Saved, Goes, Ends
<1>6. SessionOK(r, req[r]) /\ req[r].img \in Accounts /\ req[r].sids \subseteq Names
  BY DEF SessionInv, TypeInv, ReqType
<1>7. Gentle(r, {op})
  BY <1>4 DEF Gentle
<1>8. \A q \in Requests \ {r} : SessionOK(q, req[q])'
  BY <1>2, <1>3, <1>5, <1>7, OthersSessions
<1>9. SessionOK(r, req[r])'
  <2>1. CASE op \in {"change", "reset"}
    BY <1>1, <1>4, <1>5, <1>6, <2>1 DEF SessionOK, Moved
  <2>2. CASE op = "link"
    <3>1. rec.img.pwd = req[r].img.pwd
      BY <1>5, <1>6, <2>2 DEF Accounts
    <3> QED
      BY <1>1, <1>2, <1>3, <1>4, <1>5, <1>6, <2>2, <3>1 DEF SessionOK, Moved, PwdOps
  <2>3. CASE op \notin {"change", "reset", "link"}
    BY <1>5, <2>3 DEF SessionOK, Moved
  <2> QED
    BY <2>1, <2>2, <2>3
<1>10. ASSUME faults' = 0, Clean', NEW s \in Live'
       PROVE  Known(s)'
  <2>1. faults = 0 /\ Clean /\ s \in Live /\ s \in Names
    BY <1>2, <1>3, <1>4, <1>10 DEF Live
  <2>2. Known(s)
    BY <2>1 DEF SessionInv
  <2>3. \A q \in Requests : WillRevoke(q, s) => WillRevoke(q, s)'
    BY <1>1, <1>5 DEF Moved, Others, WillRevoke
  <2>4. CASE op \notin PwdOps
    BY <1>3, <1>4, <1>10, <2>1, <2>2, <2>3, <2>4 DEF Known, PwdOps
  <2>5. CASE op = "password"
    BY <1>4, <2>1, <2>5 DEF Known
  <2>6. CASE op \in {"change", "reset"} /\ s \notin req[r].sids
    <3>1. WillRevoke(r, s)'
      BY <1>5, <2>6 DEF WillRevoke, Moved
    <3> QED
      BY <3>1 DEF Known
  <2>7. CASE op = "change" /\ s \in req[r].sids
    BY <1>3, <1>4, <1>10, <2>1, <2>7 DEF Known, PwdOps
  <2>8. CASE op = "reset" /\ s \in req[r].sids
    BY <1>1, <1>6, <2>8 DEF SessionOK
  <2> QED
    BY <2>4, <2>5, <2>6, <2>7, <2>8 DEF PwdOps
<1> QED
  BY <1>8, <1>9, <1>10 DEF SessionInv

\* A session opened with an old password is one whose request overlapped the change.
LEMMA IssuePreservesSessions ==
  ASSUME TypeInv, SessionInv, NEW r \in Requests, Issued(r)
  PROVE  SessionInv'
<1>1. PICK agent \in Agents : sessions' = [sessions EXCEPT ![r] = Opened(req[r].img.pwd, agent)]
  BY DEF Issued, Issue
<1>2. /\ req[r].pc = "issue" /\ r \in Names
      /\ stray' = IF req[r].missed \intersect PwdOps # {} THEN stray \union {r} ELSE stray
      /\ UNCHANGED <<account, crossed, faults>>
  BY DEF Issued, Issue, Names, PwdOps, account_, rest_
<1>3. PICK rec \in ReqType : /\ Moved(r, rec, {})
                             /\ (rec.pc = "begin" /\ rec.op = "fresh" /\ rec.sids = req[r].sids) \/ rec.pc = "done"
  BY DEF Issued, Goes, Ends
<1>4. SessionOK(r, req[r]) /\ req[r].sids \subseteq Names
  BY DEF SessionInv, TypeInv, ReqType
<1>5. /\ sessions'[r].state = "live" /\ sessions'[r].by = req[r].img.pwd
      /\ \A s \in Names : s # r => sessions'[s] = sessions[s]
  BY <1>1, <1>2 DEF Opened, TypeInv
<1>6. sessions[r].state = "none"
  BY <1>2, <1>4 DEF SessionOK
<1>7. Gentle(r, {})
  BY <1>5, <1>6 DEF Gentle
<1>8. \A q \in Requests \ {r} : SessionOK(q, req[q])'
  BY <1>2, <1>3, <1>7, OthersSessions
<1>9. SessionOK(r, req[r])'
  BY <1>2, <1>3, <1>4, <1>5 DEF SessionOK, Moved
<1>10. ASSUME faults' = 0, Clean', NEW s \in Live'
       PROVE  Known(s)'
  <2>1. faults = 0 /\ Clean /\ s \in Names
    BY <1>2, <1>10 DEF Clean, Live
  <2>2. CASE s = r
    BY <1>2, <1>4, <1>5, <2>1, <2>2 DEF SessionOK, Known
  <2>3. CASE s # r
    <3>1. Known(s)
      BY <1>5, <1>10, <2>1, <2>3 DEF SessionInv, Live
    <3>2. \A q \in Requests : WillRevoke(q, s) => WillRevoke(q, s)'
      BY <1>2, <1>3 DEF Moved, Others, WillRevoke
    <3> QED
      BY <1>2, <1>5, <2>1, <2>3, <3>1, <3>2 DEF Known
  <2> QED
    BY <2>2, <2>3
<1> QED
  BY <1>8, <1>9, <1>10 DEF SessionInv

\* The revocation finds what is live, and ends what it has found.
LEMMA RevocationPreservesSessions ==
  ASSUME TypeInv, SessionInv, NEW r \in Requests, Found(r) \/ Updated(r)
  PROVE  SessionInv'
<1>1. r \in Names /\ SessionOK(r, req[r]) /\ req[r].sids \subseteq Names
  BY DEF SessionInv, TypeInv, ReqType, Names
<1>2. CASE Found(r)
  <2>1. PICK rec \in ReqType : rec.pc = "update" /\ rec.sids = Live \ req[r].sids /\ Moved(r, rec, {})
    BY <1>2 DEF Found
  <2>2. UNCHANGED <<account, sessions, stray, crossed, faults>>
    BY <1>2 DEF Found, account_, session_, rest_
  <2>3. Gentle(r, {})
    BY <2>2 DEF Gentle
  <2>4. \A q \in Requests \ {r} : SessionOK(q, req[q])'
    BY <2>1, <2>2, <2>3, OthersSessions
  <2>5. SessionOK(r, req[r])'
    BY <2>1, <2>2 DEF SessionOK, Moved, Live
  <2>6. ASSUME faults' = 0, Clean', NEW s \in Live'
        PROVE  Known(s)'
    <3>1. s \in Live /\ Known(s)
      BY <2>2, <2>6 DEF SessionInv, Clean, Live
    <3>2. \A q \in Requests : WillRevoke(q, s) => WillRevoke(q, s)'
      BY <1>2, <2>1, <3>1 DEF Moved, Others, WillRevoke, Found
    <3> QED
      BY <2>2, <3>1, <3>2 DEF Known
  <2> QED
    BY <2>4, <2>5, <2>6 DEF SessionInv
<1>3. CASE Updated(r)
  <2>1. PICK rec \in ReqType : rec.pc = "done" /\ Moved(r, rec, {"revoke"})
    BY <1>3 DEF Updated, Ends
  <2>2. /\ \A s \in Names : /\ sessions'[s].by = sessions[s].by
                            /\ sessions'[s].state = IF s \in req[r].sids THEN "revoked" ELSE sessions[s].state
        /\ stray' = stray \ req[r].sids
        /\ req[r].pc = "update" /\ UNCHANGED <<account, crossed, faults>>
    BY <1>3 DEF Updated, UpdateSessions, TypeInv, Sessions, account_, rest_
  <2>3. Gentle(r, {"revoke"})
    BY <1>1, <2>2 DEF Gentle, SessionOK
  <2>4. \A q \in Requests \ {r} : SessionOK(q, req[q])'
    BY <2>1, <2>2, <2>3, OthersSessions
  <2>5. SessionOK(r, req[r])'
    BY <2>1 DEF SessionOK, Moved
  <2>6. ASSUME faults' = 0, Clean', NEW s \in Live'
        PROVE  Known(s)'
    <3>1. s \in Live /\ s \notin req[r].sids
      BY <2>2, <2>6 DEF Live
    <3>2. Known(s)
      BY <2>2, <2>6, <3>1 DEF SessionInv, Clean
    <3>3. \A q \in Requests : WillRevoke(q, s) => WillRevoke(q, s)'
      BY <2>1, <2>2, <3>1 DEF Moved, Others, WillRevoke
    <3> QED
      BY <2>2, <3>1, <3>2, <3>3 DEF Known, Live
  <2> QED
    BY <2>4, <2>5, <2>6 DEF SessionInv
<1> QED
  BY <1>2, <1>3

\* A rotation brings back only what a revocation has overlapped.
LEMMA RotationPreservesSessions ==
  ASSUME TypeInv, SessionInv, NEW r \in Requests, Rotated(r)
  PROVE  SessionInv'
<1>1. PICK t \in Names : /\ req[r].sids = {t} /\ sessions' = [sessions EXCEPT ![t].state = "live"]
                         /\ t \in stray' \/ req[r].unseen \intersect {"revoke", "change", "reset", "password"} = {}
  BY DEF Rotated
<1>2. PICK rec \in ReqType : rec.pc = "done" /\ Moved(r, rec, {})
  BY DEF Rotated, Ends
<1>3. req[r].pc = "rotate" /\ stray \subseteq stray' /\ UNCHANGED <<account, crossed, faults>>
  BY DEF Rotated, Rotate, account_, rest_
<1>4. SessionOK(r, req[r])
  BY DEF SessionInv
<1>5. \A s \in Names : /\ sessions'[s].by = sessions[s].by
                       /\ sessions'[s].state = IF s = t THEN "live" ELSE sessions[s].state
  BY <1>1 DEF TypeInv, Sessions
<1>6. Gentle(r, {})
  BY <1>1, <1>3, <1>4, <1>5 DEF Gentle, SessionOK
<1>7. \A q \in Requests \ {r} : SessionOK(q, req[q])'
  BY <1>2, <1>3, <1>6, OthersSessions
<1>8. SessionOK(r, req[r])'
  BY <1>2 DEF SessionOK, Moved
<1>9. ASSUME faults' = 0, Clean', NEW s \in Live'
      PROVE  Known(s)'
  <2>1. s \in Live \/ s \in stray'
    BY <1>1, <1>3, <1>4, <1>5, <1>9 DEF SessionOK, Live
  <2>2. CASE s \in Live
    <3>1. Known(s) /\ s \in Names
      BY <1>3, <1>9, <2>2 DEF SessionInv, Clean, Live
    <3>2. \A q \in Requests : WillRevoke(q, s) => WillRevoke(q, s)'
      BY <1>2, <1>3 DEF Moved, Others, WillRevoke
    <3> QED
      BY <1>3, <1>5, <3>1, <3>2 DEF Known
  <2>3. CASE s \in stray'
    BY <2>3 DEF Known
  <2> QED
    BY <2>1, <2>2, <2>3
<1> QED
  BY <1>7, <1>8, <1>9 DEF SessionInv

LEMMA SessionsStep == TypeInv /\ AccountInv /\ SessionInv /\ [Next]_vars => SessionInv'
<1> SUFFICES ASSUME TypeInv, AccountInv, SessionInv, [Next]_vars
             PROVE  SessionInv'
  OBVIOUS
<1>1. ASSUME NEW r \in Requests, Step(r)
      PROVE  SessionInv'
  <2>1. Family(r) /\ SessionOK(r, req[r]) /\ faults \in Nat
    BY <1>1, StepsBelong, AuthAssumption DEF SessionInv, TypeInv
  <2>2. ASSUME NEW what, Ends(r, what), account' = account, sessions' = sessions, stray' = stray,
               crossed \subseteq crossed', req[r].pc \notin {"find", "update"}, faults' = faults \/ faults' = faults + 1
        PROVE  SessionInv'
    <3>1. PICK rec \in ReqType : rec.pc = "done" /\ Moved(r, rec, what)
      BY <2>2 DEF Ends
    <3>2. SessionOK(r, rec)'
      BY <3>1 DEF SessionOK
    <3> QED
      BY <2>2, <3>1, <3>2, QuietSessions
  <2>3. ASSUME NEW op, NEW pc \in {"begin", "find", "trust"}, NEW what, Goes(r, op, pc, what), account' = account, sessions' = sessions,
               stray' = stray, crossed \subseteq crossed', req[r].pc \notin {"find", "update", "create", "done"},
               faults' = faults \/ faults' = faults + 1
        PROVE  SessionInv'
    <3>1. PICK rec \in ReqType : rec.pc = pc /\ rec.sids = req[r].sids /\ Moved(r, rec, what)
      BY <2>3 DEF Goes
    <3>2. SessionOK(r, rec)'
      BY <2>1, <2>3, <3>1 DEF SessionOK
    <3> QED
      BY <2>3, <3>1, <3>2, QuietSessions
  <2>4. CASE Arrival(r)
    <3>1. PICK rec \in ReqType : Arrived(rec) /\ Moved(r, rec, {})
      BY <2>4 DEF Arrival
    <3>2. UNCHANGED <<account, sessions, stray, crossed, faults>> /\ req[r].pc = "new"
      BY <2>4 DEF Arrival
    <3>3. SessionOK(r, rec)'
      BY <2>1, <3>1, <3>2 DEF SessionOK, Arrived, Live
    <3> QED
      BY <3>1, <3>2, <3>3, QuietSessions
  <2>5. CASE Quit(r)
    <3>1. UNCHANGED <<account, sessions, stray, crossed>> /\ Ends(r, {})
      BY <2>5 DEF Quit, account_, session_
    <3>2. CASE req[r].pc \notin {"find", "update"}
      BY <2>2, <2>5, <3>1, <3>2 DEF Quit
    <3>3. CASE req[r].pc \in {"find", "update"}
      <4>1. faults' > 0
        BY <2>1, <2>5, <3>3 DEF Quit
      <4>2. PICK rec \in ReqType : rec.pc = "done" /\ Moved(r, rec, {})
        BY <3>1 DEF Ends
      <4>3. Gentle(r, {})
        BY <3>1 DEF Gentle
      <4>4. \A q \in Requests \ {r} : SessionOK(q, req[q])'
        BY <3>1, <4>2, <4>3, OthersSessions
      <4> QED
        BY <4>1, <4>2, <4>4 DEF SessionInv, SessionOK, Moved
    <3> QED
      BY <3>2, <3>3
  <2>6. CASE Resumed(r)
    <3>1. PICK rec \in ReqType :
            /\ rec.op = req[r].op /\ rec.pc = "save" /\ rec.sids = req[r].sids /\ Moved(r, rec, {})
      BY <2>6 DEF Resumed
    <3>2. UNCHANGED <<account, sessions, stray, crossed, faults>> /\ req[r].pc = "begin"
      BY <2>6 DEF Resumed, account_, session_, rest_
    <3>3. req[r].op \in {"lock", "fresh", "enable"}
      BY <3>2 DEF TypeInv, Shaped, OpsAt
    <3>4. SessionOK(r, rec)'
      BY <2>1, <3>1, <3>2, <3>3 DEF SessionOK
    <3> QED
      BY <3>1, <3>2, <3>4, QuietSessions
  <2>7. CASE Saved(r)
    BY <2>7, SavePreservesSessions
  <2>8. CASE RolledBack(r)
    BY <2>3, <2>8 DEF RolledBack, account_, session_
  <2>9. CASE Counted(r)
    <3>1. UNCHANGED <<account, sessions, stray, crossed, faults>> /\ req[r].pc = "count"
      BY <2>9 DEF Counted, Count, session_, rest_
    <3> QED
      BY <2>2, <2>3, <2>9, <3>1 DEF Counted
  <2>10. CASE Issued(r)
    BY <2>10, IssuePreservesSessions
  <2>11. CASE Found(r) \/ Updated(r)
    BY <2>11, RevocationPreservesSessions
  <2>12. CASE Rotated(r)
    BY <2>12, RotationPreservesSessions
  <2>13. CASE Replaced(r)
    BY <2>2, <2>13 DEF Replaced, Replace, account_, session_
  <2>14. CASE Marked(r)
    BY <2>3, <2>14 DEF Marked, MarkUsed, account_, session_, rest_
  <2>15. CASE Trusted(r)
    <3>1. /\ UNCHANGED <<account, sessions, stray, faults>> /\ crossed \subseteq crossed' /\ req[r].pc = "trust"
      BY <2>15 DEF Trusted, Trust, account_, session_
    <3>2. CASE Ends(r, {})
      BY <2>2, <3>1, <3>2
    <3>3. ASSUME req[r].sids \subseteq Live, NEW rec \in ReqType, rec.pc = "rotate", rec.sids = req[r].sids,
                 Moved(r, rec, {})
          PROVE  SessionInv'
      <4>1. SessionOK(r, rec)'
        BY <3>1, <3>3 DEF SessionOK, Live
      <4> QED
        BY <3>1, <3>3, <4>1, QuietSessions
    <3> QED
      BY <2>15, <3>2, <3>3 DEF Trusted
  <2>16. CASE Forgotten(r)
    BY <2>2, <2>16 DEF Forgotten, RevokeDevices, Arrives, account_, session_, rest_
  <2>17. CASE Created(r)
    BY <2>2, <2>17 DEF Created, CreateCode, account_, session_
  <2> QED
    BY <2>1, <2>4, <2>5, <2>6, <2>7, <2>8, <2>9, <2>10, <2>11, <2>12, <2>13, <2>14, <2>15, <2>16,
       <2>17 DEF Family
<1>2. CASE TimePasses
  <2>1. UNCHANGED <<sessions, stray, req, crossed, faults>> /\ account'.pwd = account.pwd
    BY <1>2 DEF TimePasses, session_, rest_, TypeInv, Accounts
  <2> QED
    BY <2>1 DEF SessionInv, SessionOK, Known, WillRevoke, Live, Clean
<1>3. CASE UNCHANGED vars
  <2>1. UNCHANGED <<account, sessions, stray, req, crossed, faults>>
    BY <1>3 DEF vars
  <2> QED
    BY <2>1 DEF SessionInv, SessionOK, Known, WillRevoke, Live, Clean
<1> QED
  BY <1>1, <1>2, <1>3 DEF Next

----------------------------------------------------------------------------
(* Sessions know the password, and what steps never do.                    *)

AuthInv == WholeInv /\ SessionInv

LEMMA AuthInvariant == Spec => []AuthInv
<1>1. Init => AuthInv
  BY TypeInit, AccountInit, CodesInit, LockInit, SessionsInit DEF AuthInv, WholeInv
<1>2. AuthInv /\ [Next]_vars => AuthInv'
  BY TypeStep, AccountStep, CodesStep, LockStep, SessionsStep DEF AuthInv, WholeInv
<1> QED
  BY <1>1, <1>2, PTL DEF Spec

\* A live session knows the password in force: another one is being revoked, or
\* lost its revocation to a fault, or its request overlapped the change or the
\* change was by link, or an overlapping save brought the old password back.
THEOREM SessionsCorrect == Spec => []SessionsKnowThePassword
<1>1. AuthInv => SessionsKnowThePassword
  <2> SUFFICES ASSUME AuthInv, NEW s \in Live, faults = 0, Clean
               PROVE  \/ sessions[s].by = account.pwd \/ s \in stray
                      \/ \E r \in Requests : req[r].pc = "find" \/ (req[r].pc = "update" /\ s \in req[r].sids)
    BY AuthAssumption DEF AuthInv, WholeInv, TypeInv, Clean, SessionsKnowThePassword
  <2> QED
    BY DEF AuthInv, SessionInv, Known, WillRevoke
<1> QED
  BY <1>1, AuthInvariant, PTL

\* What makes a step of the account a step of one request.
LEMMA StepOfOne ==
  ASSUME TypeInv, NEW q \in Requests, Family(q), NEW r \in Requests, req'[r].pc # req[r].pc
  PROVE  q = r
<1>1. PICK rec \in ReqType, what \in SUBSET Ops : Moved(q, rec, what)
  BY FamiliesMove
<1> QED
  BY <1>1 DEF Moved, Others

\* A save makes of the account what its operation makes of the row as it is,
\* unless another request has committed since its transaction read the row.
THEOREM SavesLoseNothing == Spec => SavesLoseOnlyToOverlap
<1>1. AuthInv /\ [Next]_vars =>
        [\A r \in Requests :
           req[r].pc = "save" /\ req'[r].pc # "save" /\ account' # account =>
             \/ account' = Effect(req[r].op, account, r)
             \/ req[r].unseen # {}]_vars
  <2> SUFFICES ASSUME AuthInv, Next, NEW r \in Requests,
                      req[r].pc = "save", req'[r].pc # "save", account' # account, req[r].unseen = {}
               PROVE  account' = Effect(req[r].op, account, r)
    OBVIOUS
  <2>1. TypeInv /\ ImageOK(req[r])
    BY DEF AuthInv, WholeInv, AccountInv
  <2>2. PICK q \in Requests : Step(q)
    BY DEF Next, TimePasses
  <2>3. q = r /\ Family(r)
    BY <2>1, <2>2, StepsBelong, StepOfOne
  <2>4. Saved(r)
    BY <2>3 DEF Family, Arrival, Quit, Resumed, RolledBack, Counted, Count, Issued, Issue, Found, Updated,
                UpdateSessions, Rotated, Rotate, Replaced, Replace, Marked, MarkUsed, Trusted, Trust,
                Forgotten, RevokeDevices, Arrives, Created, CreateCode, account_
  <2>5. req[r].img = account /\ account \in Accounts
    BY <2>1 DEF ImageOK, TypeInv
  <2>6. PICK op \in SaveOps : op = req[r].op
    BY <2>1, <2>4 DEF Saved, Save, TypeInv, Shaped, OpsAt
  <2>7. account' = Columns(op, Effect(op, account, r))
    BY <2>4, <2>5, <2>6 DEF Saved, Save
  <2>8. CASE op \notin {"edit", "password"}
    BY <2>6, <2>7, <2>8 DEF Columns
  <2>9. CASE op = "edit"
    <3>1. Effect(op, account, r) = account
      BY <2>9 DEF Effect
    <3> QED
      BY <2>5, <2>6, <2>7, <2>9, <3>1 DEF Columns, Accounts
  <2>10. CASE op = "password"
    <3>1. Effect(op, account, r) = [account EXCEPT !.pwd = r]
      BY <2>10 DEF Effect
    <3>2. account' = [account EXCEPT !.pwd = Effect(op, account, r).pwd, !.enabled = Effect(op, account, r).enabled]
      BY <2>7, <2>10 DEF Columns
    <3>3. Effect(op, account, r).pwd = r /\ Effect(op, account, r).enabled = account.enabled
      BY <2>5, <3>1 DEF Accounts
    <3> QED
      BY <2>5, <2>6, <3>1, <3>2, <3>3 DEF Accounts
  <2> QED
    BY <2>8, <2>9, <2>10
<1> QED
  BY <1>1, AuthInvariant, PTL DEF Spec, SavesLoseOnlyToOverlap

\* A revoked session comes back to life only by a rotation that had read it
\* before it was revoked.
THEOREM RevokedStayRevoked == Spec => RevocationsLast
<1>1. AuthInv /\ [Next]_vars =>
        [\A s \in Names :
           sessions[s].state = "revoked" /\ sessions'[s].state = "live" =>
             \E r \in Requests : req[r].pc = "rotate" /\ s \in req[r].sids
                                 /\ "revoke" \in req[r].unseen]_vars
  <2> SUFFICES ASSUME AuthInv, Next, NEW s \in Names,
                      sessions[s].state = "revoked", sessions'[s].state = "live"
               PROVE  \E r \in Requests : req[r].pc = "rotate" /\ s \in req[r].sids
                                          /\ "revoke" \in req[r].unseen
    OBVIOUS
  <2>1. TypeInv /\ \A r \in Requests : SessionOK(r, req[r])
    BY DEF AuthInv, WholeInv, SessionInv
  <2>2. PICK r \in Requests : Step(r)
    BY DEF Next, TimePasses, session_
  <2>3. Family(r)
    BY <2>1, <2>2, StepsBelong
  <2>4. CASE Saved(r)
    <3>1. sessions'[s].state = sessions[s].state
      BY <2>1, <2>4 DEF Saved, Save, TypeInv, Sessions
    <3> QED
      BY <3>1
  <2>5. CASE Issued(r)
    <3>1. s # r => sessions'[s] = sessions[s]
      BY <2>1, <2>5 DEF Issued, Issue, TypeInv
    <3>2. s # r
      BY <2>1, <2>5 DEF Issued, Issue, SessionOK
    <3> QED
      BY <3>1, <3>2
  <2>6. CASE Updated(r)
    <3>1. sessions'[s].state = IF s \in req[r].sids THEN "revoked" ELSE sessions[s].state
      BY <2>1, <2>6 DEF Updated, UpdateSessions, TypeInv, Sessions
    <3> QED
      BY <3>1
  <2>7. CASE Rotated(r)
    <3>1. PICK t \in Names : req[r].sids = {t} /\ sessions' = [sessions EXCEPT ![t].state = "live"]
      BY <2>7 DEF Rotated
    <3>2. s = t
      BY <3>1 DEF TypeInv
    <3> QED
      BY <2>1, <2>7, <3>1, <3>2 DEF Rotated, Rotate, SessionOK
  <2>8. CASE sessions' = sessions
    BY <2>8
  <2> QED
    BY <2>3, <2>4, <2>5, <2>6, <2>7, <2>8
       DEF Family, Arrival, Quit, Resumed, RolledBack, Counted, Count, Found, Replaced, Replace, Marked,
           MarkUsed, Trusted, Trust, Forgotten, RevokeDevices, Created, CreateCode, session_
<1> QED
  BY <1>1, AuthInvariant, PTL DEF Spec, RevocationsLast

\* A code that has been consumed is consumed again only by a request that had
\* read it before.
THEOREM SpentOnce == Spec => CodesAreSpentOnce
<1>1. AuthInv /\ [Next]_vars =>
        [\A r \in Requests :
           req[r].pc \in {"save", "mark"} /\ req'[r].pc # req[r].pc /\ req[r].code \in spent =>
             faults' > faults \/ req[r].missed \intersect {"verify", "reset", "password", "challenge"} # {}]_vars
  BY DEF AuthInv, WholeInv, CodeInv, CodeOK
<1> QED
  BY <1>1, AuthInvariant, PTL DEF Spec, CodesAreSpentOnce

=============================================================================
