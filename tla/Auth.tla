-------------------------------- MODULE Auth --------------------------------
(***************************************************************************)
(* One account of the module auth (src/src/modules/auth) and what hangs on *)
(* it: lock, password, second factor, one-time codes, backup codes,        *)
(* trusted devices and sessions.  Requests run concurrently; each reads    *)
(* and writes in several steps, under READ COMMITTED, and every use case   *)
(* saves the whole account row it has read.  The module users writes to    *)
(* the same row, and of these columns only the hash and the flag of the    *)
(* second factor.  A request is served once; the passwords, secrets, codes *)
(* and sessions it makes are named after it.                               *)
(***************************************************************************)
EXTENDS Naturals, FiniteSets

CONSTANTS
  Requests,  \* the requests that arrive
  Start,     \* names what the account had before
  None,
  Agents,    \* fingerprints of user agents
  LockAt,    \* FAILED_LOGIN_LOCKOUT_THRESHOLD: 10
  MaxFaults  \* bound: transactions and listeners that fail

ASSUME AuthAssumption ==
  /\ Start \notin Requests /\ None \notin Requests \union {Start}
  /\ LockAt \in Nat \ {0} /\ MaxFaults \in Nat /\ Agents # {}

Names == Requests \union {Start}

VARIABLES
  account,  \* the auth columns of the row of users
  failures, \* login:fail:<email> in Redis
  otps,     \* one-time codes that are neither used nor expired
  codes,    \* unused backup codes, one for every set of eight
  devices,  \* trusted devices
  sessions, \* auth_sessions
  throttle, \* resend-verify:<email> in Redis: a code was resent this minute
  req,      \* what each request does, and what it holds in memory
  proven,   \* auxiliary: secrets a code was shown to match
  spent,    \* auxiliary: codes that have been consumed
  stray,    \* auxiliary: sessions written by a request that had overlapped the
            \* change of password, or the revocation, and those a change by
            \* link has found
  wrong,    \* auxiliary: wrong passwords counted since the window or the lock
            \* was ended
  crossed,  \* auxiliary: kinds of rows two overlapping requests have written
  faults

vars == <<account, failures, otps, codes, devices, sessions, throttle, req,
          proven, spent, stray, wrong, crossed, faults>>

Accounts == [pwd : Names \union {None}, locked : BOOLEAN, verified : BOOLEAN,
             enabled : BOOLEAN, secret : Names \union {None}]
Purposes == {"verify", "reset", "invite", "link"}
ASSUME NamesAssumption == Names \intersect (Names \X Purposes) = {} \* a name is no pair
Ops == {"new", "login", "google", "link", "lock", "fresh", "change", "reset",
        "verify", "resend", "forgot", "setup", "enable", "disable",
        "regenerate", "challenge", "refresh", "revoke", "device", "unlink",
        "edit", "password", "ask"}
PCs == {"new", "count", "begin", "save", "issue", "find", "update", "create",
        "replace", "mark", "trust", "rotate", "done"}
Sessions == [state : {"none", "live", "revoked"}, by : Names \union {None}, agent : Agents]

SomeAgent == CHOOSE a \in Agents : TRUE
NoSession == [state |-> "none", by |-> Start, agent |-> SomeAgent]
Opened(by, agent) == [state |-> "live", by |-> by, agent |-> agent]

\* Just registered, with the code of the welcome mail.
Registered == [pwd |-> Start, locked |-> FALSE, verified |-> FALSE,
               enabled |-> FALSE, secret |-> None]

\* Made by an administrator, with the code of the invitation.
Invited == [Registered EXCEPT !.pwd = None]

\* What an idle request holds: img and sids are what it has read, missed is
\* what others have committed since its first read, unseen since its
\* transaction has read the row (both auxiliary).
Idle(pc) == [op |-> "new", pc |-> pc, img |-> Registered, sids |-> {},
             code |-> None, missed |-> {}, unseen |-> {}]

\* A new account, one in use, perhaps with a setup begun, and one with its
\* second factor; a code or a link may be pending.
Init ==
  /\ account \in {Registered, Invited, [Registered EXCEPT !.verified = TRUE],
                  [Registered EXCEPT !.verified = TRUE, !.secret = Start],
                  [Registered EXCEPT !.verified = TRUE, !.enabled = TRUE, !.secret = Start]}
  /\ failures = 0
  /\ otps \in {{}, {<<Start, CASE account.verified -> "reset"
                              [] account = Invited -> "invite"
                              [] OTHER -> "verify">>}}
  /\ codes = IF account.enabled THEN {Start} ELSE {}
  /\ devices = codes
  /\ sessions = [s \in Names |-> IF s = Start /\ account.verified
                                 THEN Opened(Start, SomeAgent) ELSE NoSession]
  /\ throttle = FALSE
  /\ req = [r \in Requests |-> Idle("new")]
  /\ proven = codes
  /\ spent = {} /\ stray = {} /\ wrong = {} /\ crossed = {}
  /\ faults = 0

----------------------------------------------------------------------------
(* Bookkeeping of requests.                                                *)

Running(r) == req[r].pc \notin {"new", "done"}
Live == {s \in Names : sessions[s].state = "live"}

\* r goes on as rec; every other request under way misses what r has committed.
Move(r, rec, what) ==
  req' = [q \in Requests |->
            IF q = r THEN rec
            ELSE IF Running(q)
                 THEN [req[q] EXCEPT !.missed = @ \union what, !.unseen = @ \union what]
                 ELSE req[q]]

\* The request reads the account and starts op.
Reading(r, op, pc) ==
  [req[r] EXCEPT !.op = op, !.pc = pc, !.img = account, !.unseen = {}]

At(r, op, pc) == req[r].pc = pc /\ req[r].op = op
Arrives(r) == req[r].pc = "new"
Fault == faults < MaxFaults /\ faults' = faults + 1

account_ == <<account, failures, wrong>>
factors_ == <<codes, devices, proven>>
mail_    == <<otps, throttle, spent>>
session_ == <<sessions, stray>>
rest_    == <<crossed, faults>>

----------------------------------------------------------------------------
(* The transactions that read the account, change it in memory and save it.*)

\* The guards of the aggregate and of the use cases, on the row as read.
Admits(op, a) ==
  CASE op = "lock"    -> ~a.locked
    [] op = "verify"  -> ~a.verified
    [] op = "setup"   -> ~a.enabled
    [] op = "enable"  -> ~a.enabled /\ a.secret # None
    [] op = "disable" -> a.enabled
    [] OTHER          -> TRUE

\* MUTANT of Effect: the hash is missing from the patch.
EffectLosesHash(op, a, r) ==
  CASE op = "lock"    -> [a EXCEPT !.locked = TRUE]
    [] op = "fresh"   -> [a EXCEPT !.locked = FALSE]
    [] op \in {"change", "reset"} -> [a EXCEPT !.pwd = {}, !.locked = FALSE]
    [] op = "password" -> [a EXCEPT !.pwd = {}]
    [] op \in {"verify", "link"}  -> [a EXCEPT !.verified = TRUE]
    [] op = "setup"   -> [a EXCEPT !.secret = r]
    [] op = "enable"  -> [a EXCEPT !.enabled = TRUE]
    [] op = "disable" -> [a EXCEPT !.enabled = FALSE, !.secret = None]
    [] op \in {"unlink", "edit"} -> a

\* What the aggregate makes of the row.
Effect(op, a, r) ==
  CASE op = "lock"    -> [a EXCEPT !.locked = TRUE]
    [] op = "fresh"   -> [a EXCEPT !.locked = FALSE]
    [] op \in {"change", "reset"} -> [a EXCEPT !.pwd = r, !.locked = FALSE]
    [] op = "password" -> [a EXCEPT !.pwd = r]
    [] op \in {"verify", "link"}  -> [a EXCEPT !.verified = TRUE]
    [] op = "setup"   -> [a EXCEPT !.secret = r]
    [] op = "enable"  -> [a EXCEPT !.enabled = TRUE]
    [] op = "disable" -> [a EXCEPT !.enabled = FALSE, !.secret = None]
    [] op \in {"unlink", "edit"} -> a

\* What of that the save writes: the users module leaves the other columns.
Columns(op, a) ==
  IF op \in {"edit", "password"}
  THEN [account EXCEPT !.pwd = a.pwd, !.enabled = a.enabled] ELSE a

\* The code findLatestActive returns for the operation, if it needs one.
Needed(op) ==
  CASE op = "verify" -> {o \in otps : o[2] = "verify"}
    [] op = "reset"  -> {o \in otps : o[2] = "reset"}
    [] op = "password" -> {o \in otps : o[2] \in {"invite", "link"}}
    [] OTHER         -> {None}

\* The transaction begins and reads the row, and the code it needs.
Begins(r, op, sids) ==
  /\ Admits(op, account)
  /\ \E o \in Needed(op) : Move(r, [Reading(r, op, "save") EXCEPT !.code = o, !.sids = sids], {})
  /\ UNCHANGED <<account_, factors_, mail_, session_, rest_>>

\* The client knows the password, and its session is the one to keep.
ChangePassword(r) ==
  Arrives(r) /\ account.pwd # None /\ \E s \in Live : Begins(r, "change", {s})
ResetPassword(r)  == Arrives(r) /\ Begins(r, "reset", {})
VerifyEmail(r)    == Arrives(r) /\ Begins(r, "verify", {})
SetupTotp(r)      == Arrives(r) /\ Live # {} /\ Begins(r, "setup", {})
DisableTotp(r)    == Arrives(r) /\ Live # {} /\ Begins(r, "disable", {})
UnlinkGoogle(r)   == Arrives(r) /\ Live # {} /\ Begins(r, "unlink", {})
\* Of the module users: an administrator edits the user, the user sets a
\* password through the link of the invitation or of a mail asked for.
UpdateUser(r)          == Arrives(r) /\ Begins(r, "edit", {})
PasswordThroughLink(r) == Arrives(r) /\ Begins(r, "password", {})

\* A second transaction of the same request reads the row again.
BeginsAgain(r, op) ==
  /\ At(r, op, "begin")
  /\ IF Admits(op, account) THEN Move(r, Reading(r, op, "save"), {}) ELSE Move(r, Idle("done"), {})
  /\ UNCHANGED <<account_, factors_, mail_, session_, rest_>>

\* MUTANT of MarkFresh: the account the login has read is saved.
MarkFreshWithImage(r) ==
  /\ At(r, "fresh", "begin")
  /\ Move(r, [req[r] EXCEPT !.pc = "save", !.unseen = {}], {})
  /\ UNCHANGED <<account_, factors_, mail_, session_, rest_>>

LockAccount(r)  == BeginsAgain(r, "lock")
MarkFresh(r)    == BeginsAgain(r, "fresh")
CommitEnable(r) == BeginsAgain(r, "enable")

\* Where the request goes on after its save has committed.
AfterSave(r) ==
  CASE req[r].op \in {"change", "reset"} -> [req[r] EXCEPT !.pc = "find"]
    [] req[r].op = "link" -> [req[r] EXCEPT !.pc = "issue", !.img.verified = TRUE]
    [] OTHER -> Idle("done")

\* MUTANT of Save: the trusted devices outlive the second factor.
SaveKeepsDevices(r) ==
  LET op == req[r].op IN
  /\ req[r].pc = "save"
  /\ account' = Columns(op, Effect(op, req[r].img, r))
  /\ otps' = otps \ {req[r].code}
  /\ spent' = spent \union ({req[r].code} \ {None})
  /\ codes' = CASE op = "enable" -> {r} [] op = "disable" -> {} [] OTHER -> codes
  /\ sessions' = [s \in Names |-> IF op = "change" /\ s \in req[r].sids
                                  THEN [sessions[s] EXCEPT !.by = r] ELSE sessions[s]]
  /\ stray' = IF op = "password" THEN stray \union Live ELSE stray
  /\ wrong' = IF op \in {"fresh", "change", "reset"} \/ (account.locked /\ ~account'.locked)
              THEN {} ELSE wrong
  /\ crossed' = crossed \union (IF account' = Effect(op, account, r) THEN {}
                        ELSE IF op \in {"edit", "password"} THEN {"row"} ELSE {"account"})
                       \union (IF op = "enable" THEN req[r].missed \intersect {"setup"} ELSE {})
  /\ Move(r, AfterSave(r), {op})
  /\ UNCHANGED <<failures, devices, proven, throttle, faults>>

\* The whole row is written, with the rows of the same transaction, and the
\* transaction commits.  The session that made the change knows the password;
\* a change by link revokes nothing, its event is only logged.
Save(r) ==
  LET op == req[r].op IN
  /\ req[r].pc = "save"
  /\ account' = Columns(op, Effect(op, req[r].img, r))
  /\ otps' = otps \ {req[r].code}
  /\ spent' = spent \union ({req[r].code} \ {None})
  /\ codes' = CASE op = "enable" -> {r} [] op = "disable" -> {} [] OTHER -> codes
  /\ devices' = IF op = "disable" THEN {} ELSE devices
  /\ sessions' = [s \in Names |-> IF op = "change" /\ s \in req[r].sids
                                  THEN [sessions[s] EXCEPT !.by = r] ELSE sessions[s]]
  /\ stray' = IF op = "password" THEN stray \union Live ELSE stray
  /\ wrong' = IF op \in {"fresh", "change", "reset"} \/ (account.locked /\ ~account'.locked)
              THEN {} ELSE wrong
  /\ crossed' = crossed \union (IF account' = Effect(op, account, r) THEN {}
                        ELSE IF op \in {"edit", "password"} THEN {"row"} ELSE {"account"})
                       \union (IF op = "enable" THEN req[r].missed \intersect {"setup"} ELSE {})
  /\ Move(r, AfterSave(r), {op})
  /\ UNCHANGED <<failures, proven, throttle, faults>>

\* PostgreSQL or the strict audit fails.  The event of a change is emitted
\* before the commit, so that its listener may run for a change rolled back.
SaveFails(r) ==
  /\ req[r].pc = "save"
  /\ Fault
  /\ \/ Move(r, Idle("done"), {})
     \/ req[r].op \in {"change", "reset"} /\ Move(r, [req[r] EXCEPT !.pc = "find"], {})
  /\ UNCHANGED <<account_, factors_, mail_, session_, crossed>>

----------------------------------------------------------------------------
(* LoginUseCase, GoogleOAuthCallbackUseCase.                               *)

\* A right password, on an account neither locked nor unverified, clears the
\* failures.
RightPassword(r) ==
  /\ Arrives(r) /\ account.pwd # None
  /\ ~account.locked /\ account.verified
  /\ failures' = 0 /\ wrong' = {}
  /\ Move(r, Reading(r, "login", "issue"), {})
  /\ UNCHANGED <<account, factors_, mail_, session_, rest_>>

\* A wrong one, on an account that is not locked.
WrongPassword(r) ==
  /\ Arrives(r)
  /\ ~account.locked
  /\ Move(r, Reading(r, "login", "count"), {})
  /\ UNCHANGED <<account_, factors_, mail_, session_, rest_>>

\* MUTANT of Count: one failure more is let pass.
CountPastLimit(r) ==
  /\ req[r].pc = "count"
  /\ failures' = failures + 1 /\ wrong' = wrong \union {r}
  /\ Move(r, IF failures' > LockAt THEN [req[r] EXCEPT !.op = "lock", !.pc = "begin"]
             ELSE Idle("done"), {})
  /\ UNCHANGED <<account, factors_, mail_, session_, rest_>>

\* recordFailure, in one step of Redis; the threshold locks.
Count(r) ==
  /\ req[r].pc = "count"
  /\ failures' = failures + 1 /\ wrong' = wrong \union {r}
  /\ Move(r, IF failures' >= LockAt THEN [req[r] EXCEPT !.op = "lock", !.pc = "begin"]
             ELSE Idle("done"), {})
  /\ UNCHANGED <<account, factors_, mail_, session_, rest_>>

\* Google vouches for the mail address: the account is linked, or was before.
\* The lock is not looked at.
Google(r) ==
  /\ Arrives(r)
  /\ Move(r, Reading(r, "link", "save"), {})
     \/ (account.verified /\ Move(r, Reading(r, "google", "issue"), {}))
  /\ UNCHANGED <<account_, factors_, mail_, session_, rest_>>

\* SessionIssuerService.issue, outside any transaction; a login by password
\* goes on with markFresh.
Issue(r) ==
  /\ req[r].pc = "issue"
  /\ \E agent \in Agents : sessions' = [sessions EXCEPT ![r] = Opened(req[r].img.pwd, agent)]
  /\ stray' = IF req[r].missed \intersect {"change", "reset", "password"} # {} THEN stray \union {r} ELSE stray
  /\ Move(r, IF req[r].op = "login" THEN [req[r] EXCEPT !.op = "fresh", !.pc = "begin"]
             ELSE Idle("done"), {})
  /\ UNCHANGED <<account_, factors_, mail_, rest_>>

----------------------------------------------------------------------------
(* Revocation of sessions.                                                 *)

\* The first query, of the sessions to revoke.
Revokes(r, S) ==
  /\ Move(r, [Reading(r, "revoke", "update") EXCEPT !.sids = S], {})
  /\ UNCHANGED <<account_, factors_, mail_, session_, rest_>>

\* The session of the token; every session for a token without one.
Logout(r)        == Arrives(r) /\ \E S \in {Live} \union {{s} : s \in Live} : Revokes(r, S)
\* All of them, or all but the one of the token.
LogoutAll(r)     == Arrives(r) /\ \E S \in {Live} \union {Live \ {s} : s \in Live} : Revokes(r, S)
\* One of the list, which is read first.
RevokeSession(r) == Arrives(r) /\ \E s \in Live : Revokes(r, {s})

\* MUTANT of FindSessions: a change of password revokes nothing.
FindOnReset(r) ==
  /\ req[r].pc = "find"
  /\ Move(r, [req[r] EXCEPT !.pc = "update",
                            !.sids = IF req[r].op = "reset" THEN Live ELSE {}], {})
  /\ UNCHANGED <<account_, factors_, mail_, session_, rest_>>

\* AuthNotificationListener.onPasswordChanged: all the live sessions but the
\* one that made the change.
FindSessions(r) ==
  /\ req[r].pc = "find"
  /\ Move(r, [req[r] EXCEPT !.pc = "update", !.sids = Live \ @], {})
  /\ UNCHANGED <<account_, factors_, mail_, session_, rest_>>

\* The listener fails, which nobody hears of.
FindFails(r) ==
  /\ req[r].pc = "find"
  /\ Fault
  /\ Move(r, Idle("done"), {})
  /\ UNCHANGED <<account_, factors_, mail_, session_, crossed>>

\* updateMany of the sessions found.
UpdateSessions(r) ==
  /\ req[r].pc = "update"
  /\ sessions' = [s \in Names |-> IF s \in req[r].sids
                                  THEN [sessions[s] EXCEPT !.state = "revoked"] ELSE sessions[s]]
  /\ stray' = stray \ req[r].sids
  /\ Move(r, Idle("done"), {"revoke"})
  /\ UNCHANGED <<account_, factors_, mail_, rest_>>

----------------------------------------------------------------------------
(* RefreshTokenUseCase; also the last step of a challenge (upgradeTokens). *)

\* The token of the session is found by its hash, and the session is live.
Refresh(r) ==
  /\ Arrives(r)
  /\ \E s \in Live : Move(r, [Reading(r, "refresh", "rotate") EXCEPT !.sids = {s}], {})
  /\ UNCHANGED <<account_, factors_, mail_, session_, rest_>>

\* The token of a revoked session: every session of the user is revoked, and
\* the exception that follows rolls that back.
RefreshRevoked(r) ==
  /\ Arrives(r)
  /\ \E s \in Names : sessions[s].state = "revoked"
  /\ Move(r, [Idle("done") EXCEPT !.op = "refresh"], {})
  /\ UNCHANGED <<account_, factors_, mail_, session_, rest_>>

\* save() writes the row as it was read, with revokedAt null.
Rotate(r) ==
  LET s == CHOOSE s \in req[r].sids : TRUE IN
  /\ req[r].pc = "rotate"
  /\ sessions' = [sessions EXCEPT ![s].state = "live"]
  /\ stray' = IF req[r].unseen \intersect {"revoke", "change", "reset", "password"} # {}
              THEN stray \union {s} ELSE stray
  /\ Move(r, Idle("done"), {})
  /\ UNCHANGED <<account_, factors_, mail_, rest_>>

----------------------------------------------------------------------------
(* The second factor.                                                      *)

\* MUTANT of EnablePreflight: any six digits will do.
EnableUnproven(r) ==
  /\ Arrives(r) /\ Live # {}
  /\ Admits("enable", account)
  /\ Move(r, Reading(r, "enable", "begin"), {})
  /\ UNCHANGED <<account_, factors_, mail_, session_, rest_>>

\* enable-totp outside its transaction: a code shows that the authenticator has
\* the secret, and the backup codes are made.
EnablePreflight(r) ==
  /\ Arrives(r) /\ Live # {}
  /\ Admits("enable", account)
  /\ proven' = proven \union {account.secret}
  /\ Move(r, Reading(r, "enable", "begin"), {})
  /\ UNCHANGED <<account_, codes, devices, mail_, session_, rest_>>

\* regenerate-backup-codes checks first and replaces later.
Regenerate(r) ==
  /\ Arrives(r) /\ Live # {} /\ account.enabled
  /\ Move(r, Reading(r, "regenerate", "replace"), {})
  /\ UNCHANGED <<account_, factors_, mail_, session_, rest_>>

Replace(r) ==
  /\ req[r].pc = "replace"
  /\ codes' = {r}
  /\ crossed' = IF req[r].missed \intersect {"disable"} # {} THEN crossed \union {"codes"} ELSE crossed
  /\ Move(r, Idle("done"), {"regenerate"})
  /\ UNCHANGED <<account_, devices, proven, mail_, session_, faults>>

\* verify-two-factor-challenge: the account and the session are read, and a
\* code of the authenticator or a backup code is right.
Challenge(r) ==
  /\ Arrives(r) /\ account.enabled
  /\ \E s \in Live :
       \/ Move(r, [Reading(r, "challenge", "trust") EXCEPT !.sids = {s}], {})
       \/ \E c \in codes :
            Move(r, [Reading(r, "challenge", "mark") EXCEPT !.sids = {s}, !.code = c], {})
  /\ UNCHANGED <<account_, factors_, mail_, session_, rest_>>

\* MUTANT of MarkUsed: the backup code stays.
MarkNothing(r) ==
  /\ req[r].pc = "mark"
  /\ spent' = spent \union {req[r].code}
  /\ Move(r, [req[r] EXCEPT !.pc = "trust"], {"challenge"})
  /\ UNCHANGED <<account_, factors_, otps, throttle, session_, rest_>>

\* markUsed: the count of rows it has changed is not looked at.
MarkUsed(r) ==
  /\ req[r].pc = "mark"
  /\ codes' = codes \ {req[r].code}
  /\ spent' = spent \union {req[r].code}
  /\ Move(r, [req[r] EXCEPT !.pc = "trust"], {"challenge"})
  /\ UNCHANGED <<account_, devices, proven, otps, throttle, session_, rest_>>

\* MUTANT of Trust: the session is not read again.
TrustWithImage(r) ==
  /\ req[r].pc = "trust"
  /\ \/ UNCHANGED <<devices, crossed>>
     \/ /\ devices' = devices \union {r}
        /\ crossed' = IF req[r].missed \intersect {"disable"} # {}
                      THEN crossed \union {"devices"} ELSE crossed
  /\ Move(r, [req[r] EXCEPT !.pc = "rotate", !.unseen = {}], {})
  /\ UNCHANGED <<account_, codes, proven, mail_, session_, faults>>

\* The device is trusted if the client asks so, and then upgradeTokens reads
\* the session again: revoked by now, the challenge ends in an error.
Trust(r) ==
  /\ req[r].pc = "trust"
  /\ \/ UNCHANGED <<devices, crossed>>
     \/ /\ devices' = devices \union {r}
        /\ crossed' = IF req[r].missed \intersect {"disable"} # {}
                      THEN crossed \union {"devices"} ELSE crossed
  /\ Move(r, IF req[r].sids \subseteq Live
             THEN [req[r] EXCEPT !.pc = "rotate", !.unseen = {}] ELSE Idle("done"), {})
  /\ UNCHANGED <<account_, codes, proven, mail_, session_, faults>>

\* revoke-trusted-device, all of them or one.
RevokeDevices(r) ==
  /\ Arrives(r) /\ devices # {}
  /\ devices' = {} \/ \E d \in devices : devices' = devices \ {d}
  /\ Move(r, Idle("done"), {"device"})
  /\ UNCHANGED <<account_, codes, proven, mail_, session_, rest_>>

----------------------------------------------------------------------------
(* One-time codes.                                                         *)

\* MUTANT of Resend: no throttle.
ResendAtWill(r) ==
  /\ Arrives(r) /\ ~account.verified
  /\ throttle' = TRUE
  /\ Move(r, [Reading(r, "resend", "create") EXCEPT !.sids = {o[1] : o \in {o \in otps : o[2] = "verify"}}], {})
  /\ UNCHANGED <<account_, factors_, otps, spent, session_, rest_>>

\* resend-verification-code, once a minute, up to invalidatePending.
Resend(r) ==
  /\ Arrives(r) /\ ~account.verified
  /\ ~throttle /\ throttle' = TRUE
  /\ Move(r, [Reading(r, "resend", "create") EXCEPT !.sids = {o[1] : o \in {o \in otps : o[2] = "verify"}}], {})
  /\ UNCHANGED <<account_, factors_, otps, spent, session_, rest_>>

\* request-password-reset, up to invalidatePending: three in a quarter of an
\* hour, so that two of them may overlap.
Forgot(r) ==
  /\ Arrives(r)
  /\ Move(r, [Reading(r, "forgot", "create") EXCEPT !.sids = {o[1] : o \in {o \in otps : o[2] = "reset"}}], {})
  /\ UNCHANGED <<account_, factors_, mail_, session_, rest_>>

\* request-password-change, of the module users: the links of invitations stay.
AskForLink(r) ==
  /\ Arrives(r)
  /\ Move(r, [Reading(r, "ask", "create") EXCEPT !.sids = {o[1] : o \in {o \in otps : o[2] = "link"}}], {})
  /\ UNCHANGED <<account_, factors_, mail_, session_, rest_>>

\* The codes that were pending are used up, the new one is there, commit.
CreateCode(r) ==
  LET p == CASE req[r].op = "resend" -> "verify" [] req[r].op = "forgot" -> "reset"
             [] req[r].op = "ask" -> "link" IN
  /\ req[r].pc = "create"
  /\ otps' = (otps \ {<<n, p>> : n \in req[r].sids}) \union {<<r, p>>}
  /\ crossed' = IF req[r].missed \intersect {req[r].op} # {} THEN crossed \union {p} ELSE crossed
  /\ Move(r, Idle("done"), {req[r].op})
  /\ UNCHANGED <<account_, factors_, throttle, spent, session_, faults>>

----------------------------------------------------------------------------

\* The quarter of an hour of the lock and of the failures, and the minute of
\* the throttle, pass between requests: a request takes less.
TimePasses ==
  /\ \A r \in Requests : ~Running(r)
  /\ account.locked \/ failures > 0 \/ throttle
  /\ account' = [account EXCEPT !.locked = FALSE]
  /\ failures' = 0 /\ wrong' = {} /\ throttle' = FALSE
  /\ UNCHANGED <<otps, spent, factors_, session_, req, rest_>>

Step(r) ==
  \/ ChangePassword(r) \/ ResetPassword(r) \/ VerifyEmail(r)
  \/ SetupTotp(r) \/ DisableTotp(r) \/ UnlinkGoogle(r)
  \/ UpdateUser(r) \/ PasswordThroughLink(r) \/ AskForLink(r)
  \/ LockAccount(r) \/ MarkFresh(r) \/ CommitEnable(r) \/ Save(r) \/ SaveFails(r)
  \/ RightPassword(r) \/ WrongPassword(r) \/ Count(r) \/ Google(r) \/ Issue(r)
  \/ Logout(r) \/ LogoutAll(r) \/ RevokeSession(r) \/ FindSessions(r) \/ FindFails(r) \/ UpdateSessions(r)
  \/ Refresh(r) \/ RefreshRevoked(r) \/ Rotate(r)
  \/ EnablePreflight(r) \/ Regenerate(r) \/ Replace(r)
  \/ Challenge(r) \/ MarkUsed(r) \/ Trust(r) \/ RevokeDevices(r)
  \/ Resend(r) \/ Forgot(r) \/ CreateCode(r)

Next == TimePasses \/ \E r \in Requests : Step(r)

Spec == Init /\ [][Next]_vars

----------------------------------------------------------------------------
(* Properties.                                                             *)

\* Every variable keeps its type.
TypeOK ==
  /\ account \in Accounts /\ failures \in Nat /\ throttle \in BOOLEAN
  /\ otps \subseteq Names \X Purposes
  /\ {codes, devices, stray} \subseteq SUBSET Names /\ proven \subseteq Names
  /\ sessions \in [Names -> Sessions]
  /\ \A r \in Requests :
       /\ req[r].op \in Ops /\ req[r].pc \in PCs /\ req[r].img \in Accounts
       /\ req[r].sids \subseteq Names
       /\ req[r].missed \union req[r].unseen \subseteq Ops
  /\ wrong \subseteq Requests /\ faults \in 0 .. MaxFaults

\* Saves of whole rows lose nothing but to an overlap: what a save makes of the
\* account is what its operation makes of the row as it is, unless another
\* request has committed since this transaction began.
SavesLoseOnlyToOverlap ==
  [][\A r \in Requests :
       req[r].pc = "save" /\ req'[r].pc # "save" /\ account' # account =>
         \/ account' = Effect(req[r].op, account, r)
         \/ req[r].unseen # {}]_vars

\* "reset always revokes EVERY session", and a change all the others: a live
\* session knows the password in force, unless its revocation is under way or
\* was lost to a fault, the session was written by a request that overlapped
\* the change or has outlived a change by link, or an overlapping save has
\* brought the old password back.
SessionsKnowThePassword ==
  \A s \in Live :
    \/ sessions[s].by = account.pwd \/ s \in stray \/ faults > 0
    \/ {"account", "row"} \intersect crossed # {}
    \/ \E r \in Requests : req[r].pc = "find" \/ (req[r].pc = "update" /\ s \in req[r].sids)

\* A revoked session comes back to life only by a rotation that had read it
\* before it was revoked.
RevocationsLast ==
  [][\A s \in Names :
       sessions[s].state = "revoked" /\ sessions'[s].state = "live" =>
         \E r \in Requests : req[r].pc = "rotate" /\ s \in req[r].sids
                             /\ "revoke" \in req[r].unseen]_vars

\* The second factor is on only with a secret, which a code has proven to be
\* in the authenticator, unless another setup has come between the proof and
\* the commit, or an edit of the user has brought the flag back without it.
SecretIsProven ==
  account.enabled =>
    /\ account.secret # None \/ "row" \in crossed
    /\ account.secret \in proven \/ {"setup", "account", "row"} \intersect crossed # {}

\* "wipe every backup code, wipe every trusted-device row": neither outlives
\* the second factor, unless the request that made it overlapped its end.
FactorsEndTogether ==
  ~account.enabled =>
    /\ codes = {} \/ {"codes", "account", "row"} \intersect crossed # {}
    /\ devices = {} \/ {"devices", "account", "row"} \intersect crossed # {}

\* A one-time code or a backup code that has been consumed is consumed again
\* only by a request that had read it before.
CodesAreSpentOnce ==
  [][\A r \in Requests :
       req[r].pc \in {"save", "mark"} /\ req'[r].pc # req[r].pc /\ req[r].code \in spent =>
         faults' > faults \/ req[r].missed \intersect {"verify", "reset", "password", "challenge"} # {}]_vars

\* "one valid code at a time": of any purpose, unless two requests for a reset
\* or for a link have overlapped; the throttle keeps requests to verify apart.
OneCodeAtATime ==
  \A p \in Purposes :
    Cardinality({o \in otps : o[2] = p}) <= 1 \/ (p # "verify" /\ p \in crossed)

\* As many wrong passwords as the limit lock the account, once the requests
\* are through: none of them is lost to the others.
FailuresLock ==
  (\A r \in Requests : ~Running(r)) /\ Cardinality(wrong) >= LockAt =>
    account.locked \/ faults > 0

\* The account is whole: its second factor has a secret that was proven and ends
\* with its codes and devices, its codes are single, and its failures lock it.
AccountIsWhole ==
  TypeOK /\ SecretIsProven /\ FactorsEndTogether /\ OneCodeAtATime /\ FailuresLock

=============================================================================
