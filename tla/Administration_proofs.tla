------------------------ MODULE Administration_proofs ------------------------
(***************************************************************************)
(* What Access and the parts of Backoffice guarantee, for any users,       *)
(* roles, rows and any number of requests, runs and faults: the rules a    *)
(* request is judged by are true, files and rows stay together, notices    *)
(* tell what has happened, writes are lost only to overlap, the seed fits  *)
(* the routes and can be run again, and readers of lists see every row.    *)
(***************************************************************************)
EXTENDS Access, Backoffice, Sequences, SequenceTheorems, FiniteSetTheorems, TLAPS


----------------------------------------------------------------------------
(* The inductive invariant.                                                *)

CheckType == [pc : {"new", "get", "perms", "direct", "put", "done"}, user : Users \union {Absent},
              ids : SUBSET Roles, rules : RuleSets, held : SUBSET Perms, changes : 0 .. 2]
ChangeType == [pc : {"new", "del", "scan", "exec", "done"}, users : SUBSET Users]

RowsType ==
  /\ role \in [Roles -> [live : BOOLEAN, perms : SUBSET Perms]]
  /\ holds \in [Users -> SUBSET Roles]
  /\ direct \in [Users -> [Perms -> {"none", "grant", "deny"}]]

TypeInv ==
  /\ RowsType
  /\ cache \in [Users -> RuleSets \union {Absent}]
  /\ late \subseteq {u \in Users : cache[u] # Absent}
  /\ check \in [Checks -> CheckType]
  /\ \A k \in Checks : Started(check[k]) => check[k].user \in Users
  /\ change \in [Changes -> ChangeType]
  /\ losses \in 0 .. MaxLosses

\* The entry of u is going to be removed.
Pending(c, u) == change[c].pc \in {"del", "scan", "exec"} /\ u \in change[c].users

\* What is stored is true, noted as late, or going to be removed.
CacheInv ==
  /\ \A c \in Changes : change[c].pc = "scan" => change[c].users = Users
  /\ \A u \in Users : cache[u] \in {Absent, Truth(u)} \/ u \in late \/ \E c \in Changes : Pending(c, u)

\* What a request ends up with if nothing changes any more.
Outcome(rec) ==
  CASE rec.pc \in {"get", "perms"} -> (PermsOf(rec.ids) \union Granted(rec.user)) \ Denied(rec.user)
    [] rec.pc = "direct"           -> (rec.rules.allow \union Granted(rec.user)) \ Denied(rec.user)
    [] rec.pc = "put"              -> Allowed(rec.rules)

\* What a request has read, as long as nothing has changed.
AsItIs(rec) ==
  /\ rec.ids = LiveRoles(rec.user)
  /\ rec.pc = "direct" => rec.rules.allow = PermsOf(rec.ids)
  /\ rec.pc = "put" => rec.rules = Truth(rec.user)

CheckOK(rec) ==
  Started(rec) =>
    /\ Holds(rec.user) \subseteq rec.held
    /\ rec.changes = 0 => AsItIs(rec)
    /\ rec.changes < 2 => Outcome(rec) \subseteq rec.held

AccessInv == TypeInv /\ CacheInv /\ \A k \in Checks : CheckOK(check[k])

----------------------------------------------------------------------------
(* Rules and what they allow.                                              *)

LEMMA LiveAreRoles == RowsType => \A u \in Users : LiveRoles(u) \subseteq Roles
BY DEF RowsType, LiveRoles

LEMMA PermsArePerms == RowsType => \A ids \in SUBSET Roles : PermsOf(ids) \subseteq Perms
BY DEF RowsType, PermsOf

LEMMA TruthIsRules == RowsType => \A u \in Users : Truth(u) \in RuleSets
<1> SUFFICES ASSUME RowsType, NEW u \in Users
             PROVE  Truth(u) \in RuleSets
  OBVIOUS
<1>1. PermsOf(LiveRoles(u)) \subseteq Perms
  BY LiveAreRoles, PermsArePerms
<1>2. Granted(u) \subseteq Perms /\ Denied(u) \subseteq Perms
  BY DEF Granted, Denied
<1> QED
  BY <1>1, <1>2 DEF Truth, RuleSets

\* A super-admin may do everything, everybody else what the rules allow.
LEMMA TruthIsHeld == RowsType => \A u \in Users : Allowed(Truth(u)) \subseteq Holds(u) /\ Holds(u) \subseteq Perms
<1> SUFFICES ASSUME RowsType, NEW u \in Users
             PROVE  Allowed(Truth(u)) \subseteq Holds(u) /\ Holds(u) \subseteq Perms
  OBVIOUS
<1>1. Truth(u) \in RuleSets
  BY TruthIsRules
<1>2. Allowed(Truth(u)) \subseteq Perms
  BY <1>1 DEF RuleSets, Allowed
<1> QED
  BY <1>2 DEF Holds

LEMMA AllowedIsHeld == RowsType => \A v \in Users : Allowed(Truth(v)) \subseteq Holds(v)
BY TruthIsHeld

LEMMA HeldArePerms == RowsType => \A u \in Users : Holds(u) \subseteq Perms
BY TruthIsHeld

\* Without a change of the rows, the rules are the same.
LEMMA SameRules ==
  ASSUME UNCHANGED <<role, holds, direct>>
  PROVE  /\ \A u : /\ LiveRoles(u)' = LiveRoles(u) /\ Granted(u)' = Granted(u) /\ Denied(u)' = Denied(u)
                   /\ Truth(u)' = Truth(u) /\ Holds(u)' = Holds(u)
         /\ \A ids : PermsOf(ids)' = PermsOf(ids)
         /\ RowsType => RowsType'
BY DEF LiveRoles, Granted, Denied, Truth, Holds, PermsOf, Allowed, RowsType

----------------------------------------------------------------------------
(* What the commits of administrators do to the rules of a user.           *)

\* The users whose rules the step may change.
Concerns(c, users) == \E next \in {"del", "scan"} : Committed(c, users, next) /\ (next = "scan" => users = Users)

\* Mixed rules: the roles and perhaps their permissions are of before the commit.
LEMMA CommitMixes ==
  ASSUME RowsType, RowsType', NEW c \in Changes, Administrate(c), NEW u \in Users, NEW ids, ids = LiveRoles(u),
         NEW old, old = PermsOf(ids)
  PROVE  LET held == Allowed(Truth(u)) \union Allowed(Truth(u)') IN
         /\ (PermsOf(ids)' \union Granted(u)') \ Denied(u)' \subseteq held
         /\ (old \union Granted(u)') \ Denied(u)' \subseteq held
<1> DEFINE before == (old \union Granted(u)) \ Denied(u)
           after  == (PermsOf(LiveRoles(u)) \union Granted(u))' \ Denied(u)'
<1>1. before = Allowed(Truth(u)) /\ after = Allowed(Truth(u)')
  BY DEF Truth, Allowed
<1>2. SUFFICES /\ (PermsOf(ids)' \union Granted(u)') \ Denied(u)' \subseteq before \union after
               /\ (old \union Granted(u)') \ Denied(u)' \subseteq before \union after
  BY <1>1
<1> HIDE DEF before, after
<1>3. ASSUME NEW r \in Roles, NEW perms \in SUBSET Perms, SetPermissions(c, r, perms)
      PROVE  /\ (PermsOf(ids)' \union Granted(u)') \ Denied(u)' \subseteq before \union after
             /\ (old \union Granted(u)') \ Denied(u)' \subseteq before \union after
  <2>1. Granted(u)' = Granted(u) /\ Denied(u)' = Denied(u)
    BY <1>3 DEF SetPermissions, Granted, Denied
  <2>2. LiveRoles(u)' = ids
    BY <1>3 DEF SetPermissions, LiveRoles, RowsType
  <2>3. PermsOf(LiveRoles(u))' = PermsOf(ids)'
    BY <2>2 DEF PermsOf
  <2> QED
    BY <2>1, <2>3 DEF before, after
<1>4. ASSUME NEW R \in SUBSET Roles, NEW live \in BOOLEAN, SetLive(c, R, live)
      PROVE  /\ (PermsOf(ids)' \union Granted(u)') \ Denied(u)' \subseteq before \union after
             /\ (old \union Granted(u)') \ Denied(u)' \subseteq before \union after
  <2>1. Granted(u)' = Granted(u) /\ Denied(u)' = Denied(u)
    BY <1>4 DEF SetLive, Granted, Denied
  <2>2. \A r \in Roles : role'[r].perms = role[r].perms
    BY <1>4 DEF SetLive, RowsType
  <2>3. PermsOf(ids)' = old
    BY <2>2, LiveAreRoles DEF PermsOf
  <2> QED
    BY <2>1, <2>3 DEF before
<1>5. ASSUME NEW v \in Users, NEW R \in SUBSET Roles, NEW grants \in SUBSET Perms, UpdateUser(c, v, R, grants)
      PROVE  /\ (PermsOf(ids)' \union Granted(u)') \ Denied(u)' \subseteq before \union after
             /\ (old \union Granted(u)') \ Denied(u)' \subseteq before \union after
  <2>1. Denied(u)' = Denied(u)
    BY <1>5 DEF UpdateUser, Denied, RowsType
  <2>2. PermsOf(ids)' = old
    BY <1>5 DEF UpdateUser, PermsOf
  <2> QED
    BY <2>1, <2>2 DEF before, after
<1>6. ASSUME NEW v \in Users, NEW p \in Perms, NEW how \in {"none", "grant", "deny"}, SetDirect(c, v, p, how)
      PROVE  /\ (PermsOf(ids)' \union Granted(u)') \ Denied(u)' \subseteq before \union after
             /\ (old \union Granted(u)') \ Denied(u)' \subseteq before \union after
  <2>1. LiveRoles(u)' = ids /\ PermsOf(ids)' = old
    BY <1>6 DEF SetDirect, LiveRoles, PermsOf
  <2>2. PermsOf(LiveRoles(u))' = PermsOf(ids)'
    BY <2>1 DEF PermsOf
  <2> QED
    BY <2>1, <2>2 DEF after
<1> QED
  BY <1>3, <1>4, <1>5, <1>6 DEF Administrate

\* A commit concerns some users, and changes nothing for the others.
Unconcerned(u) ==
  /\ LiveRoles(u)' = LiveRoles(u) /\ Granted(u)' = Granted(u) /\ Denied(u)' = Denied(u)
  /\ Truth(u)' = Truth(u) /\ Holds(u)' = Holds(u)
  /\ \A ids : PermsOf(ids)' = PermsOf(ids)

LEMMA CommitConcerns ==
  ASSUME RowsType, NEW c \in Changes, Administrate(c)
  PROVE  RowsType' /\ \E users \in SUBSET Users : Concerns(c, users) /\ \A u \in Users \ users : Unconcerned(u)
<1>1. ASSUME NEW r \in Roles, NEW perms \in SUBSET Perms, SetPermissions(c, r, perms)
      PROVE  RowsType' /\ Concerns(c, Users)
  BY <1>1 DEF SetPermissions, RowsType, Concerns
<1>2. ASSUME NEW R \in SUBSET Roles, NEW live \in BOOLEAN, SetLive(c, R, live)
      PROVE  RowsType' /\ Concerns(c, Users)
  BY <1>2 DEF SetLive, RowsType, Concerns
<1>3. ASSUME NEW v \in Users, UNCHANGED role, \A u \in Users \ {v} : holds'[u] = holds[u] /\ direct'[u] = direct[u]
      PROVE  \A u \in Users \ {v} : Unconcerned(u)
  BY <1>3 DEF Unconcerned, LiveRoles, Granted, Denied, Truth, Holds, PermsOf, Allowed
<1>4. ASSUME NEW v \in Users, NEW R \in SUBSET Roles, NEW grants \in SUBSET Perms, UpdateUser(c, v, R, grants)
      PROVE  /\ RowsType' /\ Concerns(c, {v}) /\ UNCHANGED role
             /\ \A u \in Users \ {v} : holds'[u] = holds[u] /\ direct'[u] = direct[u]
  <2>1. RowsType' /\ UNCHANGED role
    BY <1>4 DEF UpdateUser, RowsType
  <2>2. \A u \in Users \ {v} : holds'[u] = holds[u] /\ direct'[u] = direct[u]
    BY <1>4 DEF UpdateUser, RowsType
  <2> QED
    BY <1>4, <2>1, <2>2 DEF UpdateUser, Concerns
<1>5. ASSUME NEW v \in Users, NEW p \in Perms, NEW how \in {"none", "grant", "deny"}, SetDirect(c, v, p, how)
      PROVE  /\ RowsType' /\ Concerns(c, {v}) /\ UNCHANGED role
             /\ \A u \in Users \ {v} : holds'[u] = holds[u] /\ direct'[u] = direct[u]
  BY <1>5 DEF SetDirect, RowsType, Concerns
<1>6. ASSUME NEW v \in Users, RowsType', Concerns(c, {v}), UNCHANGED role,
             \A u \in Users \ {v} : holds'[u] = holds[u] /\ direct'[u] = direct[u]
      PROVE  \E users \in SUBSET Users : Concerns(c, users) /\ \A u \in Users \ users : Unconcerned(u)
  <2>1. \A u \in Users \ {v} : Unconcerned(u)
    BY <1>3, <1>6
  <2> QED
    BY <1>6, <2>1
<1>7. ASSUME Concerns(c, Users)
      PROVE  \E users \in SUBSET Users : Concerns(c, users) /\ \A u \in Users \ users : Unconcerned(u)
  BY <1>7
<1>8. CASE \E v \in Users : \/ \E R \in SUBSET Roles, grants \in SUBSET Perms : UpdateUser(c, v, R, grants)
                            \/ \E p \in Perms, how \in {"none", "grant", "deny"} : SetDirect(c, v, p, how)
  BY <1>4, <1>5, <1>6, <1>8
<1>9. CASE \/ \E r \in Roles, perms \in SUBSET Perms : SetPermissions(c, r, perms)
           \/ \E R \in SUBSET Roles, live \in BOOLEAN : SetLive(c, R, live)
  BY <1>1, <1>2, <1>7, <1>9
<1> QED
  BY <1>8, <1>9 DEF Administrate

----------------------------------------------------------------------------
(* The types.                                                              *)

LEMMA TypeInit == Init => TypeInv
<1> SUFFICES ASSUME Init
             PROVE  TypeInv
  OBVIOUS
<1>1. RowsType
  BY DEF Init, RowsType
<1>2. NewCheck \in CheckType /\ ~Started(NewCheck)
  BY DEF NewCheck, CheckType, NoRules, RuleSets, Started
<1> QED
  BY <1>1, <1>2, AccessAssumption DEF Init, TypeInv, ChangeType

\* The requests that have begun are noticed to be of another time.
LEMMA NoticedKnows ==
  ASSUME TypeInv, RowsType', NEW users \in SUBSET Users, Noticed(users), NEW k \in Checks
  PROVE  /\ Started(check[k]) /\ check[k].user \in users =>
              /\ check'[k].held = check[k].held \union Holds(check[k].user)'
              /\ check'[k].changes = IF check[k].changes = 2 THEN 2 ELSE check[k].changes + 1
              /\ check'[k].pc = check[k].pc /\ check'[k].user = check[k].user
              /\ check'[k].ids = check[k].ids /\ check'[k].rules = check[k].rules
         /\ ~(Started(check[k]) /\ check[k].user \in users) => check'[k] = check[k]
         /\ check'[k] \in CheckType
<1> PICK rec \in CheckType : rec = check[k] /\ (Started(rec) => rec.user \in Users)
  BY DEF TypeInv
<1> DEFINE new == [rec EXCEPT !.held = @ \union [u \in Users |-> Holds(u)'][rec.user],
                              !.changes = IF @ = 2 THEN 2 ELSE @ + 1]
<1>1. check'[k] = IF Started(rec) /\ rec.user \in users THEN new ELSE rec
  BY DEF Noticed
<1>2. CASE Started(rec) /\ rec.user \in users
  <2>1. PICK held : held = Holds(rec.user)' /\ held \subseteq Perms
    <3>1. (RowsType => \A u \in Users : Holds(u) \subseteq Perms)'
      BY HeldArePerms, PTL
    <3> QED
      BY <1>2, <3>1
  <2>2. check'[k] = [rec EXCEPT !.held = @ \union held, !.changes = IF @ = 2 THEN 2 ELSE @ + 1]
    BY <1>1, <1>2, <2>1
  <2>3. /\ check'[k].held = rec.held \union held
        /\ check'[k].changes = IF rec.changes = 2 THEN 2 ELSE rec.changes + 1
        /\ check'[k].pc = rec.pc /\ check'[k].user = rec.user
        /\ check'[k].ids = rec.ids /\ check'[k].rules = rec.rules
    BY <2>2 DEF CheckType
  <2>4. rec.changes \in {0, 1, 2} /\ rec.held \subseteq Perms
    BY DEF CheckType
  <2>5. PICK n \in 0 .. 2 : n = (IF rec.changes = 2 THEN 2 ELSE rec.changes + 1)
    BY <2>4
  <2>6. check'[k] \in CheckType
    <3>1. check'[k] = [rec EXCEPT !.held = @ \union held, !.changes = n]
      BY <2>2, <2>5
    <3>2. PICK h \in SUBSET Perms : h = rec.held \union held
      BY <2>1, <2>4
    <3>3. check'[k] = [rec EXCEPT !.held = h, !.changes = n]
      BY <3>1, <3>2
    <3> QED
      BY <3>3 DEF CheckType
  <2> QED
    BY <1>2, <2>1, <2>3, <2>6
<1>3. CASE ~(Started(rec) /\ rec.user \in users)
  BY <1>1, <1>3
<1> QED
  BY <1>2, <1>3

LEMMA TypeStep == TypeInv /\ [Next]_vars => TypeInv'
<1> SUFFICES ASSUME TypeInv, [Next]_vars
             PROVE  TypeInv'
  OBVIOUS
<1> USE AccessAssumption
<1> RowsType
  BY DEF TypeInv
<1>1. ASSUME NEW k \in Checks, NEW u \in Users, ReadRoles(k, u)
      PROVE  TypeInv'
  <2>1. LiveRoles(u) \subseteq Roles /\ Holds(u) \subseteq Perms
    BY LiveAreRoles, TruthIsHeld
  <2>2. [NewCheck EXCEPT !.pc = "get", !.user = u, !.ids = LiveRoles(u), !.held = Holds(u)] \in CheckType
    <3>1. PICK ids \in SUBSET Roles, held \in SUBSET Perms : ids = LiveRoles(u) /\ held = Holds(u)
      BY <2>1
    <3>2. NewCheck \in CheckType
      BY DEF NewCheck, CheckType, NoRules, RuleSets
    <3> QED
      BY <3>1, <3>2 DEF CheckType
  <2>3. [NewCheck EXCEPT !.pc = "get", !.user = u, !.ids = LiveRoles(u), !.held = Holds(u)].user \in Users
    BY DEF NewCheck
  <2> QED
    BY <1>1, <2>2, <2>3 DEF ReadRoles, TypeInv, RowsType
<1>2. ASSUME NEW k \in Checks, Done(k)
      PROVE  check' \in [Checks -> CheckType] /\ \A j \in Checks : Started(check'[j]) => check'[j].user \in Users
  <2>1. [NewCheck EXCEPT !.pc = "done"] \in CheckType /\ ~Started([NewCheck EXCEPT !.pc = "done"])
    BY DEF NewCheck, CheckType, NoRules, RuleSets, Started
  <2> QED
    BY <1>2, <2>1 DEF Done, TypeInv
<1>3. ASSUME NEW k \in Checks, Hit(k) \/ PutFails(k)
      PROVE  TypeInv'
  BY <1>2, <1>3 DEF Hit, PutFails, Fault, TypeInv, RowsType
<1>4. ASSUME NEW k \in Checks, Put(k)
      PROVE  TypeInv'
  <2>1. PICK rec \in CheckType : rec = check[k] /\ rec.user \in Users /\ rec.rules \in RuleSets
    BY <1>4 DEF Put, TypeInv, Started, CheckType
  <2>2. rec.rules # Absent
    BY <2>1, AbsentAssumption
  <2>3. /\ cache' \in [Users -> RuleSets \union {Absent}]
        /\ late' \subseteq {u \in Users : cache'[u] # Absent}
    BY <1>4, <2>1, <2>2 DEF Put, TypeInv
  <2> QED
    BY <1>2, <1>4, <2>3 DEF Put, TypeInv, RowsType
<1>5. ASSUME NEW k \in Checks, Miss(k) \/ ReadPerms(k) \/ ReadDirect(k)
      PROVE  TypeInv'
  <2>1. PICK rec \in CheckType : rec = check[k] /\ rec.user \in Users
    BY <1>5 DEF Miss, ReadPerms, ReadDirect, TypeInv, Started
  <2>2. /\ PermsOf(rec.ids) \subseteq Perms
        /\ Granted(rec.user) \subseteq Perms /\ Denied(rec.user) \subseteq Perms
    BY PermsArePerms DEF CheckType, Granted, Denied
  <2>3. check'[k] \in CheckType /\ check'[k].user = rec.user
    <3>1. CASE Miss(k)
      BY <2>1, <3>1 DEF Miss, CheckType, TypeInv
    <3>2. CASE ReadPerms(k)
      BY <2>1, <2>2, <3>2 DEF ReadPerms, CheckType, RuleSets, TypeInv
    <3>3. CASE ReadDirect(k)
      BY <2>1, <2>2, <3>3 DEF ReadDirect, CheckType, RuleSets, TypeInv
    <3> QED
      BY <1>5, <3>1, <3>2, <3>3
  <2>4. /\ \A j \in Checks \ {k} : check'[j] = check[j]
        /\ \E r : check' = [check EXCEPT ![k] = r]
    BY <1>5 DEF Miss, ReadPerms, ReadDirect, TypeInv
  <2>5. check' \in [Checks -> CheckType] /\ \A j \in Checks : Started(check'[j]) => check'[j].user \in Users
    BY <2>1, <2>3, <2>4 DEF TypeInv
  <2>6. losses' \in 0 .. MaxLosses
    BY <1>5 DEF Miss, ReadPerms, ReadDirect, Fault, TypeInv
  <2> QED
    BY <1>5, <2>5, <2>6 DEF Miss, ReadPerms, ReadDirect, TypeInv, RowsType
<1>6. ASSUME NEW c \in Changes, Administrate(c)
      PROVE  TypeInv'
  <2>1. PICK users \in SUBSET Users : Concerns(c, users) /\ RowsType'
    BY <1>6, CommitConcerns
  <2>2. PICK next \in {"del", "scan"} : Committed(c, users, next)
    BY <2>1 DEF Concerns
  <2>3. \A k \in Checks : check'[k] \in CheckType /\ (Started(check'[k]) => check'[k].user \in Users)
    BY <2>1, <2>2, NoticedKnows DEF Committed, TypeInv, Started
  <2>4. check' \in [Checks -> CheckType]
    BY <2>2, <2>3 DEF Committed, Noticed
  <2>5. change' \in [Changes -> ChangeType]
    BY <2>2 DEF Committed, TypeInv, ChangeType
  <2> QED
    BY <2>1, <2>2, <2>3, <2>4, <2>5 DEF Committed, TypeInv
<1>7. ASSUME NEW c \in Changes, Delete(c) \/ Exec(c)
      PROVE  TypeInv'
  <2>1. /\ cache' \in [Users -> RuleSets \union {Absent}]
        /\ late' \subseteq {u \in Users : cache'[u] # Absent}
    BY <1>7 DEF Delete, Exec, Drop, TypeInv
  <2>2. [pc |-> "done", users |-> {}] \in ChangeType
    BY DEF ChangeType
  <2>3. change' \in [Changes -> ChangeType]
    BY <1>7, <2>2 DEF Delete, Exec, TypeInv
  <2>4. UNCHANGED <<role, holds, direct, check, losses>>
    BY <1>7 DEF Delete, Exec
  <2> QED
    BY <2>1, <2>3, <2>4 DEF TypeInv, RowsType
<1>8. ASSUME NEW c \in Changes, Scan(c)
      PROVE  TypeInv'
  BY <1>8 DEF Scan, TypeInv, ChangeType, RowsType
<1>9. ASSUME NEW c \in Changes, InvalidationLost(c)
      PROVE  TypeInv'
  BY <1>9 DEF InvalidationLost, Fault, TypeInv, ChangeType, RowsType
<1>10. ASSUME NEW u \in Users, Expire(u)
       PROVE  TypeInv'
  BY <1>10 DEF Expire, TypeInv, RowsType
<1>11. CASE UNCHANGED vars
  BY <1>11 DEF vars, TypeInv, RowsType
<1> QED
  BY <1>1, <1>3, <1>4, <1>5, <1>6, <1>7, <1>8, <1>9, <1>10, <1>11 DEF Next

----------------------------------------------------------------------------
(* The cache.                                                              *)

\* The rows are as they were.
Calm == UNCHANGED <<role, holds, direct>>

LEMMA CacheStep == TypeInv /\ CacheInv /\ (\A k \in Checks : CheckOK(check[k])) /\ [Next]_vars => CacheInv'
<1> SUFFICES ASSUME TypeInv, CacheInv, \A k \in Checks : CheckOK(check[k]), [Next]_vars
             PROVE  CacheInv'
  OBVIOUS
<1> DEFINE Fine(u) == cache[u] \in {Absent, Truth(u)} \/ u \in late \/ \E c \in Changes : Pending(c, u)
           Scans == \A c \in Changes : change[c].pc = "scan" => change[c].users = Users
<1> RowsType /\ Scans /\ \A u \in Users : Fine(u)
  BY DEF TypeInv, CacheInv
<1>1. SUFFICES Scans' /\ \A u \in Users : Fine(u)'
  BY DEF CacheInv
<1>2. ASSUME Calm, UNCHANGED change, NEW u \in Users, cache'[u] \in {Absent, cache[u]},
             cache'[u] = Absent \/ (u \in late => u \in late')
      PROVE  Fine(u)'
  <2>1. Truth(u)' = Truth(u)
    BY <1>2, SameRules DEF Calm
  <2> QED
    BY <1>2, <2>1 DEF Pending
<1>3. ASSUME NEW k \in Checks,
             (\E u \in Users : ReadRoles(k, u)) \/ Hit(k) \/ Miss(k) \/ ReadPerms(k) \/ ReadDirect(k) \/ PutFails(k)
      PROVE  Scans' /\ \A u \in Users : Fine(u)'
  <2>1. Calm /\ UNCHANGED <<cache, late, change>>
    BY <1>3 DEF ReadRoles, Hit, Miss, ReadPerms, ReadDirect, PutFails, Calm
  <2> QED
    BY <1>2, <2>1
<1>4. ASSUME NEW k \in Checks, Put(k)
      PROVE  Scans' /\ \A u \in Users : Fine(u)'
  <2>1. Calm /\ UNCHANGED change
    BY <1>4 DEF Put, Calm
  <2>2. PICK rec \in CheckType : rec = check[k] /\ rec.user \in Users /\ CheckOK(rec) /\ rec.pc = "put"
    BY <1>4 DEF Put, TypeInv, Started
  <2>3. cache' = [cache EXCEPT ![rec.user] = rec.rules]
    BY <1>4, <2>2 DEF Put
  <2>4. rec.changes = 0 => rec.rules = Truth(rec.user)
    BY <2>2 DEF CheckOK, Started, AsItIs
  <2>5. ASSUME rec.changes = 0
        PROVE  Fine(rec.user)'
    <3>1. cache'[rec.user] = Truth(rec.user)
      BY <2>2, <2>3, <2>4, <2>5 DEF TypeInv
    <3>2. Truth(rec.user)' = Truth(rec.user)
      BY <2>1, SameRules DEF Calm
    <3> QED
      BY <3>1, <3>2
  <2>6. ASSUME rec.changes # 0
        PROVE  Fine(rec.user)'
    <3>1. rec.changes > 0
      BY <2>6 DEF CheckType
    <3> QED
      BY <1>4, <2>2, <3>1 DEF Put
  <2>7. ASSUME NEW u \in Users, u # rec.user
        PROVE  Fine(u)'
    <3>1. cache'[u] = cache[u] /\ (u \in late => u \in late')
      BY <1>4, <2>2, <2>3, <2>7 DEF Put, TypeInv
    <3> QED
      BY <1>2, <2>1, <3>1
  <2> QED
    BY <2>1, <2>2, <2>5, <2>6, <2>7
<1>5. ASSUME NEW v \in Users, Expire(v)
      PROVE  Scans' /\ \A u \in Users : Fine(u)'
  <2>1. Calm /\ UNCHANGED change
    BY <1>5 DEF Expire, Calm
  <2>2. ASSUME NEW u \in Users
        PROVE  cache'[u] \in {Absent, cache[u]} /\ (cache'[u] = Absent \/ (u \in late => u \in late'))
    BY <1>5 DEF Expire, TypeInv
  <2> QED
    BY <1>2, <2>1, <2>2
<1>6. ASSUME NEW c \in Changes, Administrate(c)
      PROVE  Scans' /\ \A u \in Users : Fine(u)'
  <2>1. PICK users \in SUBSET Users : Concerns(c, users) /\ \A u \in Users \ users : Unconcerned(u)
    BY <1>6, CommitConcerns
  <2>2. PICK next \in {"del", "scan"} : Committed(c, users, next) /\ (next = "scan" => users = Users)
    BY <2>1 DEF Concerns
  <2>3. /\ change[c].pc = "new" /\ change'[c] = [pc |-> next, users |-> users]
        /\ \A d \in Changes \ {c} : change'[d] = change[d]
        /\ UNCHANGED <<cache, late>>
    BY <2>2 DEF Committed, TypeInv
  <2>4. Scans'
    BY <2>2, <2>3
  <2>5. ASSUME NEW u \in users
        PROVE  Fine(u)'
    BY <2>3 DEF Pending
  <2>6. ASSUME NEW u \in Users \ users
        PROVE  Fine(u)'
    <3>1. \A d \in Changes : Pending(d, u) => Pending(d, u)'
      BY <2>3 DEF Pending
    <3>2. Truth(u)' = Truth(u)
      BY <2>1, <2>6 DEF Unconcerned
    <3> QED
      BY <2>3, <3>1, <3>2
  <2> QED
    BY <2>4, <2>5, <2>6
<1>7. ASSUME NEW c \in Changes, Calm, NEW rec, change' = [change EXCEPT ![c] = rec], rec.pc # "scan",
             NEW u \in Users, cache'[u] = cache[u], u \in late => u \in late',
             Pending(c, u) => Pending(c, u)' \/ u \in late' \/ cache[u] = Absent
      PROVE  Fine(u)'
  <2>1. Truth(u)' = Truth(u)
    BY <1>7, SameRules DEF Calm
  <2>2. \A d \in Changes \ {c} : Pending(d, u) => Pending(d, u)'
    BY <1>7 DEF Pending, TypeInv
  <2> QED
    BY <1>7, <2>1, <2>2
<1>8. ASSUME NEW c \in Changes, Delete(c) \/ Exec(c)
      PROVE  Scans' /\ \A u \in Users : Fine(u)'
  <2>1. /\ Calm /\ change' = [change EXCEPT ![c] = [pc |-> "done", users |-> {}]] /\ Drop(change[c].users)
    BY <1>8 DEF Delete, Exec, Calm
  <2>2. Scans'
    BY <2>1 DEF TypeInv
  <2>3. ASSUME NEW u \in Users, u \in change[c].users
        PROVE  Fine(u)'
    BY <2>1, <2>3 DEF Drop
  <2>4. ASSUME NEW u \in Users, u \notin change[c].users
        PROVE  Fine(u)'
    <3>1. cache'[u] = cache[u] /\ (u \in late => u \in late') /\ ~Pending(c, u)
      BY <2>1, <2>4 DEF Drop, Pending
    <3>2. PICK rec : rec = [pc |-> "done", users |-> {}]
      OBVIOUS
    <3>3. rec.pc # "scan"
      BY <3>2
    <3> HIDE DEF Fine
    <3> QED
      BY <1>7, <2>1, <3>1, <3>2, <3>3
  <2> QED
    BY <2>2, <2>3, <2>4
<1>9. ASSUME NEW c \in Changes, Scan(c)
      PROVE  Scans' /\ \A u \in Users : Fine(u)'
  <2>1. /\ Calm /\ UNCHANGED <<cache, late>>
        /\ change' = [change EXCEPT ![c] = [pc |-> "exec", users |-> {u \in Users : cache[u] # Absent}]]
    BY <1>9 DEF Scan, Calm
  <2>2. Scans'
    BY <2>1 DEF TypeInv
  <2>3. ASSUME NEW u \in Users
        PROVE  Pending(c, u)' \/ cache[u] = Absent
    BY <2>1 DEF Pending, TypeInv
  <2> QED
    BY <1>7, <2>1, <2>2, <2>3
<1>10. ASSUME NEW c \in Changes, InvalidationLost(c)
       PROVE  Scans' /\ \A u \in Users : Fine(u)'
  <2>1. /\ Calm /\ UNCHANGED cache
        /\ change' = [change EXCEPT ![c] = [pc |-> "done", users |-> {}]]
        /\ late' = late \union {u \in change[c].users : cache[u] # Absent}
    BY <1>10 DEF InvalidationLost, Calm
  <2>2. Scans'
    BY <2>1 DEF TypeInv
  <2>3. ASSUME NEW u \in Users
        PROVE  (u \in late => u \in late') /\ (Pending(c, u) => u \in late' \/ cache[u] = Absent)
    BY <2>1 DEF Pending
  <2> QED
    BY <1>7, <2>1, <2>2, <2>3
<1>11. CASE UNCHANGED vars
  <2>1. Calm /\ UNCHANGED <<cache, late, change>>
    BY <1>11 DEF vars, Calm
  <2> QED
    BY <1>2, <2>1
<1> QED
  BY <1>3, <1>4, <1>5, <1>6, <1>8, <1>9, <1>10, <1>11 DEF Next

----------------------------------------------------------------------------
(* The requests.                                                           *)

LEMMA ChecksStep == TypeInv /\ (\A k \in Checks : CheckOK(check[k])) /\ [Next]_vars =>
      \A k \in Checks : CheckOK(check[k])'
<1> SUFFICES ASSUME TypeInv, \A k \in Checks : CheckOK(check[k]), [Next]_vars, NEW k \in Checks
             PROVE  CheckOK(check[k])'
  OBVIOUS
<1> RowsType
  BY DEF TypeInv
<1> PICK rec \in CheckType : rec = check[k] /\ (Started(rec) => rec.user \in Users) /\ CheckOK(rec)
  BY DEF TypeInv
<1>1. ASSUME Calm, check'[k] = check[k]
      PROVE  CheckOK(check[k])'
  <2>1. CheckOK(rec)'
    BY <1>1, SameRules DEF Calm, CheckOK, AsItIs, Outcome, Started, Allowed
  <2> QED
    BY <1>1, <2>1 DEF CheckOK, AsItIs, Outcome, Started, Allowed
<1>2. ASSUME NEW j \in Checks, Done(j)
      PROVE  check'[k] = check[k] \/ ~Started(check'[k])
  BY <1>2 DEF Done, TypeInv, NewCheck, Started
<1>3. ASSUME ~Started(check'[k])
      PROVE  CheckOK(check[k])'
  BY <1>3 DEF CheckOK, Started
<1>4. ASSUME NEW j \in Checks, Hit(j) \/ Put(j) \/ PutFails(j)
      PROVE  CheckOK(check[k])'
  <2>1. Calm /\ Done(j)
    BY <1>4 DEF Hit, Put, PutFails, Calm
  <2> QED
    BY <1>1, <1>2, <1>3, <2>1
<1>5. ASSUME NEW j \in Checks, NEW u \in Users, ReadRoles(j, u)
      PROVE  CheckOK(check[k])'
  <2>1. Calm /\ (j # k => check'[k] = check[k])
    BY <1>5 DEF ReadRoles, Calm, TypeInv
  <2>2. CASE j = k
    <3>1. PICK new : new = [NewCheck EXCEPT !.pc = "get", !.user = u, !.ids = LiveRoles(u), !.held = Holds(u)]
      OBVIOUS
    <3>2. /\ new.pc = "get" /\ new.user = u /\ new.ids = LiveRoles(u) /\ new.held = Holds(u) /\ check'[k] = new
      BY <1>5, <2>2, <3>1 DEF ReadRoles, TypeInv, NewCheck
    <3>3. Outcome(new) \subseteq Holds(u)
      BY <3>2, TruthIsHeld DEF Outcome, Truth, Allowed
    <3>4. CheckOK(new)
      BY <3>2, <3>3 DEF CheckOK, AsItIs
    <3>5. CheckOK(new)'
      BY <2>1, <3>4, SameRules DEF Calm, CheckOK, AsItIs, Outcome, Started, Allowed
    <3> QED
      BY <3>2, <3>5 DEF CheckOK, AsItIs, Outcome, Started, Allowed
  <2> QED
    BY <1>1, <2>1, <2>2
<1>6. ASSUME NEW j \in Checks, Miss(j) \/ ReadPerms(j) \/ ReadDirect(j)
      PROVE  CheckOK(check[k])'
  <2>1. Calm /\ (j # k => check'[k] = check[k])
    BY <1>6 DEF Miss, ReadPerms, ReadDirect, Calm, TypeInv
  <2>2. CASE j = k
    <3>1. PICK new : new = check'[k]
      OBVIOUS
    <3>2. /\ Started(rec) /\ new.user = rec.user /\ new.ids = rec.ids /\ new.held = rec.held
          /\ new.changes = rec.changes
          /\ \/ rec.pc = "get" /\ new.pc = "perms"
             \/ rec.pc = "perms" /\ new.pc = "direct" /\ new.rules.allow = PermsOf(rec.ids)
             \/ /\ rec.pc = "direct" /\ new.pc = "put"
                /\ new.rules = [allow |-> rec.rules.allow \union Granted(rec.user), deny |-> Denied(rec.user)]
      <4>1. CASE Miss(j)
        BY <2>2, <3>1, <4>1 DEF Miss, TypeInv, CheckType, Started
      <4>2. CASE ReadPerms(j)
        BY <2>2, <3>1, <4>2 DEF ReadPerms, TypeInv, CheckType, RuleSets, Started
      <4>3. CASE ReadDirect(j)
        BY <2>2, <3>1, <4>3 DEF ReadDirect, TypeInv, CheckType, RuleSets, Started
      <4> QED
        BY <1>6, <4>1, <4>2, <4>3
    <3>3. Outcome(new) = Outcome(rec)
      <4>1. CASE rec.pc = "get"
        BY <3>2, <4>1 DEF Outcome
      <4>2. CASE rec.pc = "perms"
        BY <3>2, <4>2 DEF Outcome
      <4>3. CASE rec.pc = "direct"
        BY <3>2, <4>3 DEF Outcome, Allowed
      <4> QED
        BY <3>2, <4>1, <4>2, <4>3
    <3>4. AsItIs(rec) => AsItIs(new)
      BY <3>2 DEF AsItIs, Truth
    <3>5. CheckOK(new)
      BY <3>2, <3>3, <3>4 DEF CheckOK
    <3>6. CheckOK(new)'
      BY <2>1, <3>5, SameRules DEF Calm, CheckOK, AsItIs, Outcome, Started, Allowed
    <3> QED
      BY <3>1, <3>6 DEF CheckOK, AsItIs, Outcome, Started, Allowed
  <2> QED
    BY <1>1, <2>1, <2>2
<1>7. ASSUME NEW c \in Changes, Administrate(c)
      PROVE  CheckOK(check[k])'
  <2>1. PICK users \in SUBSET Users : Concerns(c, users) /\ RowsType' /\ \A u \in Users \ users : Unconcerned(u)
    BY <1>7, CommitConcerns
  <2>2. Noticed(users)
    BY <2>1 DEF Concerns, Committed
  <2>3. CASE ~Started(rec)
    BY <1>3, <2>1, <2>2, <2>3, NoticedKnows
  <2>4. CASE Started(rec) /\ rec.user \notin users
    <3>1. check'[k] = rec /\ Unconcerned(rec.user)
      BY <2>1, <2>2, <2>4, NoticedKnows
    <3>2. CheckOK(rec)'
      BY <3>1 DEF Unconcerned, CheckOK, AsItIs, Outcome, Started, Allowed
    <3> QED
      BY <3>1, <3>2 DEF CheckOK, AsItIs, Outcome, Started, Allowed
  <2>5. CASE Started(rec) /\ rec.user \in users
    <3>1. PICK new \in CheckType, u \in Users : new = check'[k] /\ u = rec.user
      BY <2>1, <2>2, <2>5, NoticedKnows
    <3>2. /\ new.held = rec.held \union Holds(u)'
          /\ new.changes = IF rec.changes = 2 THEN 2 ELSE rec.changes + 1
          /\ new.pc = rec.pc /\ new.user = u /\ new.ids = rec.ids /\ new.rules = rec.rules
      BY <2>1, <2>2, <2>5, <3>1, NoticedKnows
    <3>3. new.changes # 0 /\ (new.changes < 2 => rec.changes = 0)
      BY <3>2 DEF CheckType
    <3>4. ASSUME rec.changes = 0
          PROVE  Outcome(new)' \subseteq new.held
      <4>1. PICK ids, old : ids = LiveRoles(u) /\ old = PermsOf(ids) /\ ids = rec.ids
        BY <2>5, <3>1, <3>4 DEF CheckOK, AsItIs
      <4>2. /\ (PermsOf(ids)' \union Granted(u)') \ Denied(u)' \subseteq Allowed(Truth(u)) \union Allowed(Truth(u)')
            /\ (old \union Granted(u)') \ Denied(u)' \subseteq Allowed(Truth(u)) \union Allowed(Truth(u)')
        BY <1>7, <2>1, <4>1, CommitMixes
      <4>3. Allowed(Truth(u)) \subseteq new.held
        BY <2>5, <3>1, <3>2, TruthIsHeld DEF CheckOK
      <4>4. Allowed(Truth(u)') \subseteq new.held
        <5>1. (RowsType => \A v \in Users : Allowed(Truth(v)) \subseteq Holds(v))'
          BY AllowedIsHeld, PTL
        <5> QED
          BY <2>1, <3>2, <5>1 DEF Allowed
      <4>5. rec.pc = "direct" => rec.rules.allow = old
        BY <2>5, <3>1, <3>4, <4>1 DEF CheckOK, AsItIs
      <4>6. rec.pc = "put" => rec.rules = Truth(u)
        BY <2>5, <3>1, <3>4 DEF CheckOK, AsItIs
      <4>7. rec.pc \in {"get", "perms", "direct", "put"}
        BY <2>5 DEF Started, CheckType
      <4> QED
        BY <3>2, <4>1, <4>2, <4>3, <4>4, <4>5, <4>6, <4>7 DEF Outcome, Allowed
    <3>5. CheckOK(new)'
      BY <3>2, <3>3, <3>4 DEF CheckOK
    <3> QED
      BY <3>1, <3>5 DEF CheckOK, AsItIs, Outcome, Started, Allowed
  <2> QED
    BY <2>3, <2>4, <2>5
<1>8. ASSUME NEW c \in Changes, Delete(c) \/ Scan(c) \/ Exec(c) \/ InvalidationLost(c)
      PROVE  CheckOK(check[k])'
  <2>1. Calm /\ check'[k] = check[k]
    BY <1>8 DEF Delete, Scan, Exec, InvalidationLost, Calm
  <2> QED
    BY <1>1, <2>1
<1>9. CASE (\E u \in Users : Expire(u)) \/ UNCHANGED vars
  <2>1. Calm /\ check'[k] = check[k]
    BY <1>9 DEF Expire, Calm, vars
  <2> QED
    BY <1>1, <2>1
<1> QED
  BY <1>4, <1>5, <1>6, <1>7, <1>8, <1>9 DEF Next

----------------------------------------------------------------------------
(* The theorems.                                                           *)

LEMMA AccessInvariant == Spec => []AccessInv
<1>1. Init => AccessInv
  <2>1. Init => CacheInv /\ \A k \in Checks : ~Started(check[k])
    BY DEF Init, CacheInv, NewCheck, Started
  <2> QED
    BY <2>1, TypeInit DEF AccessInv, CheckOK
<1>2. AccessInv /\ [Next]_vars => AccessInv'
  BY TypeStep, CacheStep, ChecksStep DEF AccessInv
<1> QED
  BY <1>1, <1>2, PTL DEF Spec

\* The rules a request is judged by are true: cached ones are those of the
\* database, unless they are about to be removed, their removal was lost, or a
\* request stored them after a change it had not seen; rules just read, in
\* three queries, allow nothing that the user was never allowed meanwhile.
THEOREM RulesCorrect == Spec => []RulesAreTrue
<1>1. ASSUME AccessInv
      PROVE  RulesAreTrue
  <2>1. TypeOK
    BY <1>1 DEF AccessInv, TypeInv, RowsType, CheckType, ChangeType, TypeOK
  <2>2. CacheTellsTheTruth
    BY <1>1 DEF AccessInv, CacheInv, Pending, CacheTellsTheTruth
  <2>3. MixturesAllowNothingNew
    BY <1>1 DEF AccessInv, CheckOK, Started, Outcome, MixturesAllowNothingNew
  <2> QED
    BY <2>1, <2>2, <2>3 DEF RulesAreTrue
<1> QED
  BY <1>1, AccessInvariant, PTL

----------------------------------------------------------------------------
(* Pictures: the inductive invariant.                                      *)

HandType == [pc : {"new", "upload", "read", "commit", "undo", "cleanup", "done"},
             op : {"", "upload", "remove", "text", "save"}, id : Folders,
             seen : Images!Links, link : Images!Links]
FolderType == [state : {"none", "live", "deleted"}, link : Images!Links]

PictureTypes ==
  /\ table \in {"category", "company", "profile"}
  /\ folder \in [Folders -> FolderType] /\ files \subseteq Images!Keys
  /\ hand \in [Hands -> HandType]
  /\ doubtful \subseteq Images!Keys /\ stray \subseteq Images!Keys
  /\ slips \in 0 .. MaxSlips

\* A row that is not there yet links nothing; only an upload reads the link late, or
\* is undone; the row of a request is there, a clean-up has something to delete, and
\* there is one user.
Steps ==
  /\ \A i \in Folders : folder[i].state = "none" => folder[i].link = None
  /\ folder[Main].state # "none"
  /\ \A h \in Hands : /\ hand[h].pc \in {"upload", "read", "undo"} => hand[h].op = "upload"
                      /\ hand[h].pc = "read" => table = "profile"
                      /\ hand[h].pc \in {"upload", "read", "commit"} => folder[hand[h].id].state # "none"
                      /\ hand[h].pc = "cleanup" => hand[h].seen # None
                      /\ table = "profile" => hand[h].id = Main

\* Nobody has come to know the file of h: no row links it, and no request has read it.
Unknown(h) == /\ h \notin doubtful /\ \A i \in Folders : folder[i].link # h
              /\ \A g \in Hands : hand[g].seen # h /\ hand[g].link # h

\* A file is known once its upload has been committed.
Known ==
  \A h \in Hands :
    /\ hand[h].pc \in {"new", "upload", "read", "commit"} => Unknown(h)
    /\ hand[h].pc = "undo" => Unknown(h) \/ h \in doubtful
    /\ hand[h].pc \in {"read", "commit"} /\ hand[h].op = "upload" => h \in files

\* A file that is not doubtful has one row at most; a request that has seen it has it
\* from that row, and once its own commit is through no row links it any more.
OneRow ==
  /\ \A i, j \in Folders :
       folder[i].link = folder[j].link /\ folder[i].link \in Images!Keys \ doubtful => i = j
  /\ \A h \in Hands, i \in Folders :
       /\ hand[h].seen \in Images!Keys \ doubtful /\ folder[i].link = hand[h].seen
       => /\ hand[h].pc \in {"upload", "commit"} => i = hand[h].id
          /\ hand[h].pc # "cleanup"

PictureInv == PictureTypes /\ Steps /\ Known /\ OneRow /\ FilesMatchRows

\* What the proofs need to know of keys and links.
LEMMA PictureConstants ==
  /\ Main \in Folders /\ MaxSlips \in Nat
  /\ Hands \subseteq Images!Keys /\ Start \in Images!Keys
  /\ None \notin Images!Keys /\ Outside \notin Images!Keys /\ None # Outside
  /\ Start \notin Hands /\ Outside \notin Hands /\ None \notin Hands
  /\ Images!Links = Images!Keys \union {Outside, None}
BY BackofficeAssumption DEF BackofficeAssumption, Images!PicturesAssumption, Images!Keys, Images!Links

LEMMA FindKeeps ==
  ASSUME PictureInv, NEW h \in Hands, NEW i \in Folders, NEW op \in {"upload", "remove"}, table # "profile",
        Images!Find(h, i, op)
  PROVE  PictureInv'
<1> USE PictureConstants
<1>1. /\ hand' \in [Hands -> HandType]
      /\ \A g \in Hands \ {h} : hand'[g] = hand[g]
      /\ hand[h].pc = "new" /\ folder[i].state = "live"
      /\ hand'[h].pc = (IF op = "upload" THEN "upload" ELSE "commit") /\ hand'[h].op = op /\ hand'[h].id = i
      /\ hand'[h].seen = folder[i].link /\ hand'[h].link = None
      /\ UNCHANGED <<table, folder, files, doubtful, stray>>
      /\ slips' = slips
  BY DEF Images!Find, Images!Goes, PictureInv, PictureTypes, HandType, FolderType
<1>2. /\ Steps /\ Known /\ OneRow /\ Images!PicturesResolve /\ Images!NoFileIsForgotten
      /\ PictureTypes
  BY DEF PictureInv, FilesMatchRows
<1>3. PictureTypes'
  BY <1>1, <1>2 DEF PictureTypes
<1>4. Steps'
  BY <1>1, <1>2 DEF Steps
<1>a. \A g \in Hands : Unknown(g) => Unknown(g)'
  BY <1>1 DEF Unknown
<1>5. Known'
  BY <1>1, <1>2, <1>a DEF Known
<1>6. OneRow'
  BY <1>1, <1>2 DEF OneRow
<1>7. (Images!PicturesResolve)'
  BY <1>1, <1>2 DEF Images!PicturesResolve
<1>8. (Images!NoFileIsForgotten)'
  BY <1>1, <1>2 DEF Images!NoFileIsForgotten, Images!Owned
<1>9. QED  BY <1>3, <1>4, <1>5, <1>6, <1>7, <1>8 DEF PictureInv, FilesMatchRows

LEMMA BeginKeeps ==
  ASSUME PictureInv, NEW h \in Hands, Images!Begin(h)
  PROVE  PictureInv'
<1> USE PictureConstants
<1>1. /\ hand' \in [Hands -> HandType]
      /\ \A g \in Hands \ {h} : hand'[g] = hand[g]
      /\ hand[h].pc = "new" /\ table = "profile"
      /\ hand'[h].pc = "upload" /\ hand'[h].op = "upload" /\ hand'[h].id = Main
      /\ hand'[h].seen = None /\ hand'[h].link = None
      /\ UNCHANGED <<table, folder, files, doubtful, stray>>
      /\ slips' = slips
  BY DEF Images!Begin, Images!Waiting, Images!Goes, PictureInv, PictureTypes, HandType, FolderType
<1>2. /\ Steps /\ Known /\ OneRow /\ Images!PicturesResolve /\ Images!NoFileIsForgotten
      /\ PictureTypes
  BY DEF PictureInv, FilesMatchRows
<1>3. PictureTypes'
  BY <1>1, <1>2 DEF PictureTypes
<1>4. Steps'
  BY <1>1, <1>2 DEF Steps
<1>a. \A g \in Hands : Unknown(g) => Unknown(g)'
  BY <1>1 DEF Unknown
<1>5. Known'
  BY <1>1, <1>2, <1>a DEF Known
<1>6. OneRow'
  BY <1>1, <1>2 DEF OneRow
<1>7. (Images!PicturesResolve)'
  BY <1>1, <1>2 DEF Images!PicturesResolve
<1>8. (Images!NoFileIsForgotten)'
  BY <1>1, <1>2 DEF Images!NoFileIsForgotten, Images!Owned
<1>9. QED  BY <1>3, <1>4, <1>5, <1>6, <1>7, <1>8 DEF PictureInv, FilesMatchRows

LEMMA FindToWriteKeeps ==
  ASSUME PictureInv, NEW h \in Hands, NEW i \in Folders, NEW link \in {Start, Outside}, Images!FindToWrite(h, i, link)
  PROVE  PictureInv'
<1> USE PictureConstants
<1>1. /\ hand' \in [Hands -> HandType]
      /\ \A g \in Hands \ {h} : hand'[g] = hand[g]
      /\ hand[h].pc = "new" /\ table = "category" /\ folder[i].state = "live"
      /\ hand'[h].pc = "commit" /\ hand'[h].op = "text" /\ hand'[h].id = i
      /\ hand'[h].seen = folder[i].link /\ hand'[h].link = link
      /\ UNCHANGED <<table, folder, files, doubtful, stray>>
      /\ slips' = slips
  BY DEF Images!FindToWrite, Images!Goes, PictureInv, PictureTypes, HandType, FolderType
<1>2. /\ Steps /\ Known /\ OneRow /\ Images!PicturesResolve /\ Images!NoFileIsForgotten
      /\ PictureTypes
  BY DEF PictureInv, FilesMatchRows
<1>3. PictureTypes'
  BY <1>1, <1>2 DEF PictureTypes
<1>4. Steps'
  BY <1>1, <1>2 DEF Steps
<1>a. \A g \in Hands : Unknown(g) => Unknown(g)'
  BY <1>1 DEF Unknown
<1>5. Known'
  BY <1>1, <1>2, <1>a DEF Known
<1>6. OneRow'
  BY <1>1, <1>2 DEF OneRow
<1>7. (Images!PicturesResolve)'
  BY <1>1, <1>2 DEF Images!PicturesResolve
<1>8. (Images!NoFileIsForgotten)'
  BY <1>1, <1>2 DEF Images!NoFileIsForgotten, Images!Owned
<1>9. QED  BY <1>3, <1>4, <1>5, <1>6, <1>7, <1>8 DEF PictureInv, FilesMatchRows

LEMMA ReadUserKeeps ==
  ASSUME PictureInv, NEW h \in Hands, Images!ReadUser(h)
  PROVE  PictureInv'
<1> USE PictureConstants
<1>1. /\ hand' \in [Hands -> HandType]
      /\ \A g \in Hands \ {h} : hand'[g] = hand[g]
      /\ hand[h].pc = "new"
      /\ hand'[h].pc = "commit" /\ hand'[h].op = "save" /\ hand'[h].id = Main
      /\ hand'[h].seen = folder[Main].link /\ hand'[h].link = folder[Main].link
      /\ UNCHANGED <<table, folder, files, doubtful, stray>>
      /\ slips' = slips
  BY DEF Images!ReadUser, Images!Goes, PictureInv, PictureTypes, HandType, FolderType
<1>2. /\ Steps /\ Known /\ OneRow /\ Images!PicturesResolve /\ Images!NoFileIsForgotten
      /\ PictureTypes
  BY DEF PictureInv, FilesMatchRows
<1>3. PictureTypes'
  BY <1>1, <1>2 DEF PictureTypes
<1>4. Steps'
  BY <1>1, <1>2 DEF Steps
<1>a. \A g \in Hands : Unknown(g) => Unknown(g)'
  BY <1>1 DEF Unknown
<1>5. Known'
  BY <1>1, <1>2, <1>a DEF Known
<1>6. OneRow'
  BY <1>1, <1>2 DEF OneRow
<1>7. (Images!PicturesResolve)'
  BY <1>1, <1>2 DEF Images!PicturesResolve
<1>8. (Images!NoFileIsForgotten)'
  BY <1>1, <1>2 DEF Images!NoFileIsForgotten, Images!Owned
<1>9. QED  BY <1>3, <1>4, <1>5, <1>6, <1>7, <1>8 DEF PictureInv, FilesMatchRows

LEMMA UploadKeeps ==
  ASSUME PictureInv, NEW h \in Hands, Images!Upload(h)
  PROVE  PictureInv'
<1> USE PictureConstants
<1>1. /\ hand' \in [Hands -> HandType]
      /\ \A g \in Hands \ {h} : hand'[g] = hand[g]
      /\ hand[h].pc = "upload" /\ files' = files \union {h}
      /\ hand'[h].pc = (IF table = "profile" THEN "read" ELSE "commit")
      /\ hand'[h].op = hand[h].op /\ hand'[h].id = hand[h].id
      /\ hand'[h].seen = hand[h].seen /\ hand'[h].link = hand[h].link
      /\ UNCHANGED <<table, folder, doubtful, stray>>
      /\ slips' = slips
  BY DEF Images!Upload, Images!Goes, PictureInv, PictureTypes, HandType, FolderType
<1>2. /\ Steps /\ Known /\ OneRow /\ Images!PicturesResolve /\ Images!NoFileIsForgotten
      /\ PictureTypes
  BY DEF PictureInv, FilesMatchRows
<1>3. PictureTypes'
  BY <1>1, <1>2 DEF PictureTypes
<1>4. Steps'
  BY <1>1, <1>2 DEF Steps
<1>a. \A g \in Hands : Unknown(g) => Unknown(g)'
  BY <1>1 DEF Unknown
<1>5. Known'
  BY <1>1, <1>2, <1>a DEF Known, Steps
<1>6. OneRow'
  BY <1>1, <1>2 DEF OneRow
<1>7. (Images!PicturesResolve)'
  BY <1>1, <1>2 DEF Images!PicturesResolve
<1>8. (Images!NoFileIsForgotten)'
  BY <1>1, <1>2 DEF Images!NoFileIsForgotten, Images!Owned, Steps
<1>9. QED  BY <1>3, <1>4, <1>5, <1>6, <1>7, <1>8 DEF PictureInv, FilesMatchRows

LEMMA UploadFailsKeeps ==
  ASSUME PictureInv, NEW h \in Hands, Images!UploadFails(h)
  PROVE  PictureInv'
<1> USE PictureConstants
<1>0. slips' \in 0 .. MaxSlips
  BY DEF Images!UploadFails, Images!Slip, PictureInv, PictureTypes
<1>1. /\ hand' \in [Hands -> HandType]
      /\ \A g \in Hands \ {h} : hand'[g] = hand[g]
      /\ hand[h].pc = "upload"
      /\ \E stored \in {{}, {h}} : files' = files \union stored /\ stray' = stray \union stored
      /\ hand'[h].pc = "done" /\ hand'[h].op = "" /\ hand'[h].id = Main
      /\ hand'[h].seen = None /\ hand'[h].link = None
      /\ UNCHANGED <<table, folder, doubtful>>
  BY DEF Images!UploadFails, Images!Finished, Images!Waiting, Images!Goes, PictureInv, PictureTypes, HandType,
     FolderType
<1>2. /\ Steps /\ Known /\ OneRow /\ Images!PicturesResolve /\ Images!NoFileIsForgotten
      /\ PictureTypes
  BY DEF PictureInv, FilesMatchRows
<1>3. PictureTypes'
  BY <1>0, <1>1, <1>2 DEF PictureTypes
<1>4. Steps'
  BY <1>1, <1>2 DEF Steps
<1>a. \A g \in Hands : Unknown(g) => Unknown(g)'
  BY <1>1 DEF Unknown
<1>5. Known'
  BY <1>1, <1>2, <1>a DEF Known
<1>b. \A x, y \in Folders :
        folder'[x].link = folder'[y].link /\ folder'[x].link \in Images!Keys \ doubtful' => x = y
  <2>1. SUFFICES ASSUME NEW x \in Folders, NEW y \in Folders,
                        folder'[x].link = folder'[y].link, folder'[x].link \in Images!Keys \ doubtful'
                 PROVE  x = y
    OBVIOUS
  <2>2. folder[x].link = folder[y].link /\ folder[x].link \in Images!Keys \ doubtful
    BY <1>1, <2>1
  <2>3. QED  BY <1>2, <2>2 DEF OneRow
<1>c. \A g \in Hands, j \in Folders :
        hand'[g].seen \in Images!Keys \ doubtful' /\ folder'[j].link = hand'[g].seen
        => (hand'[g].pc \in {"upload", "commit"} => j = hand'[g].id) /\ hand'[g].pc # "cleanup"
  <2>1. SUFFICES ASSUME NEW g \in Hands, NEW j \in Folders,
                        hand'[g].seen \in Images!Keys \ doubtful', folder'[j].link = hand'[g].seen
                 PROVE  (hand'[g].pc \in {"upload", "commit"} => j = hand'[g].id) /\ hand'[g].pc # "cleanup"
    OBVIOUS
  <2>2. g # h
    BY <1>1, <2>1
  <2>3. hand'[g] = hand[g]
    BY <1>1, <2>2
  <2>4. hand[g].seen \in Images!Keys \ doubtful /\ folder[j].link = hand[g].seen
    BY <1>1, <2>1, <2>3
  <2>5. QED  BY <1>2, <2>3, <2>4 DEF OneRow
<1>6. OneRow'
  BY <1>b, <1>c DEF OneRow
<1>7. (Images!PicturesResolve)'
  BY <1>1, <1>2 DEF Images!PicturesResolve
<1>d. \A g \in Hands \ {h} : (Images!Owned(g))' = Images!Owned(g)
  BY <1>1 DEF Images!Owned
<1>e. Images!Owned(h) = {}
  BY <1>1 DEF Images!Owned
<1>8. (Images!NoFileIsForgotten)'
  <2>1. SUFFICES ASSUME NEW k \in files'
                 PROVE  \/ \E j \in Folders : folder'[j].link = k
                        \/ \E g \in Hands : k \in (Images!Owned(g))'
                        \/ k \in stray'
    BY DEF Images!NoFileIsForgotten
  <2>2. CASE k \notin files
    BY <1>1, <2>1, <2>2
  <2>3. CASE k \in files
    <3>1. \/ \E j \in Folders : folder[j].link = k
          \/ \E g \in Hands \ {h} : k \in Images!Owned(g)
          \/ k \in Images!Owned(h) \/ k \in stray
      BY <1>2, <2>3 DEF Images!NoFileIsForgotten
    <3>2. k # None /\ k # Outside
      BY <1>2, <2>3 DEF PictureTypes
    <3>3. QED  BY <1>1, <1>2, <2>1, <1>d, <1>e, <3>1, <3>2
  <2>4. QED  BY <2>2, <2>3
<1>9. QED  BY <1>3, <1>4, <1>5, <1>6, <1>7, <1>8 DEF PictureInv, FilesMatchRows

LEMMA ReadLinkKeeps ==
  ASSUME PictureInv, NEW h \in Hands, Images!ReadLink(h)
  PROVE  PictureInv'
<1> USE PictureConstants
<1>1. /\ hand' \in [Hands -> HandType]
      /\ \A g \in Hands \ {h} : hand'[g] = hand[g]
      /\ hand[h].pc = "read"
      /\ hand'[h].pc = "commit" /\ hand'[h].op = hand[h].op /\ hand'[h].id = hand[h].id
      /\ hand'[h].seen = folder[Main].link /\ hand'[h].link = hand[h].link
      /\ UNCHANGED <<table, folder, files, doubtful, stray>>
      /\ slips' = slips
  BY DEF Images!ReadLink, Images!Goes, PictureInv, PictureTypes, HandType, FolderType
<1>2. /\ Steps /\ Known /\ OneRow /\ Images!PicturesResolve /\ Images!NoFileIsForgotten
      /\ PictureTypes
  BY DEF PictureInv, FilesMatchRows
<1>3. PictureTypes'
  BY <1>1, <1>2 DEF PictureTypes
<1>4. Steps'
  BY <1>1, <1>2 DEF Steps
<1>a. \A g \in Hands : Unknown(g) => Unknown(g)'
  BY <1>1 DEF Unknown
<1>5. Known'
  BY <1>1, <1>2, <1>a DEF Known
<1>6. OneRow'
  BY <1>1, <1>2 DEF OneRow, Steps
<1>7. (Images!PicturesResolve)'
  BY <1>1, <1>2 DEF Images!PicturesResolve
<1>8. (Images!NoFileIsForgotten)'
  BY <1>1, <1>2 DEF Images!NoFileIsForgotten, Images!Owned
<1>9. QED  BY <1>3, <1>4, <1>5, <1>6, <1>7, <1>8 DEF PictureInv, FilesMatchRows

LEMMA UndoKeeps ==
  ASSUME PictureInv, NEW h \in Hands, Images!Undo(h)
  PROVE  PictureInv'
<1> USE PictureConstants
<1>1. /\ hand' \in [Hands -> HandType]
      /\ \A g \in Hands \ {h} : hand'[g] = hand[g]
      /\ hand[h].pc = "undo" /\ files' = files \ {h}
      /\ hand'[h].pc = "done" /\ hand'[h].op = "" /\ hand'[h].id = Main
      /\ hand'[h].seen = None /\ hand'[h].link = None
      /\ UNCHANGED <<table, folder, doubtful, stray>>
      /\ slips' = slips
  BY DEF Images!Undo, Images!Finished, Images!Waiting, Images!Goes, PictureInv, PictureTypes, HandType, FolderType
<1>2. /\ Steps /\ Known /\ OneRow /\ Images!PicturesResolve /\ Images!NoFileIsForgotten
      /\ PictureTypes
  BY DEF PictureInv, FilesMatchRows
<1>3. PictureTypes'
  BY <1>1, <1>2 DEF PictureTypes
<1>4. Steps'
  BY <1>1, <1>2 DEF Steps
<1>a. \A g \in Hands : Unknown(g) => Unknown(g)'
  BY <1>1 DEF Unknown
<1>5. Known'
  BY <1>1, <1>2, <1>a DEF Known
<1>b. \A x, y \in Folders :
        folder'[x].link = folder'[y].link /\ folder'[x].link \in Images!Keys \ doubtful' => x = y
  <2>1. SUFFICES ASSUME NEW x \in Folders, NEW y \in Folders,
                        folder'[x].link = folder'[y].link, folder'[x].link \in Images!Keys \ doubtful'
                 PROVE  x = y
    OBVIOUS
  <2>2. folder[x].link = folder[y].link /\ folder[x].link \in Images!Keys \ doubtful
    BY <1>1, <2>1
  <2>3. QED  BY <1>2, <2>2 DEF OneRow
<1>c. \A g \in Hands, j \in Folders :
        hand'[g].seen \in Images!Keys \ doubtful' /\ folder'[j].link = hand'[g].seen
        => (hand'[g].pc \in {"upload", "commit"} => j = hand'[g].id) /\ hand'[g].pc # "cleanup"
  <2>1. SUFFICES ASSUME NEW g \in Hands, NEW j \in Folders,
                        hand'[g].seen \in Images!Keys \ doubtful', folder'[j].link = hand'[g].seen
                 PROVE  (hand'[g].pc \in {"upload", "commit"} => j = hand'[g].id) /\ hand'[g].pc # "cleanup"
    OBVIOUS
  <2>2. g # h
    BY <1>1, <2>1
  <2>3. hand'[g] = hand[g]
    BY <1>1, <2>2
  <2>4. hand[g].seen \in Images!Keys \ doubtful /\ folder[j].link = hand[g].seen
    BY <1>1, <2>1, <2>3
  <2>5. QED  BY <1>2, <2>3, <2>4 DEF OneRow
<1>6. OneRow'
  BY <1>b, <1>c DEF OneRow
<1>7. (Images!PicturesResolve)'
  BY <1>1, <1>2 DEF Images!PicturesResolve, Known, Unknown
<1>d. \A g \in Hands \ {h} : (Images!Owned(g))' = Images!Owned(g)
  BY <1>1 DEF Images!Owned
<1>e. Images!Owned(h) = IF hand[h].op = "upload" THEN {h} ELSE {}
  BY <1>1 DEF Images!Owned
<1>8. (Images!NoFileIsForgotten)'
  <2>1. SUFFICES ASSUME NEW k \in files'
                 PROVE  \/ \E j \in Folders : folder'[j].link = k
                        \/ \E g \in Hands : k \in (Images!Owned(g))'
                        \/ k \in stray'
    BY DEF Images!NoFileIsForgotten
  <2>3. k \in files
    BY <1>1, <2>1
  <2>4. \/ \E j \in Folders : folder[j].link = k
        \/ \E g \in Hands \ {h} : k \in Images!Owned(g)
        \/ k \in Images!Owned(h) \/ k \in stray
    BY <1>2, <2>3 DEF Images!NoFileIsForgotten
  <2>5. k # None /\ k # Outside
    BY <1>2, <2>3 DEF PictureTypes
  <2>6. QED  BY <1>1, <1>2, <2>1, <1>d, <1>e, <2>4, <2>5
<1>9. QED  BY <1>3, <1>4, <1>5, <1>6, <1>7, <1>8 DEF PictureInv, FilesMatchRows

LEMMA CleanupKeeps ==
  ASSUME PictureInv, NEW h \in Hands, Images!Cleanup(h)
  PROVE  PictureInv'
<1> USE PictureConstants
<1>1. /\ hand' \in [Hands -> HandType]
      /\ \A g \in Hands \ {h} : hand'[g] = hand[g]
      /\ hand[h].pc = "cleanup" /\ files' = files \ {hand[h].seen}
      /\ hand'[h].pc = "done" /\ hand'[h].op = "" /\ hand'[h].id = Main
      /\ hand'[h].seen = None /\ hand'[h].link = None
      /\ UNCHANGED <<table, folder, doubtful, stray>>
      /\ slips' = slips
  BY DEF Images!Cleanup, Images!Finished, Images!Waiting, Images!Goes, PictureInv, PictureTypes, HandType, FolderType
<1>2. /\ Steps /\ Known /\ OneRow /\ Images!PicturesResolve /\ Images!NoFileIsForgotten
      /\ PictureTypes
  BY DEF PictureInv, FilesMatchRows
<1>3. PictureTypes'
  BY <1>1, <1>2 DEF PictureTypes
<1>4. Steps'
  BY <1>1, <1>2 DEF Steps
<1>a. \A g \in Hands : Unknown(g) => Unknown(g)'
  BY <1>1 DEF Unknown
<1>5. Known'
  <2>1. \A g \in Hands : hand[g].pc \in {"read", "commit"} => hand[h].seen # g
    BY <1>2 DEF Known, Unknown
  <2>2. QED  BY <1>1, <1>2, <1>a, <2>1 DEF Known
<1>b. \A x, y \in Folders :
        folder'[x].link = folder'[y].link /\ folder'[x].link \in Images!Keys \ doubtful' => x = y
  <2>1. SUFFICES ASSUME NEW x \in Folders, NEW y \in Folders,
                        folder'[x].link = folder'[y].link, folder'[x].link \in Images!Keys \ doubtful'
                 PROVE  x = y
    OBVIOUS
  <2>2. folder[x].link = folder[y].link /\ folder[x].link \in Images!Keys \ doubtful
    BY <1>1, <2>1
  <2>3. QED  BY <1>2, <2>2 DEF OneRow
<1>c. \A g \in Hands, j \in Folders :
        hand'[g].seen \in Images!Keys \ doubtful' /\ folder'[j].link = hand'[g].seen
        => (hand'[g].pc \in {"upload", "commit"} => j = hand'[g].id) /\ hand'[g].pc # "cleanup"
  <2>1. SUFFICES ASSUME NEW g \in Hands, NEW j \in Folders,
                        hand'[g].seen \in Images!Keys \ doubtful', folder'[j].link = hand'[g].seen
                 PROVE  (hand'[g].pc \in {"upload", "commit"} => j = hand'[g].id) /\ hand'[g].pc # "cleanup"
    OBVIOUS
  <2>2. g # h
    BY <1>1, <2>1
  <2>3. hand'[g] = hand[g]
    BY <1>1, <2>2
  <2>4. hand[g].seen \in Images!Keys \ doubtful /\ folder[j].link = hand[g].seen
    BY <1>1, <2>1, <2>3
  <2>5. QED  BY <1>2, <2>3, <2>4 DEF OneRow
<1>6. OneRow'
  BY <1>b, <1>c DEF OneRow
<1>7. (Images!PicturesResolve)'
  <2>1. SUFFICES ASSUME NEW i \in Folders
                 PROVE  folder[i].link \in (files \ {hand[h].seen}) \union {None, Outside} \union doubtful
    BY <1>1 DEF Images!PicturesResolve
  <2>2. folder[i].link \in files \union {None, Outside} \union doubtful
    BY <1>2 DEF Images!PicturesResolve
  <2>3. folder[i].link = hand[h].seen => folder[i].link \notin Images!Keys \ doubtful
    BY <1>1, <1>2 DEF OneRow
  <2>4. QED  BY <2>2, <2>3, <1>2 DEF PictureTypes
<1>d. \A g \in Hands \ {h} : (Images!Owned(g))' = Images!Owned(g)
  BY <1>1 DEF Images!Owned
<1>e. Images!Owned(h) = {hand[h].seen}
  BY <1>1 DEF Images!Owned
<1>8. (Images!NoFileIsForgotten)'
  <2>1. SUFFICES ASSUME NEW k \in files'
                 PROVE  \/ \E j \in Folders : folder'[j].link = k
                        \/ \E g \in Hands : k \in (Images!Owned(g))'
                        \/ k \in stray'
    BY DEF Images!NoFileIsForgotten
  <2>3. k \in files
    BY <1>1, <2>1
  <2>4. \/ \E j \in Folders : folder[j].link = k
        \/ \E g \in Hands \ {h} : k \in Images!Owned(g)
        \/ k \in Images!Owned(h) \/ k \in stray
    BY <1>2, <2>3 DEF Images!NoFileIsForgotten
  <2>5. k # None /\ k # Outside
    BY <1>2, <2>3 DEF PictureTypes
  <2>6. QED  BY <1>1, <1>2, <2>1, <1>d, <1>e, <2>4, <2>5
<1>9. QED  BY <1>3, <1>4, <1>5, <1>6, <1>7, <1>8 DEF PictureInv, FilesMatchRows

LEMMA GiveUpKeeps ==
  ASSUME PictureInv, NEW h \in Hands, Images!GiveUp(h)
  PROVE  PictureInv'
<1> USE PictureConstants
<1>0. slips' \in 0 .. MaxSlips
  BY DEF Images!GiveUp, Images!Slip, PictureInv, PictureTypes
<1>1. /\ hand' \in [Hands -> HandType]
      /\ \A g \in Hands \ {h} : hand'[g] = hand[g]
      /\ hand[h].pc \notin {"new", "done"}
      /\ stray' = stray \union (Images!Owned(h) \ {Outside})
      /\ hand'[h].pc = "done" /\ hand'[h].op = "" /\ hand'[h].id = Main
      /\ hand'[h].seen = None /\ hand'[h].link = None
      /\ UNCHANGED <<table, folder, files, doubtful>>
  BY DEF Images!GiveUp, Images!Finished, Images!Waiting, Images!Goes, PictureInv, PictureTypes, HandType, FolderType
<1>2. /\ Steps /\ Known /\ OneRow /\ Images!PicturesResolve /\ Images!NoFileIsForgotten
      /\ PictureTypes
  BY DEF PictureInv, FilesMatchRows
<1>3. PictureTypes'
  BY <1>0, <1>1, <1>2 DEF PictureTypes, Images!Owned, HandType, Steps
<1>4. Steps'
  BY <1>1, <1>2 DEF Steps
<1>a. \A g \in Hands : Unknown(g) => Unknown(g)'
  BY <1>1 DEF Unknown
<1>5. Known'
  BY <1>1, <1>2, <1>a DEF Known
<1>b. \A x, y \in Folders :
        folder'[x].link = folder'[y].link /\ folder'[x].link \in Images!Keys \ doubtful' => x = y
  <2>1. SUFFICES ASSUME NEW x \in Folders, NEW y \in Folders,
                        folder'[x].link = folder'[y].link, folder'[x].link \in Images!Keys \ doubtful'
                 PROVE  x = y
    OBVIOUS
  <2>2. folder[x].link = folder[y].link /\ folder[x].link \in Images!Keys \ doubtful
    BY <1>1, <2>1
  <2>3. QED  BY <1>2, <2>2 DEF OneRow
<1>c. \A g \in Hands, j \in Folders :
        hand'[g].seen \in Images!Keys \ doubtful' /\ folder'[j].link = hand'[g].seen
        => (hand'[g].pc \in {"upload", "commit"} => j = hand'[g].id) /\ hand'[g].pc # "cleanup"
  <2>1. SUFFICES ASSUME NEW g \in Hands, NEW j \in Folders,
                        hand'[g].seen \in Images!Keys \ doubtful', folder'[j].link = hand'[g].seen
                 PROVE  (hand'[g].pc \in {"upload", "commit"} => j = hand'[g].id) /\ hand'[g].pc # "cleanup"
    OBVIOUS
  <2>2. g # h
    BY <1>1, <2>1
  <2>3. hand'[g] = hand[g]
    BY <1>1, <2>2
  <2>4. hand[g].seen \in Images!Keys \ doubtful /\ folder[j].link = hand[g].seen
    BY <1>1, <2>1, <2>3
  <2>5. QED  BY <1>2, <2>3, <2>4 DEF OneRow
<1>6. OneRow'
  BY <1>b, <1>c DEF OneRow
<1>7. (Images!PicturesResolve)'
  BY <1>1, <1>2 DEF Images!PicturesResolve
<1>d. \A g \in Hands \ {h} : (Images!Owned(g))' = Images!Owned(g)
  BY <1>1 DEF Images!Owned
<1>8. (Images!NoFileIsForgotten)'
  <2>1. SUFFICES ASSUME NEW k \in files'
                 PROVE  \/ \E j \in Folders : folder'[j].link = k
                        \/ \E g \in Hands : k \in (Images!Owned(g))'
                        \/ k \in stray'
    BY DEF Images!NoFileIsForgotten
  <2>3. k \in files
    BY <1>1, <2>1
  <2>4. \/ \E j \in Folders : folder[j].link = k
        \/ \E g \in Hands \ {h} : k \in Images!Owned(g)
        \/ k \in Images!Owned(h) \/ k \in stray
    BY <1>2, <2>3 DEF Images!NoFileIsForgotten
  <2>5. k # None /\ k # Outside
    BY <1>2, <2>3 DEF PictureTypes
  <2>6. QED  BY <1>1, <1>2, <2>1, <1>d, <2>4, <2>5
<1>9. QED  BY <1>3, <1>4, <1>5, <1>6, <1>7, <1>8 DEF PictureInv, FilesMatchRows

LEMMA CreateKeeps ==
  ASSUME PictureInv, NEW h \in Hands, NEW i \in Folders, NEW link \in {Start, Outside, None}, Images!Create(h, i,
        link)
  PROVE  PictureInv'
<1> USE PictureConstants
<1>1. /\ hand' \in [Hands -> HandType]
      /\ \A g \in Hands \ {h} : hand'[g] = hand[g]
      /\ hand[h].pc = "new" /\ folder[i].state = "none"
      /\ folder' \in [Folders -> FolderType]
      /\ folder'[i].state = "live" /\ folder'[i].link = link
      /\ \A j \in Folders \ {i} : folder'[j] = folder[j]
      /\ doubtful' = doubtful \union ({link} \ {None, Outside})
      /\ hand'[h].pc = "done" /\ hand'[h].op = "" /\ hand'[h].id = Main
      /\ hand'[h].seen = None /\ hand'[h].link = None
      /\ UNCHANGED <<table, files, stray>>
      /\ slips' = slips
  BY DEF Images!Create, Images!Finished, Images!Waiting, Images!Goes, PictureInv, PictureTypes, HandType, FolderType
<1>2. /\ Steps /\ Known /\ OneRow /\ Images!PicturesResolve /\ Images!NoFileIsForgotten
      /\ PictureTypes
  BY DEF PictureInv, FilesMatchRows
<1>3. PictureTypes'
  BY <1>1, <1>2 DEF PictureTypes
<1>h. /\ \A g \in Hands \ {h} : hand'[g] = hand[g]
      /\ hand'[h].pc = "done" /\ hand'[h].id = Main /\ table' = table /\ Main \in Folders
      /\ \A g \in Hands : hand[g].id \in Folders
  BY <1>1, <1>2 DEF PictureTypes, HandType
<1>f. \A j \in Folders : /\ folder'[j].state = "none" => folder'[j].link = None
                         /\ folder[j].state # "none" => folder'[j].state # "none"
  <2>1. \A j \in Folders \ {i} : folder'[j].state = "none" => folder'[j].link = None
    BY <1>1, <1>2 DEF Steps
  <2>2. folder'[i].state # "none" /\ folder[i].state = "none"
    BY <1>1
  <2>3. QED  BY <1>1, <2>1, <2>2
<1>g. \A g \in Hands : hand'[g].pc \in {"upload", "read", "commit"} => folder'[hand'[g].id].state # "none"
  <2>1. SUFFICES ASSUME NEW g \in Hands, hand'[g].pc \in {"upload", "read", "commit"}
                 PROVE  folder'[hand'[g].id].state # "none"
    OBVIOUS
  <2>2. hand'[g] = hand[g]
    BY <1>h, <2>1
  <2>3. folder[hand[g].id].state # "none"
    BY <1>2, <2>1, <2>2 DEF Steps
  <2>4. QED  BY <1>f, <1>h, <2>2, <2>3
<1>4. Steps'
  BY <1>2, <1>f, <1>g, <1>h DEF Steps
<1>a. \A g \in Hands : Unknown(g) => Unknown(g)'
  BY <1>1 DEF Unknown
<1>5. Known'
  BY <1>1, <1>2, <1>a DEF Known
<1>b. \A x, y \in Folders :
        folder'[x].link = folder'[y].link /\ folder'[x].link \in Images!Keys \ doubtful' => x = y
  <2>1. SUFFICES ASSUME NEW x \in Folders, NEW y \in Folders,
                        folder'[x].link = folder'[y].link, folder'[x].link \in Images!Keys \ doubtful'
                 PROVE  x = y
    OBVIOUS
  <2>2. folder[x].link = folder[y].link /\ folder[x].link \in Images!Keys \ doubtful
    BY <1>1, <2>1
  <2>3. QED  BY <1>2, <2>2 DEF OneRow
<1>c. \A g \in Hands, j \in Folders :
        hand'[g].seen \in Images!Keys \ doubtful' /\ folder'[j].link = hand'[g].seen
        => (hand'[g].pc \in {"upload", "commit"} => j = hand'[g].id) /\ hand'[g].pc # "cleanup"
  <2>1. SUFFICES ASSUME NEW g \in Hands, NEW j \in Folders,
                        hand'[g].seen \in Images!Keys \ doubtful', folder'[j].link = hand'[g].seen
                 PROVE  (hand'[g].pc \in {"upload", "commit"} => j = hand'[g].id) /\ hand'[g].pc # "cleanup"
    OBVIOUS
  <2>2. g # h
    BY <1>1, <2>1
  <2>3. hand'[g] = hand[g]
    BY <1>1, <2>2
  <2>4. hand[g].seen \in Images!Keys \ doubtful /\ folder[j].link = hand[g].seen
    BY <1>1, <2>1, <2>3
  <2>5. QED  BY <1>2, <2>3, <2>4 DEF OneRow
<1>6. OneRow'
  BY <1>b, <1>c DEF OneRow
<1>7. (Images!PicturesResolve)'
  BY <1>1, <1>2 DEF Images!PicturesResolve
<1>d. \A g \in Hands \ {h} : (Images!Owned(g))' = Images!Owned(g)
  BY <1>1 DEF Images!Owned
<1>e. Images!Owned(h) = {}
  BY <1>1 DEF Images!Owned
<1>8. (Images!NoFileIsForgotten)'
  <2>1. SUFFICES ASSUME NEW k \in files'
                 PROVE  \/ \E j \in Folders : folder'[j].link = k
                        \/ \E g \in Hands : k \in (Images!Owned(g))'
                        \/ k \in stray'
    BY DEF Images!NoFileIsForgotten
  <2>3. k \in files
    BY <1>1, <2>1
  <2>4. \/ \E j \in Folders : folder[j].link = k
        \/ \E g \in Hands \ {h} : k \in Images!Owned(g)
        \/ k \in Images!Owned(h) \/ k \in stray
    BY <1>2, <2>3 DEF Images!NoFileIsForgotten
  <2>5. k # None /\ k # Outside
    BY <1>2, <2>3 DEF PictureTypes
  <2>6. QED  BY <1>1, <1>2, <2>1, <1>d, <1>e, <2>4, <2>5 DEF Steps
<1>9. QED  BY <1>3, <1>4, <1>5, <1>6, <1>7, <1>8 DEF PictureInv, FilesMatchRows

LEMMA SetDeletedKeeps ==
  ASSUME PictureInv, NEW h \in Hands, NEW S \in SUBSET Folders, NEW from \in {"live", "deleted"},
        NEW to \in {"live", "deleted"}, Images!SetDeleted(h, S, from, to)
  PROVE  PictureInv'
<1> USE PictureConstants
<1>1. /\ hand' \in [Hands -> HandType]
      /\ \A g \in Hands \ {h} : hand'[g] = hand[g]
      /\ hand[h].pc = "new"
      /\ folder' \in [Folders -> FolderType]
      /\ \A j \in Folders : folder'[j].link = folder[j].link /\
            (folder'[j].state = "none" <=> folder[j].state = "none")
      /\ hand'[h].pc = "done" /\ hand'[h].op = "" /\ hand'[h].id = Main
      /\ hand'[h].seen = None /\ hand'[h].link = None
      /\ UNCHANGED <<table, files, doubtful, stray>>
      /\ slips' = slips
  <2>1. /\ hand \in [Hands -> HandType] /\ folder \in [Folders -> FolderType]
        /\ hand' = [hand EXCEPT ![h] = Images!Waiting("done")]
        /\ folder' = [j \in Folders |-> IF j \in S /\ folder[j].state = from
                                        THEN [folder[j] EXCEPT !.state = to] ELSE folder[j]]
        /\ hand[h].pc = "new" /\ UNCHANGED <<table, files, doubtful, stray, slips>>
    BY DEF Images!SetDeleted, Images!Finished, Images!Goes, PictureInv, PictureTypes
  <2>2. ASSUME NEW j \in Folders
        PROVE  /\ folder'[j] \in FolderType /\ folder'[j].link = folder[j].link
               /\ folder'[j].state = "none" <=> folder[j].state = "none"
    BY <2>1 DEF FolderType
  <2>3. folder' \in [Folders -> FolderType]
    BY <2>1, <2>2
  <2>4. hand' \in [Hands -> HandType]
    BY <2>1 DEF HandType, Images!Waiting
  <2>5. QED  BY <2>1, <2>2, <2>3, <2>4 DEF Images!Waiting
<1>2. /\ Steps /\ Known /\ OneRow /\ Images!PicturesResolve /\ Images!NoFileIsForgotten
      /\ PictureTypes
  BY DEF PictureInv, FilesMatchRows
<1>3. PictureTypes'
  BY <1>1, <1>2 DEF PictureTypes
<1>h. /\ \A g \in Hands \ {h} : hand'[g] = hand[g]
      /\ hand'[h].pc = "done" /\ hand'[h].id = Main /\ table' = table /\ Main \in Folders
      /\ \A g \in Hands : hand[g].id \in Folders
  BY <1>1, <1>2 DEF PictureTypes, HandType
<1>f. \A j \in Folders : /\ folder'[j].state = "none" => folder'[j].link = None
                         /\ folder[j].state # "none" => folder'[j].state # "none"
  BY <1>1, <1>2 DEF Steps
<1>g. \A g \in Hands : hand'[g].pc \in {"upload", "read", "commit"} => folder'[hand'[g].id].state # "none"
  <2>1. SUFFICES ASSUME NEW g \in Hands, hand'[g].pc \in {"upload", "read", "commit"}
                 PROVE  folder'[hand'[g].id].state # "none"
    OBVIOUS
  <2>2. hand'[g] = hand[g]
    BY <1>h, <2>1
  <2>3. folder[hand[g].id].state # "none"
    BY <1>2, <2>1, <2>2 DEF Steps
  <2>4. QED  BY <1>f, <1>h, <2>2, <2>3
<1>4. Steps'
  BY <1>2, <1>f, <1>g, <1>h DEF Steps
<1>a. \A g \in Hands : Unknown(g) => Unknown(g)'
  BY <1>1 DEF Unknown
<1>5. Known'
  BY <1>1, <1>2, <1>a DEF Known
<1>b. \A x, y \in Folders :
        folder'[x].link = folder'[y].link /\ folder'[x].link \in Images!Keys \ doubtful' => x = y
  <2>1. SUFFICES ASSUME NEW x \in Folders, NEW y \in Folders,
                        folder'[x].link = folder'[y].link, folder'[x].link \in Images!Keys \ doubtful'
                 PROVE  x = y
    OBVIOUS
  <2>2. folder[x].link = folder[y].link /\ folder[x].link \in Images!Keys \ doubtful
    BY <1>1, <2>1
  <2>3. QED  BY <1>2, <2>2 DEF OneRow
<1>c. \A g \in Hands, j \in Folders :
        hand'[g].seen \in Images!Keys \ doubtful' /\ folder'[j].link = hand'[g].seen
        => (hand'[g].pc \in {"upload", "commit"} => j = hand'[g].id) /\ hand'[g].pc # "cleanup"
  <2>1. SUFFICES ASSUME NEW g \in Hands, NEW j \in Folders,
                        hand'[g].seen \in Images!Keys \ doubtful', folder'[j].link = hand'[g].seen
                 PROVE  (hand'[g].pc \in {"upload", "commit"} => j = hand'[g].id) /\ hand'[g].pc # "cleanup"
    OBVIOUS
  <2>2. g # h
    BY <1>1, <2>1
  <2>3. hand'[g] = hand[g]
    BY <1>1, <2>2
  <2>4. hand[g].seen \in Images!Keys \ doubtful /\ folder[j].link = hand[g].seen
    BY <1>1, <2>1, <2>3
  <2>5. QED  BY <1>2, <2>3, <2>4 DEF OneRow
<1>6. OneRow'
  BY <1>b, <1>c DEF OneRow
<1>7. (Images!PicturesResolve)'
  BY <1>1, <1>2 DEF Images!PicturesResolve
<1>d. \A g \in Hands \ {h} : (Images!Owned(g))' = Images!Owned(g)
  BY <1>1 DEF Images!Owned
<1>e. Images!Owned(h) = {}
  BY <1>1 DEF Images!Owned
<1>8. (Images!NoFileIsForgotten)'
  <2>1. SUFFICES ASSUME NEW k \in files'
                 PROVE  \/ \E j \in Folders : folder'[j].link = k
                        \/ \E g \in Hands : k \in (Images!Owned(g))'
                        \/ k \in stray'
    BY DEF Images!NoFileIsForgotten
  <2>3. k \in files
    BY <1>1, <2>1
  <2>4. \/ \E j \in Folders : folder[j].link = k
        \/ \E g \in Hands \ {h} : k \in Images!Owned(g)
        \/ k \in Images!Owned(h) \/ k \in stray
    BY <1>2, <2>3 DEF Images!NoFileIsForgotten
  <2>5. k # None /\ k # Outside
    BY <1>2, <2>3 DEF PictureTypes
  <2>6. QED  BY <1>1, <1>2, <2>1, <1>d, <1>e, <2>4, <2>5
<1>9. QED  BY <1>3, <1>4, <1>5, <1>6, <1>7, <1>8 DEF PictureInv, FilesMatchRows

\* A commit that links l: the file of h itself, or what the form or the row of h has.
Relinks(h, i, l) ==
  /\ folder' \in [Folders -> FolderType]
  /\ \A j \in Folders \ {i} : folder'[j] = folder[j]
  /\ folder'[i].state = folder[i].state /\ folder'[i].link = l
  /\ IF hand[h].op = "upload" THEN l = h ELSE l \in {None, hand[h].link}
  /\ files' = files /\ table' = table /\ slips' \in 0 .. MaxSlips
  /\ doubtful \subseteq doubtful' /\ doubtful' \subseteq (doubtful \union {l}) \intersect Images!Keys
  /\ l \in Images!Keys \ doubtful' => l = folder[i].link \/ (l = h /\ hand[h].op = "upload")
  /\ stray \subseteq stray' /\ stray' \subseteq Images!Keys
  /\ folder[i].link \in Images!Keys =>
       folder[i].link = l \/ folder[i].link \in stray'
       \/ (hand'[h].pc = "cleanup" /\ hand'[h].seen = folder[i].link)

\* And what h does next.
GoesOn(h, l) ==
  /\ hand' \in [Hands -> HandType]
  /\ \A g \in Hands \ {h} : hand'[g] = hand[g]
  /\ hand'[h].pc \in {"cleanup", "undo", "done"} /\ hand'[h].seen \in {hand[h].seen, None}
  /\ hand'[h].link \in {hand[h].link, None} /\ hand'[h].id \in {hand[h].id, Main}
  /\ hand'[h].pc = "undo" => hand'[h].op = "upload" /\ l = h /\ h \in doubtful'
  /\ hand'[h].pc = "cleanup" => /\ hand'[h].seen = hand[h].seen /\ hand[h].seen # None
                                /\ (l = h /\ hand[h].op = "upload") \/ l = None

LEMMA RelinksKeeps ==
  ASSUME PictureInv, NEW h \in Hands, hand[h].pc = "commit", NEW l,
         NEW i \in Folders, i = hand[h].id, Relinks(h, i, l), GoesOn(h, l)
  PROVE  PictureInv'
<1> USE PictureConstants
<1>1. \A j \in Folders : folder'[j].link = (IF j = i THEN l ELSE folder[j].link)
  BY DEF Relinks
<1>2. /\ Steps /\ Known /\ OneRow /\ Images!PicturesResolve /\ Images!NoFileIsForgotten
      /\ PictureTypes
  BY DEF PictureInv, FilesMatchRows
<1>3. PictureTypes'
  BY <1>1, <1>2 DEF PictureTypes, Relinks, GoesOn
<1>4. Steps'
  <2>1. \A j \in Folders : folder'[j].state = "none" => folder'[j].link = None
    <3>1. folder[i].state # "none"
      BY <1>2 DEF Steps
    <3>2. QED  BY <1>1, <1>2, <3>1 DEF Relinks, Steps
  <2>2. \A j \in Folders : folder'[j].state = folder[j].state
    BY DEF Relinks
  <2>3. \A g \in Hands : hand[g].id \in Folders
    BY <1>2 DEF PictureTypes, HandType
  <2>4. QED  BY <1>2, <2>1, <2>2, <2>3 DEF Relinks, GoesOn, Steps
<1>5. Unknown(h) /\ (hand[h].op = "upload" => h \in files)
  BY <1>2 DEF Known
<1>6. \A g \in Hands \ {h} : Unknown(g) => Unknown(g)'
  BY <1>1 DEF Relinks, GoesOn, Unknown
<1>7. Known'
  BY <1>2, <1>5, <1>6 DEF Known, Relinks, GoesOn
<1>8. \A x, y \in Folders :
        folder'[x].link = folder'[y].link /\ folder'[x].link \in Images!Keys \ doubtful' => x = y
  <2>1. SUFFICES ASSUME NEW x \in Folders, NEW y \in Folders,
                        folder'[x].link = folder'[y].link, folder'[x].link \in Images!Keys \ doubtful'
                 PROVE  x = y
    OBVIOUS
  <2>2. folder'[x].link # h \/ (x = i /\ y = i)
    <3>1. \A j \in Folders \ {i} : folder'[j].link # h
      BY <1>1, <1>5 DEF Unknown
    <3>2. QED  BY <2>1, <3>1
  <2>3. CASE folder'[x].link # h
    <3>1. folder[x].link = folder'[x].link /\ folder[y].link = folder'[y].link
      BY <1>1, <2>1, <2>3 DEF Relinks
    <3>2. QED  BY <1>1, <1>2, <2>1, <3>1 DEF OneRow, Relinks
  <2>4. QED  BY <2>2, <2>3
<1>9. \A g \in Hands, j \in Folders :
        hand'[g].seen \in Images!Keys \ doubtful' /\ folder'[j].link = hand'[g].seen
        => (hand'[g].pc \in {"upload", "commit"} => j = hand'[g].id) /\ hand'[g].pc # "cleanup"
  <2>1. SUFFICES ASSUME NEW g \in Hands, NEW j \in Folders,
                        hand'[g].seen \in Images!Keys \ doubtful', folder'[j].link = hand'[g].seen
                 PROVE  (hand'[g].pc \in {"upload", "commit"} => j = hand'[g].id) /\ hand'[g].pc # "cleanup"
    OBVIOUS
  <2>2. hand'[g].seen = hand[g].seen
    BY <2>1 DEF GoesOn
  <2>3. folder'[j].link # h
    BY <1>5, <2>1, <2>2 DEF Unknown
  <2>4. folder[j].link = folder'[j].link
    BY <1>1, <2>1, <2>3 DEF Relinks
  <2>5. hand[g].seen \in Images!Keys \ doubtful /\ folder[j].link = hand[g].seen
    BY <2>1, <2>2, <2>4 DEF Relinks
  <2>6. CASE g # h
    BY <1>2, <2>5, <2>6 DEF OneRow, GoesOn
  <2>7. CASE g = h
    <3>1. j = i
      BY <1>1, <1>2, <2>5, <2>7 DEF OneRow
    <3>2. l # h /\ l # None
      BY <1>1, <2>1, <2>3, <3>1 DEF Relinks
    <3>3. QED  BY <2>7, <3>2 DEF GoesOn
  <2>8. QED  BY <2>6, <2>7
<1>10. OneRow'
  BY <1>8, <1>9 DEF OneRow
<1>11. (Images!PicturesResolve)'
  <2>1. SUFFICES ASSUME NEW j \in Folders
                 PROVE  folder'[j].link \in files' \union {None, Outside} \union doubtful'
    BY DEF Images!PicturesResolve
  <2>2. folder[j].link \in files \union {None, Outside} \union doubtful
    BY <1>2 DEF Images!PicturesResolve
  <2>3. CASE j # i
    BY <1>1, <2>2, <2>3 DEF Relinks
  <2>4. CASE j = i
    <3>1. folder'[j].link = l /\ l \in Images!Links
      BY <1>1, <2>4 DEF Relinks, FolderType
    <3>2. QED  BY <1>1, <1>5, <2>2, <2>4, <3>1 DEF Relinks
  <2>5. QED  BY <2>3, <2>4
<1>12. (Images!NoFileIsForgotten)'
  <2>1. SUFFICES ASSUME NEW k \in files'
                 PROVE  \/ \E j \in Folders : folder'[j].link = k
                        \/ \E g \in Hands : k \in (Images!Owned(g))'
                        \/ k \in stray'
    BY DEF Images!NoFileIsForgotten
  <2>2. k \in files /\ k \in Images!Keys
    BY <1>2, <2>1 DEF PictureTypes, Relinks
  <2>3. \/ \E j \in Folders : folder[j].link = k
        \/ \E g \in Hands \ {h} : k \in Images!Owned(g)
        \/ k \in Images!Owned(h) \/ k \in stray
    BY <1>2, <2>2 DEF Images!NoFileIsForgotten
  <2>4. ASSUME NEW j \in Folders, folder[j].link = k
        PROVE  (\E x \in Folders : folder'[x].link = k) \/ k \in stray' \/ k \in (Images!Owned(h))'
    BY <1>1, <2>2, <2>4 DEF Relinks, Images!Owned
  <2>5. \A g \in Hands \ {h} : (Images!Owned(g))' = Images!Owned(g)
    BY DEF Images!Owned, GoesOn
  <2>6. k \in Images!Owned(h) => folder'[i].link = k
    BY <1>1 DEF Images!Owned, Relinks
  <2>7. QED  BY <2>3, <2>4, <2>5, <2>6 DEF Relinks
<1>13. QED  BY <1>3, <1>4, <1>7, <1>10, <1>11, <1>12 DEF PictureInv, FilesMatchRows

LEMMA CommitKeeps ==
  ASSUME PictureInv, NEW h \in Hands, Images!Commit(h)
  PROVE  PictureInv'
<1> USE PictureConstants
<1>1. PICK i \in Folders : i = hand[h].id
  BY DEF PictureInv, PictureTypes, HandType
<1>2. PICK l \in Images!Links : l = Images!NewLink(h)
  BY DEF PictureInv, PictureTypes, HandType, Images!NewLink
<1>3. /\ PictureTypes /\ hand[h].pc = "commit"
  BY DEF Images!Commit, PictureInv
<1>4. IF hand[h].op = "upload" THEN l = h ELSE l \in {None, hand[h].link}
  BY <1>2 DEF Images!NewLink
<1>5. /\ folder' \in [Folders -> FolderType]
      /\ \A j \in Folders \ {i} : folder'[j] = folder[j]
      /\ folder'[i].state = folder[i].state /\ folder'[i].link = l
  BY <1>1, <1>2, <1>3 DEF Images!Commit, Images!Linked, PictureTypes, FolderType
<1>6. /\ doubtful \subseteq doubtful' /\ doubtful' \subseteq (doubtful \union {l}) \intersect Images!Keys
      /\ l \in Images!Keys \ doubtful' => l = folder[i].link \/ (l = h /\ hand[h].op = "upload")
  <2>1. doubtful' = doubtful \union (IF hand[h].op \in {"upload", "remove"} \/ l = folder[i].link THEN {}
                                     ELSE {l} \ {None, Outside})
    BY <1>1, <1>2 DEF Images!Commit, Images!Risky
  <2>2. hand[h].op = "remove" => l = None
    BY <1>2 DEF Images!NewLink
  <2>3. QED  BY <1>2, <1>3, <1>4, <2>1, <2>2 DEF PictureTypes
<1>7. CASE hand[h].op \in {"upload", "remove"} /\ hand[h].seen # None
  <2>1. /\ hand' = [hand EXCEPT ![h] = [hand[h] EXCEPT !.pc = "cleanup"]]
        /\ stray' = stray \union (({folder[i].link} \ {l, None, Outside}) \ {hand[h].seen})
        /\ files' = files /\ table' = table /\ slips' = slips
    BY <1>1, <1>2, <1>7 DEF Images!Commit, Images!Goes, Images!Lost
  <2>2. folder[i].link \in Images!Links
    BY <1>3 DEF PictureTypes, FolderType
  <2>3. hand'[h] = [hand[h] EXCEPT !.pc = "cleanup"]
    BY <1>3, <2>1 DEF PictureTypes
  <2>4. hand[h] \in HandType /\ (hand[h].op = "remove" => l = None)
    BY <1>2, <1>3 DEF PictureTypes, Images!NewLink
  <2>5. /\ hand'[h].pc = "cleanup" /\ hand'[h].op = hand[h].op /\ hand'[h].id = hand[h].id
        /\ hand'[h].seen = hand[h].seen /\ hand'[h].link = hand[h].link
    BY <2>3, <2>4 DEF HandType
  <2>6. Relinks(h, i, l)
    <3>1. slips \in 0 .. MaxSlips /\ stray \subseteq Images!Keys
      BY <1>3 DEF PictureTypes
    <3>2. stray \subseteq stray' /\ stray' \subseteq Images!Keys
      BY <2>1, <2>2, <3>1
    <3>3. folder[i].link \in Images!Keys =>
            folder[i].link = l \/ folder[i].link \in stray'
       \/ (hand'[h].pc = "cleanup" /\ hand'[h].seen = folder[i].link)
      BY <2>1, <2>5
    <3>4. QED  BY <1>4, <1>5, <1>6, <2>1, <3>1, <3>2, <3>3 DEF Relinks
  <2>7. hand' \in [Hands -> HandType]
    BY <1>3, <2>1, <2>4 DEF PictureTypes, HandType
  <2>8. GoesOn(h, l)
    BY <1>3, <1>4, <1>7, <2>1, <2>4, <2>5, <2>7 DEF GoesOn, PictureTypes
  <2>9. QED  BY <1>1, <1>3, <2>6, <2>8, RelinksKeeps
<1>8. CASE ~(hand[h].op \in {"upload", "remove"} /\ hand[h].seen # None)
  <2>1. /\ hand' = [hand EXCEPT ![h] = Images!Waiting("done")]
        /\ stray' = stray \union ({folder[i].link} \ {l, None, Outside})
        /\ files' = files /\ table' = table /\ slips' = slips
    BY <1>1, <1>2, <1>8 DEF Images!Commit, Images!Goes, Images!Finished, Images!Lost
  <2>2. folder[i].link \in Images!Links
    BY <1>3 DEF PictureTypes, FolderType
  <2>3. Relinks(h, i, l)
    <3>1. slips \in 0 .. MaxSlips /\ stray \subseteq Images!Keys
      BY <1>3 DEF PictureTypes
    <3>2. stray \subseteq stray' /\ stray' \subseteq Images!Keys
      BY <2>1, <2>2, <3>1
    <3>3. folder[i].link \in Images!Keys => folder[i].link = l \/ folder[i].link \in stray'
      BY <2>1
    <3>4. QED  BY <1>4, <1>5, <1>6, <2>1, <3>1, <3>2, <3>3 DEF Relinks
  <2>4. GoesOn(h, l)
    BY <1>3, <2>1 DEF GoesOn, PictureTypes, HandType, Images!Waiting
  <2>5. QED  BY <1>1, <1>3, <2>3, <2>4, RelinksKeeps
<1>9. QED  BY <1>7, <1>8

LEMMA LostCommitKeeps ==
  ASSUME PictureInv, NEW h \in Hands, Images!CommitFails(h), Images!Linked(h),
         doubtful' = doubtful \union ({Images!NewLink(h)} \ {None, Outside}),
         stray' = stray \union Images!Lost(h, Images!NewLink(h))
  PROVE  PictureInv'
<1> USE PictureConstants
<1>1. PICK i \in Folders : i = hand[h].id
  BY DEF PictureInv, PictureTypes, HandType
<1>2. PICK l \in Images!Links : l = Images!NewLink(h)
  BY DEF PictureInv, PictureTypes, HandType, Images!NewLink
<1>3. /\ PictureTypes /\ hand[h].pc = "commit" /\ files' = files /\ table' = table
  BY DEF Images!CommitFails, PictureInv
<1>0. slips' \in 0 .. MaxSlips
  BY <1>3 DEF Images!CommitFails, Images!Slip, PictureTypes
<1>4. IF hand[h].op = "upload" THEN l = h ELSE l \in {None, hand[h].link}
  BY <1>2 DEF Images!NewLink
<1>5. /\ folder' \in [Folders -> FolderType]
      /\ \A j \in Folders \ {i} : folder'[j] = folder[j]
      /\ folder'[i].state = folder[i].state /\ folder'[i].link = l
  BY <1>1, <1>2, <1>3 DEF Images!Linked, PictureTypes, FolderType
<1>6. folder[i].link \in Images!Links /\ hand[h] \in HandType
  BY <1>3 DEF PictureTypes, FolderType
<1>7. /\ doubtful' = doubtful \union ({l} \ {None, Outside})
      /\ stray' = stray \union ({folder[i].link} \ {l, None, Outside})
  BY <1>1, <1>2 DEF Images!Lost
<1>8. Relinks(h, i, l)
  <2>1. /\ doubtful \subseteq doubtful' /\ doubtful' \subseteq (doubtful \union {l}) \intersect Images!Keys
        /\ l \in Images!Keys \ doubtful' => l = folder[i].link
    BY <1>2, <1>3, <1>7 DEF PictureTypes
  <2>2. stray \subseteq stray' /\ stray' \subseteq Images!Keys
    BY <1>3, <1>6, <1>7 DEF PictureTypes
  <2>3. folder[i].link \in Images!Keys => folder[i].link = l \/ folder[i].link \in stray'
    BY <1>7
  <2>4. QED  BY <1>0, <1>3, <1>4, <1>5, <2>1, <2>2, <2>3 DEF Relinks
<1>9. CASE hand[h].op = "upload"
  <2>1. hand' = [hand EXCEPT ![h] = [hand[h] EXCEPT !.pc = "undo"]]
    BY <1>9 DEF Images!CommitFails, Images!Goes
  <2>2. hand'[h] = [hand[h] EXCEPT !.pc = "undo"]
    BY <1>3, <2>1 DEF PictureTypes
  <2>3. /\ hand'[h].pc = "undo" /\ hand'[h].op = hand[h].op /\ hand'[h].id = hand[h].id
        /\ hand'[h].seen = hand[h].seen /\ hand'[h].link = hand[h].link
    BY <1>6, <2>2 DEF HandType
  <2>4. hand' \in [Hands -> HandType]
    BY <1>3, <1>6, <2>1 DEF PictureTypes, HandType
  <2>5. GoesOn(h, l)
    BY <1>3, <1>4, <1>7, <1>9, <2>1, <2>3, <2>4 DEF GoesOn, PictureTypes
  <2>6. QED  BY <1>1, <1>3, <1>8, <2>5, RelinksKeeps
<1>10. CASE hand[h].op # "upload"
  <2>1. hand' = [hand EXCEPT ![h] = Images!Waiting("done")]
    BY <1>10 DEF Images!CommitFails, Images!Goes, Images!Finished
  <2>2. GoesOn(h, l)
    BY <1>3, <2>1 DEF GoesOn, PictureTypes, HandType, Images!Waiting
  <2>3. QED  BY <1>1, <1>3, <1>8, <2>2, RelinksKeeps
<1>11. QED  BY <1>9, <1>10

LEMMA RolledBackKeeps ==
  ASSUME PictureInv, NEW h \in Hands, Images!CommitFails(h), UNCHANGED <<folder, doubtful, stray>>
  PROVE  PictureInv'
<1> USE PictureConstants
<1>0. slips' \in 0 .. MaxSlips
  BY DEF Images!CommitFails, Images!Slip, PictureInv, PictureTypes
<1>1. /\ hand' \in [Hands -> HandType]
      /\ \A g \in Hands \ {h} : hand'[g] = hand[g]
      /\ hand[h].pc = "commit"
      /\ hand'[h].pc = (IF hand[h].op = "upload" THEN "undo" ELSE "done")
      /\ hand[h].op = "upload" => hand'[h].op = "upload"
      /\ hand'[h].id \in {hand[h].id, Main}
      /\ hand'[h].seen \in {hand[h].seen, None} /\ hand'[h].link \in {hand[h].link, None}
      /\ UNCHANGED <<table, folder, files, doubtful, stray>>
  <2>1. hand \in [Hands -> HandType] /\ hand[h] \in HandType /\ Main \in Folders
    BY DEF PictureInv, PictureTypes
  <2>2. CASE hand[h].op = "upload"
    <3>1. /\ hand' = [hand EXCEPT ![h] = [hand[h] EXCEPT !.pc = "undo"]]
          /\ hand[h].pc = "commit" /\ UNCHANGED <<table, files>>
      BY <2>2 DEF Images!CommitFails, Images!Goes
    <3>2. hand'[h] = [hand[h] EXCEPT !.pc = "undo"] /\ \A g \in Hands \ {h} : hand'[g] = hand[g]
      BY <2>1, <3>1
    <3>3. hand' \in [Hands -> HandType]
      BY <2>1, <3>1 DEF HandType
    <3>4. QED  BY <2>1, <2>2, <3>1, <3>2, <3>3 DEF HandType
  <2>3. CASE hand[h].op # "upload"
    <3>1. /\ hand' = [hand EXCEPT ![h] = Images!Waiting("done")]
          /\ hand[h].pc = "commit" /\ UNCHANGED <<table, files>>
      BY <2>3 DEF Images!CommitFails, Images!Goes, Images!Finished
    <3>2. hand'[h] = Images!Waiting("done") /\ \A g \in Hands \ {h} : hand'[g] = hand[g]
      BY <2>1, <3>1
    <3>3. hand' \in [Hands -> HandType]
      BY <2>1, <3>1 DEF HandType, Images!Waiting
    <3>4. QED  BY <2>1, <2>3, <3>1, <3>2, <3>3 DEF Images!Waiting
  <2>4. QED  BY <2>2, <2>3
<1>2. /\ Steps /\ Known /\ OneRow /\ Images!PicturesResolve /\ Images!NoFileIsForgotten
      /\ PictureTypes
  BY DEF PictureInv, FilesMatchRows
<1>3. PictureTypes'
  BY <1>0, <1>1, <1>2 DEF PictureTypes
<1>4. Steps'
  BY <1>1, <1>2 DEF Steps
<1>5. \A g \in Hands : Unknown(g) => Unknown(g)'
  BY <1>1 DEF Unknown
<1>6. Known'
  BY <1>1, <1>2, <1>5 DEF Known
<1>7. OneRow'
  BY <1>1, <1>2 DEF OneRow
<1>8. (Images!PicturesResolve)'
  BY <1>1, <1>2 DEF Images!PicturesResolve
<1>9. (Images!NoFileIsForgotten)'
  BY <1>1, <1>2 DEF Images!NoFileIsForgotten, Images!Owned
<1>10. QED  BY <1>3, <1>4, <1>6, <1>7, <1>8, <1>9 DEF PictureInv, FilesMatchRows

LEMMA PicturesInit ==
  ASSUME Images!Init
  PROVE  PictureInv
<1> USE PictureConstants
<1>1. PICK start \in {None, Start} :
        /\ folder = [i \in Folders |-> IF i = Main THEN [state |-> "live", link |-> start] ELSE Images!NoFolder]
        /\ files = {start} \ {None}
  BY DEF Images!Init
<1>2. /\ start \in Images!Links /\ None \in Images!Links
      /\ {start} \ {None} \subseteq Images!Keys
  OBVIOUS
<1>3. \A i \in Folders : /\ folder[i].link = (IF i = Main THEN start ELSE None)
                         /\ folder[i].state = (IF i = Main THEN "live" ELSE "none")
  BY <1>1 DEF Images!NoFolder
<1>4. folder \in [Folders -> FolderType]
  <2>1. Images!NoFolder \in FolderType /\ [state |-> "live", link |-> start] \in FolderType
    BY <1>2 DEF Images!NoFolder, FolderType
  <2>2. QED  BY <1>1, <2>1
<1>5. PICK r : r = [pc |-> "new", op |-> "", id |-> Main, seen |-> None, link |-> None]
  OBVIOUS
<1>6. /\ hand \in [Hands -> HandType]
      /\ \A h \in Hands : /\ hand[h].pc = "new" /\ hand[h].op = "" /\ hand[h].id = Main
                          /\ hand[h].seen = None /\ hand[h].link = None
  <2>1. r \in HandType /\ r.pc = "new" /\ r.op = "" /\ r.id = Main /\ r.seen = None /\ r.link = None
    BY <1>2, <1>5 DEF HandType
  <2>2. hand = [h \in Hands |-> r]
    BY <1>5 DEF Images!Init, Images!Waiting
  <2>3. QED  BY <2>1, <2>2
<1>7. doubtful = {} /\ stray = {} /\ slips = 0 /\ table \in {"category", "company", "profile"}
  BY DEF Images!Init
<1>8. PictureTypes
  <2>1. files \subseteq Images!Keys
    BY <1>1, <1>2
  <2>2. slips \in 0 .. MaxSlips
    BY <1>7
  <2>3. doubtful \subseteq Images!Keys /\ stray \subseteq Images!Keys
    BY <1>7
  <2>4. hand \in [Hands -> HandType]
    BY <1>6
  <2>5. QED  BY <1>4, <1>7, <2>1, <2>2, <2>3, <2>4 DEF PictureTypes
<1>9. Steps
  BY <1>3, <1>6 DEF Steps
<1>10. Known
  <2>1. \A h \in Hands : h # None /\ h # start
    OBVIOUS
  <2>2. \A i \in Folders : folder[i].link \in {start, None}
    BY <1>3
  <2>3. \A h \in Hands : hand[h].pc = "new" /\ hand[h].seen = None /\ hand[h].link = None
    BY <1>6
  <2>4. \A h \in Hands : Unknown(h)
    BY <1>7, <2>1, <2>2, <2>3 DEF Unknown
  <2>5. QED  BY <2>3, <2>4 DEF Known
<1>11. OneRow
  BY <1>3, <1>6, <1>7 DEF OneRow
<1>12. Images!PicturesResolve
  BY <1>1, <1>3 DEF Images!PicturesResolve
<1>13. Images!NoFileIsForgotten
  BY <1>1, <1>3 DEF Images!NoFileIsForgotten
<1>14. QED  BY <1>8, <1>9, <1>10, <1>11, <1>12, <1>13 DEF PictureInv, FilesMatchRows

LEMMA PicturesStep ==
  ASSUME PictureInv, Images!Next
  PROVE  PictureInv'
<1>1. ASSUME NEW h \in Hands, NEW i \in Folders,
             \/ Images!UploadImage(h, i) \/ Images!DeleteImage(h, i)
             \/ Images!UploadSignature(h, i) \/ Images!DeleteSignature(h, i)
      PROVE  PictureInv'
  <2>1. PICK op \in {"upload", "remove"} : Images!Find(h, i, op) /\ table # "profile"
    BY <1>1 DEF Images!UploadImage, Images!DeleteImage, Images!UploadSignature, Images!DeleteSignature
  <2>2. QED  BY <2>1, FindKeeps
<1>2. ASSUME NEW h \in Hands, NEW i \in Folders, NEW link \in {Start, Outside}, Images!FindToWrite(h, i, link)
      PROVE  PictureInv'
  BY <1>2, FindToWriteKeeps
<1>3. ASSUME NEW h \in Hands, NEW i \in Folders, NEW link \in {Start, Outside, None}, Images!Create(h, i, link)
      PROVE  PictureInv'
  BY <1>3, CreateKeeps
<1>4. ASSUME NEW h \in Hands, NEW S \in SUBSET Folders, Images!BulkDelete(h, S) \/ Images!BulkRestore(h, S)
      PROVE  PictureInv'
  <2>1. PICK from \in {"live", "deleted"}, to \in {"live", "deleted"} : Images!SetDeleted(h, S, from, to)
    BY <1>4 DEF Images!BulkDelete, Images!BulkRestore
  <2>2. QED  BY <2>1, SetDeletedKeeps
<1>5. ASSUME NEW h \in Hands, NEW i \in Folders, Images!Delete(h, i) \/ Images!Restore(h, i)
      PROVE  PictureInv'
  <2>1. {i} \in SUBSET Folders /\ (Images!BulkDelete(h, {i}) \/ Images!BulkRestore(h, {i}))
    BY <1>5 DEF Images!Delete, Images!Restore, Images!BulkDelete, Images!BulkRestore
  <2>2. QED  BY <1>4, <2>1
<1>6. ASSUME NEW h \in Hands, Images!Commit(h) \/ Images!CommitFails(h)
      PROVE  PictureInv'
  <2>1. CASE Images!Commit(h)
    BY <2>1, CommitKeeps
  <2>2. CASE Images!CommitFails(h) /\ UNCHANGED <<folder, doubtful, stray>>
    BY <2>2, RolledBackKeeps
  <2>3. CASE /\ Images!CommitFails(h) /\ Images!Linked(h)
             /\ doubtful' = doubtful \union ({Images!NewLink(h)} \ {None, Outside})
             /\ stray' = stray \union Images!Lost(h, Images!NewLink(h))
    BY <2>3, LostCommitKeeps
  <2>4. QED  BY <1>6, <2>1, <2>2, <2>3 DEF Images!CommitFails
<1>7. ASSUME NEW h \in Hands,
             \/ Images!Begin(h) \/ Images!ReadUser(h) \/ Images!Upload(h) \/ Images!UploadFails(h)
             \/ Images!ReadLink(h) \/ Images!Undo(h) \/ Images!Cleanup(h) \/ Images!GiveUp(h)
      PROVE  PictureInv'
  BY <1>7, BeginKeeps, ReadUserKeeps, UploadKeeps, UploadFailsKeeps, ReadLinkKeeps, UndoKeeps, CleanupKeeps,
     GiveUpKeeps
<1>8. QED  BY <1>1, <1>2, <1>3, <1>4, <1>5, <1>6, <1>7 DEF Images!Next

LEMMA PicturesStay ==
  ASSUME PictureInv, UNCHANGED images
  PROVE  PictureInv'
BY DEF PictureInv, PictureTypes, Steps, Known, Unknown, OneRow, FilesMatchRows, images,
       Images!PicturesResolve, Images!NoFileIsForgotten, Images!Owned

----------------------------------------------------------------------------
(* Inbox: the inductive invariant.                                         *)

EntryType == [state : {"none", "live", "deleted"}, read : BOOLEAN]
Stages == {"new", "commit", "event", "admins", "visitor", "show", "done"}
Operations == {"", "create", "read", "delete", "restore", "bulkDelete", "bulkRestore"}
ClerkType == {r \in [pc : Stages, op : Operations, ids : SUBSET Entries, img : EntryType, unseen : SUBSET Entries] :
                r.unseen \subseteq r.ids}
Receivers == {"admins", "visitor", "board"}

DeskTypes ==
  /\ kind \in {"message", "call"}
  /\ entry \in [Entries -> EntryType] /\ clerk \in [Clerks -> ClerkType]
  /\ board \in [shown : SUBSET Entries, read : SUBSET Entries]
  /\ mailed \subseteq {"admins", "visitor"} \X Entries /\ crossed \subseteq Entries
  /\ missed \subseteq Receivers \X Entries /\ drops \in 0 .. MaxDrops

\* Calls are there from the start; only their removal and return are announced, and
\* an event that crossed no other one tells of the state the call is in.  What a
\* snapshot has listed is as it was, unless another request was quicker.
CallsInOrder ==
  kind = "call" =>
    /\ \A e \in Entries : entry[e].state # "none"
    /\ \A c \in Clerks :
         /\ clerk[c].pc \notin {"admins", "visitor", "show"}
         /\ clerk[c].pc \in {"commit", "event"} => clerk[c].op \in Desk!Removed \union Desk!Brought
         /\ clerk[c].pc = "event" =>
              \A e \in clerk[c].ids \ crossed : entry[e].state = Desk!To(clerk[c].op)
         /\ clerk[c].pc = "commit" =>
              \A e \in clerk[c].ids \ clerk[c].unseen : entry[e].state = Desk!From(clerk[c].op)

\* One request only leaves a message; nobody hears of it before that request has
\* looked, and then one after the other.
Untold(e) == e \notin board.shown /\ \A to \in {"admins", "visitor"} : <<to, e>> \notin mailed
Settled(to, e) == <<to, e>> \in mailed \union missed
Stage(c) ==
  /\ clerk[c].op = "create" => clerk[c].pc \in {"event", "admins", "visitor", "show"}
  /\ clerk[c].pc \in {"admins", "visitor", "show"} => clerk[c].op = "create"
  /\ clerk[c].pc = "event" => clerk[c].op \in {"create", "read"}
  /\ clerk[c].pc = "commit" => clerk[c].ids # {}
Message(c, e) ==
  /\ entry[e].state # "none"
  /\ clerk[c].pc = "commit" =>
       /\ clerk[c].ids = {e} /\ clerk[c].op \in {"read", "delete", "restore"}
       /\ clerk[c].img.state = Desk!From(clerk[c].op)
       /\ e \in clerk[c].unseen \/ clerk[c].img = entry[e]
  /\ clerk[c].op = "create" =>
       /\ \A d \in Clerks : clerk[d].op = "create" /\ e \in clerk[d].ids => d = c
       /\ clerk[c].pc \in {"event", "admins"} => Untold(e)
       /\ clerk[c].pc \in {"visitor", "show"} => Settled("admins", e)
       /\ clerk[c].pc = "show" => Settled("visitor", e)
MessagesInOrder ==
  kind = "message" =>
    /\ \A c \in Clerks : Stage(c) /\ \A e \in clerk[c].ids : Message(c, e)
    /\ \A e \in Entries : entry[e].state = "none" => Untold(e)

DeskInv == DeskTypes /\ CallsInOrder /\ MessagesInOrder /\ Desk!BoardShowsCalls /\ Desk!MessagesAreTold

----------------------------------------------------------------------------
(* What the operators of Inbox do.                                         *)

\* Those who have read S do not see what becomes of it; nothing else happens to them.
Others(c, S) ==
  \A d \in Clerks \ {c} :
    /\ clerk'[d].pc = clerk[d].pc /\ clerk'[d].op = clerk[d].op
    /\ clerk'[d].ids = clerk[d].ids /\ clerk'[d].img = clerk[d].img
    /\ clerk[d].unseen \subseteq clerk'[d].unseen
    /\ clerk[d].pc = "commit" => S \intersect clerk[d].ids \subseteq clerk'[d].unseen

LEMMA DoesChanges ==
  ASSUME DeskTypes, NEW c \in Clerks, NEW r \in ClerkType, Desk!Does(c, r)
  PROVE  /\ clerk' \in [Clerks -> ClerkType] /\ clerk'[c] = r
         /\ \A d \in Clerks \ {c} : clerk'[d] = clerk[d]
BY DEF DeskTypes, Desk!Does

LEMMA NoticedChanges ==
  ASSUME DeskTypes, NEW c \in Clerks, NEW r \in ClerkType, NEW S \in SUBSET Entries, Desk!Noticed(c, S, r)
  PROVE  /\ clerk' \in [Clerks -> ClerkType] /\ clerk'[c] = r /\ Others(c, S)
<1>1. clerk' = [d \in Clerks |->
        IF d = c THEN r
        ELSE IF clerk[d].pc = "commit" THEN [clerk[d] EXCEPT !.unseen = @ \union (S \intersect clerk[d].ids)]
        ELSE clerk[d]]
  BY DEF Desk!Noticed
<1>2. ASSUME NEW d \in Clerks \ {c}
      PROVE  /\ clerk'[d] \in ClerkType
             /\ clerk'[d].pc = clerk[d].pc /\ clerk'[d].op = clerk[d].op
             /\ clerk'[d].ids = clerk[d].ids /\ clerk'[d].img = clerk[d].img
             /\ clerk[d].unseen \subseteq clerk'[d].unseen
             /\ clerk[d].pc = "commit" => S \intersect clerk[d].ids \subseteq clerk'[d].unseen
  <2>1. PICK q \in ClerkType : q = clerk[d]
    BY DEF DeskTypes
  <2>2. CASE q.pc = "commit"
    <3>1. clerk'[d] = [q EXCEPT !.unseen = @ \union (S \intersect q.ids)]
      BY <1>1, <2>1, <2>2
    <3>2. PICK U \in SUBSET Entries : U = q.unseen \union (S \intersect q.ids) /\ U \subseteq q.ids
      BY DEF ClerkType
    <3>3. clerk'[d] = [q EXCEPT !.unseen = U]
      BY <3>1, <3>2
    <3>4. /\ [q EXCEPT !.unseen = U] \in ClerkType /\ [q EXCEPT !.unseen = U].pc = q.pc
          /\ [q EXCEPT !.unseen = U].op = q.op /\ [q EXCEPT !.unseen = U].ids = q.ids
          /\ [q EXCEPT !.unseen = U].img = q.img /\ [q EXCEPT !.unseen = U].unseen = U
      BY <3>2 DEF ClerkType
    <3>5. QED  BY <2>1, <2>2, <3>2, <3>3, <3>4
  <2>3. CASE q.pc # "commit"
    BY <1>1, <2>1, <2>3
  <2>4. QED  BY <2>2, <2>3
<1>3. clerk'[c] = r
  BY <1>1
<1>4. clerk' \in [Clerks -> ClerkType]
  BY <1>1, <1>2, <1>3
<1>5. QED  BY <1>2, <1>3, <1>4 DEF Others

\* The records of a request that waits in pc for S, of one that is through.
Waits(pc, op, S) == [Desk!Free(pc) EXCEPT !.op = op, !.ids = S]
Through(op)      == [Desk!Free("done") EXCEPT !.op = op]

Clerk(r, pc, op, S) == r \in ClerkType /\ r.pc = pc /\ r.op = op /\ r.ids = S /\ r.unseen = {}

LEMMA WaitsIsAClerk ==
  ASSUME NEW pc \in Stages, NEW op \in Operations, NEW S \in SUBSET Entries
  PROVE  /\ Clerk(Waits(pc, op, S), pc, op, S)
         /\ Clerk(Through(op), "done", op, {})
         /\ Clerk(Desk!Free("done"), "done", "", {})
<1> USE DEF Clerk
<1>0. ASSUME NEW q \in Stages
      PROVE  /\ Desk!Free(q) \in ClerkType /\ Desk!Free(q).pc = q /\ Desk!Free(q).op = ""
             /\ Desk!Free(q).ids = {} /\ Desk!Free(q).unseen = {}
  BY DEF ClerkType, EntryType, Desk!Free, Desk!NoEntry, Operations
<1>1. PICK f \in ClerkType : /\ f = Desk!Free(pc) /\ f.pc = pc /\ f.unseen = {}
  BY <1>0
<1>2. PICK g \in ClerkType : /\ g = Desk!Free("done") /\ g.pc = "done" /\ g.op = "" /\ g.ids = {}
                             /\ g.unseen = {}
  BY <1>0 DEF Stages
<1>3. /\ [g EXCEPT !.op = op] \in ClerkType /\ [g EXCEPT !.op = op].pc = g.pc
      /\ [g EXCEPT !.op = op].op = op /\ [g EXCEPT !.op = op].ids = g.ids
      /\ [g EXCEPT !.op = op].unseen = g.unseen
  BY DEF ClerkType
<1>4. /\ [f EXCEPT !.op = op, !.ids = S] \in ClerkType /\ [f EXCEPT !.op = op, !.ids = S].pc = f.pc
      /\ [f EXCEPT !.op = op, !.ids = S].op = op /\ [f EXCEPT !.op = op, !.ids = S].ids = S
      /\ [f EXCEPT !.op = op, !.ids = S].unseen = f.unseen
  BY <1>1 DEF ClerkType
<1>5. Waits(pc, op, S) = [f EXCEPT !.op = op, !.ids = S] /\ Through(op) = [g EXCEPT !.op = op]
  BY <1>1, <1>2 DEF Waits, Through
<1>6. QED  BY <1>1, <1>2, <1>3, <1>4, <1>5

LEMMA ChangedKeepsMarks ==
  ASSUME NEW m \in EntryType, NEW op
  PROVE  /\ Desk!Changed(m, op) \in EntryType
         /\ Desk!Changed(m, op).state = (IF op = "read" THEN m.state ELSE Desk!To(op))
         /\ m.read => Desk!Changed(m, op).read
<1>1. CASE op = "read"
  BY <1>1 DEF Desk!Changed, EntryType
<1>2. CASE op # "read"
  BY <1>2 DEF Desk!Changed, EntryType, Desk!To
<1>3. QED  BY <1>1, <1>2

\* A statement over S.
Flipped(S, op) ==
  /\ entry' \in [Entries -> EntryType]
  /\ \A e \in S : /\ entry'[e].state = (IF op = "read" THEN entry[e].state ELSE Desk!To(op))
                  /\ entry[e].read => entry'[e].read
  /\ \A e \in Entries \ S : entry'[e] = entry[e]

LEMMA FlippedBy ==
  ASSUME DeskTypes, NEW S \in SUBSET Entries, NEW op,
         entry' = [e \in Entries |-> IF e \in S THEN Desk!Changed(entry[e], op) ELSE entry[e]]
  PROVE  Flipped(S, op)
<1>1. \A e \in Entries : entry[e] \in EntryType
  BY DEF DeskTypes
<1>2. \A e \in S : /\ entry'[e] = Desk!Changed(entry[e], op)
                   /\ entry'[e] \in EntryType
                   /\ entry'[e].state = (IF op = "read" THEN entry[e].state ELSE Desk!To(op))
                   /\ entry[e].read => entry'[e].read
  BY <1>1, ChangedKeepsMarks
<1>3. QED  BY <1>1, <1>2 DEF Flipped

LEMMA FlipChanges ==
  ASSUME DeskTypes, NEW c \in Clerks, NEW S \in SUBSET Entries,
         NEW op \in {"read", "delete", "restore", "bulkDelete", "bulkRestore"}, Desk!Flip(c, S, op)
  PROVE  /\ clerk[c].pc = "new" /\ \A e \in S : entry[e].state = Desk!From(op)
         /\ Flipped(S, op) /\ Others(c, S) /\ clerk' \in [Clerks -> ClerkType]
         /\ IF kind = "call" /\ op # "read"
            THEN clerk'[c].pc = "event" /\ clerk'[c].ids = S ELSE clerk'[c].pc = "done" /\ clerk'[c].ids = {}
         /\ clerk'[c].op = op
         /\ crossed' = crossed \union (S \intersect Desk!Pending(c))
         /\ UNCHANGED <<kind, board, mailed, missed, drops>>
<1>1. Flipped(S, op)
  BY FlippedBy DEF Desk!Flip
<1>2. CASE kind = "call" /\ op # "read"
  <2>0. "event" \in Stages /\ op \in Operations
    BY DEF Stages, Operations
  <2>a. Clerk(Waits("event", op, S), "event", op, S)
    BY <2>0, WaitsIsAClerk
  <2>1. PICK r \in ClerkType : r = Waits("event", op, S) /\ Clerk(r, "event", op, S)
    BY <2>a DEF Clerk
  <2>2. Desk!Noticed(c, S, r)
    BY <1>2, <2>1 DEF Desk!Flip, Waits
  <2>3. clerk' \in [Clerks -> ClerkType] /\ clerk'[c] = r /\ Others(c, S)
    BY <2>2, NoticedChanges
  <2>4. QED  BY <1>1, <1>2, <2>1, <2>3 DEF Desk!Flip, Desk!Of, Clerk
<1>3. CASE ~(kind = "call" /\ op # "read")
  <2>0. "event" \in Stages /\ op \in Operations
    BY DEF Stages, Operations
  <2>b. Clerk(Through(op), "done", op, {})
    BY <2>0, WaitsIsAClerk
  <2>1. PICK r \in ClerkType : r = Through(op) /\ Clerk(r, "done", op, {})
    BY <2>b DEF Clerk
  <2>2. Desk!Noticed(c, S, r)
    BY <1>3, <2>1 DEF Desk!Flip, Through
  <2>3. clerk' \in [Clerks -> ClerkType] /\ clerk'[c] = r /\ Others(c, S)
    BY <2>2, NoticedChanges
  <2>4. QED  BY <1>1, <1>3, <2>1, <2>3 DEF Desk!Flip, Desk!Of, Clerk
<1>4. QED  BY <1>2, <1>3

LEMMA FlipSnapshotChanges ==
  ASSUME DeskTypes, CallsInOrder, NEW c \in Clerks, Desk!FlipSnapshot(c)
  PROVE  /\ kind = "call" /\ clerk[c].pc = "commit" /\ clerk[c].op \in Desk!Removed \union Desk!Brought
         /\ Flipped(clerk[c].ids, clerk[c].op) /\ Others(c, clerk[c].ids) /\ clerk' \in [Clerks -> ClerkType]
         /\ clerk'[c].pc = "event" /\ clerk'[c].ids = clerk[c].ids /\ clerk'[c].op = clerk[c].op
         /\ crossed' = crossed \union (clerk[c].ids \intersect Desk!Pending(c))
         /\ UNCHANGED <<kind, board, mailed, missed, drops>>
<1>1. PICK S \in SUBSET Entries, op \in {"delete", "restore", "bulkDelete", "bulkRestore"} :
        S = clerk[c].ids /\ op = clerk[c].op
  BY DEF DeskTypes, ClerkType, CallsInOrder, Desk!FlipSnapshot, Desk!Removed, Desk!Brought
<1>0. "event" \in Stages /\ op \in Operations
  BY DEF Stages, Operations
<1>a. Clerk(Waits("event", op, S), "event", op, S)
  BY <1>0, WaitsIsAClerk
<1>2. PICK r \in ClerkType : r = Waits("event", op, S) /\ Clerk(r, "event", op, S)
  BY <1>a DEF Clerk
<1>3. Desk!Noticed(c, S, r)
  BY <1>1, <1>2 DEF Desk!FlipSnapshot, Waits
<1>4. clerk' \in [Clerks -> ClerkType] /\ clerk'[c] = r /\ Others(c, S)
  BY <1>3, NoticedChanges
<1>5. Flipped(S, op)
  <2>1. entry' = [e \in Entries |-> IF e \in S THEN Desk!Changed(entry[e], op) ELSE entry[e]]
    BY <1>1 DEF Desk!FlipSnapshot
  <2>2. QED  BY <2>1, FlippedBy
<1>6. clerk[c].op \in Desk!Removed \union Desk!Brought
  BY DEF CallsInOrder, Desk!FlipSnapshot
<1>7. QED  BY <1>1, <1>2, <1>4, <1>5, <1>6 DEF Desk!FlipSnapshot, Clerk

----------------------------------------------------------------------------
(* Every action of Inbox keeps the invariant.                              *)

\* A request that does not move and whose messages stay as they are.
LEMMA MessageStays ==
  ASSUME NEW d \in Clerks, NEW e \in clerk[d].ids, Message(d, e), clerk'[d] = clerk[d], entry'[e] = entry[e],
         Untold(e) => Untold(e)',
         \A to \in {"admins", "visitor"} : Settled(to, e) => Settled(to, e)',
         \A x \in Clerks : clerk'[x].op = "create" => (clerk[x].op = "create" /\ clerk'[x].ids \subseteq clerk[x].ids)
  PROVE  Message(d, e)'
BY DEF Message

\* What belongs to the other kind holds without more ado.
LEMMA OneKind ==
  ASSUME DeskTypes', kind' = kind,
         (kind = "call") => (CallsInOrder' /\ (Desk!BoardShowsCalls)'),
         (kind = "message") => (MessagesInOrder' /\ (Desk!MessagesAreTold)')
  PROVE  DeskInv'
BY DEF DeskInv, DeskTypes, CallsInOrder, MessagesInOrder, Stage, Message, Desk!BoardShowsCalls, Desk!MessagesAreTold

\* A statement over calls, and what it announces.
LEMMA CallsFlip ==
  ASSUME DeskInv, kind = "call", NEW c \in Clerks, NEW S \in SUBSET Entries, NEW op,
         op \in Desk!Removed \union Desk!Brought, clerk[c].pc # "event",
         Flipped(S, op), Others(c, S), clerk' \in [Clerks -> ClerkType],
         clerk'[c].pc = "event" /\ clerk'[c].ids = S /\ clerk'[c].op = op,
         crossed' = crossed \union (S \intersect Desk!Pending(c)),
         UNCHANGED <<kind, board, mailed, missed, drops>>
  PROVE  DeskInv'
<1>1. DeskTypes /\ CallsInOrder /\ Desk!BoardShowsCalls
  BY DEF DeskInv
<1>2. DeskTypes'
  BY <1>1 DEF DeskTypes, Flipped
<1>3. /\ \A e \in S : entry'[e].state = Desk!To(op)
      /\ \A e \in Entries \ S : entry'[e] = entry[e]
  BY DEF Flipped, Desk!Removed, Desk!Brought
<1>4. \A e \in Entries : entry'[e].state # "none"
  BY <1>1, <1>3 DEF CallsInOrder, Desk!To
<1>5. ASSUME NEW d \in Clerks
      PROVE  /\ clerk'[d].pc \notin {"admins", "visitor", "show"}
             /\ clerk'[d].pc \in {"commit", "event"} => clerk'[d].op \in Desk!Removed \union Desk!Brought
             /\ clerk'[d].pc = "event" =>
                  \A e \in clerk'[d].ids \ crossed' : entry'[e].state = Desk!To(clerk'[d].op)
             /\ clerk'[d].pc = "commit" =>
                  \A e \in clerk'[d].ids \ clerk'[d].unseen : entry'[e].state = Desk!From(clerk'[d].op)
  <2>1. CASE d = c
    BY <1>3, <2>1
  <2>2. CASE d # c
    <3>1. /\ clerk'[d].pc = clerk[d].pc /\ clerk'[d].op = clerk[d].op /\ clerk'[d].ids = clerk[d].ids
          /\ clerk[d].unseen \subseteq clerk'[d].unseen
          /\ clerk[d].pc = "commit" => S \intersect clerk[d].ids \subseteq clerk'[d].unseen
      BY <2>2 DEF Others
    <3>2. clerk[d].pc = "event" => S \intersect clerk[d].ids \subseteq crossed'
      BY <2>2 DEF Desk!Pending
    <3>3. clerk[d].ids \subseteq Entries
      BY <1>1 DEF DeskTypes, ClerkType
    <3>4. CASE clerk[d].pc = "event"
      BY <1>1, <1>3, <3>1, <3>2, <3>3, <3>4 DEF CallsInOrder
    <3>5. CASE clerk[d].pc # "event"
      BY <1>1, <1>3, <3>1, <3>3, <3>5 DEF CallsInOrder
    <3>6. QED  BY <3>4, <3>5
  <2>3. QED  BY <2>1, <2>2
<1>6. CallsInOrder'
  BY <1>4, <1>5 DEF CallsInOrder
<1>7. ASSUME NEW e \in Entries
      PROVE  \/ (e \in board.shown) = (entry'[e].state = "live")
             \/ \E d \in Clerks : clerk'[d].pc = "event" /\ e \in clerk'[d].ids
             \/ e \in crossed' \/ <<"board", e>> \in missed
  <2>1. CASE e \in S
    BY <2>1
  <2>2. CASE e \notin S
    <3>1. \/ (e \in board.shown) = (entry[e].state = "live")
          \/ \E d \in Clerks : clerk[d].pc = "event" /\ e \in clerk[d].ids
          \/ e \in crossed \/ <<"board", e>> \in missed
      BY <1>1 DEF Desk!BoardShowsCalls
    <3>2. ASSUME NEW d \in Clerks, clerk[d].pc = "event", e \in clerk[d].ids
          PROVE  \E x \in Clerks : clerk'[x].pc = "event" /\ (e \in clerk'[x].ids \/ e \in crossed')
      BY <2>2, <3>2 DEF Others
    <3>3. QED  BY <1>3, <2>2, <3>1, <3>2
  <2>3. QED  BY <2>1, <2>2
<1>8. (Desk!BoardShowsCalls)'
  BY <1>7 DEF Desk!BoardShowsCalls
<1>9. QED  BY <1>2, <1>6, <1>8, OneKind

\* Changes of messages that are there; of them, only reading is announced.
LEMMA MessagesFlip ==
  ASSUME DeskInv, kind = "message", NEW c \in Clerks, NEW S \in SUBSET Entries,
         entry' \in [Entries -> EntryType], \A e \in Entries \ S : entry'[e] = entry[e],
         \A e \in S : entry[e].state # "none" /\ entry'[e].state # "none",
         Others(c, S), clerk' \in [Clerks -> ClerkType],
         clerk[c].op # "create" /\ clerk'[c].op # "create" /\ clerk'[c].ids \subseteq S,
         clerk'[c].pc = "done" \/ (clerk'[c].pc = "event" /\ clerk'[c].op = "read"),
         crossed' \subseteq Entries, UNCHANGED <<kind, board, mailed, missed, drops>>
  PROVE  DeskInv'
<1>1. DeskTypes /\ MessagesInOrder /\ Desk!MessagesAreTold
  BY DEF DeskInv
<1>2. DeskTypes'
  BY <1>1 DEF DeskTypes
<1>3. \A e \in Entries : /\ entry'[e].state = "none" <=> entry[e].state = "none"
                         /\ Untold(e)' <=> Untold(e)
  BY DEF Untold
<1>4. ASSUME NEW d \in Clerks \ {c}, NEW e \in clerk'[d].ids
      PROVE  Message(d, e)'
  <2>1. /\ clerk'[d].pc = clerk[d].pc /\ clerk'[d].op = clerk[d].op /\ clerk'[d].ids = clerk[d].ids
        /\ clerk'[d].img = clerk[d].img /\ clerk[d].unseen \subseteq clerk'[d].unseen
        /\ clerk[d].pc = "commit" => S \intersect clerk[d].ids \subseteq clerk'[d].unseen
    BY DEF Others
  <2>2. e \in Entries /\ e \in clerk[d].ids
    BY <1>1, <1>4, <2>1 DEF DeskTypes, ClerkType
  <2>3. Message(d, e)
    BY <1>1, <2>2 DEF MessagesInOrder, Stage, Message
  <2>4. clerk[d].pc = "commit" => e \in clerk'[d].unseen \/ clerk'[d].img = entry'[e]
    BY <2>1, <2>2, <2>3 DEF Message
  <2>5. clerk[d].op = "create" =>
          \A x \in Clerks : clerk'[x].op = "create" /\ e \in clerk'[x].ids => x = d
    BY <2>3 DEF Others, Message
  <2>6. QED  BY <1>3, <2>1, <2>2, <2>3, <2>4, <2>5 DEF Message, Settled
<1>5. ASSUME NEW d \in Clerks
      PROVE  Stage(d)'
  BY <1>1 DEF MessagesInOrder, Stage, Message, Others
<1>6. \A e \in clerk'[c].ids : entry'[e].state # "none"
  OBVIOUS
<1>7. \A e \in Entries : entry'[e].state = "none" => Untold(e)'
  BY <1>1, <1>3 DEF MessagesInOrder, Stage, Message
<1>8. MessagesInOrder'
  BY <1>4, <1>5, <1>6, <1>7 DEF MessagesInOrder, Stage, Message
<1>9. ASSUME NEW e \in Entries, entry'[e].state # "none"
      PROVE  \/ \E d \in Clerks : clerk'[d].op = "create" /\ e \in clerk'[d].ids
             \/ /\ \A to \in {"admins", "visitor"} : <<to, e>> \in mailed' \union missed'
                /\ e \in board'.shown \/ <<"board", e>> \in missed'
             \/ e \notin board'.shown /\ \A to \in {"admins", "visitor"} : <<to, e>> \notin mailed'
  <2>1. \/ \E d \in Clerks : clerk[d].op = "create" /\ e \in clerk[d].ids
        \/ /\ \A to \in {"admins", "visitor"} : <<to, e>> \in mailed \union missed
           /\ e \in board.shown \/ <<"board", e>> \in missed
        \/ e \notin board.shown /\ \A to \in {"admins", "visitor"} : <<to, e>> \notin mailed
    BY <1>1, <1>3, <1>9 DEF Desk!MessagesAreTold
  <2>2. ASSUME NEW d \in Clerks, clerk[d].op = "create", e \in clerk[d].ids
        PROVE  clerk'[d].op = "create" /\ e \in clerk'[d].ids
    BY <2>2 DEF Others
  <2>3. QED  BY <2>1, <2>2
<1>10. (Desk!MessagesAreTold)'
  BY <1>9 DEF Desk!MessagesAreTold
<1>11. QED  BY <1>2, <1>8, <1>10, OneKind

LEMMA CallReadKeeps ==
  ASSUME DeskInv, kind = "call", NEW c \in Clerks, NEW S \in SUBSET Entries, Desk!Flip(c, S, "read")
  PROVE  DeskInv'
<1>1. DeskTypes /\ CallsInOrder /\ Desk!BoardShowsCalls
  BY DEF DeskInv
<1>2. /\ clerk[c].pc = "new" /\ Flipped(S, "read") /\ Others(c, S) /\ clerk' \in [Clerks -> ClerkType]
      /\ clerk'[c].pc = "done" /\ crossed' = crossed \union (S \intersect Desk!Pending(c))
      /\ UNCHANGED <<kind, board, mailed, missed, drops>>
  BY <1>1, FlipChanges
<1>3. DeskTypes'
  BY <1>1, <1>2 DEF DeskTypes, Flipped
<1>4. \A e \in Entries : entry'[e].state = entry[e].state
  BY <1>2 DEF Flipped
<1>5. CallsInOrder'
  <2>1. ASSUME NEW d \in Clerks \ {c}
        PROVE  /\ clerk'[d].pc = clerk[d].pc /\ clerk'[d].op = clerk[d].op /\ clerk'[d].ids = clerk[d].ids
               /\ clerk[d].unseen \subseteq clerk'[d].unseen /\ clerk[d].ids \subseteq Entries
    BY <1>1, <1>2 DEF Others, DeskTypes, ClerkType
  <2>2. QED  BY <1>1, <1>2, <1>4, <2>1 DEF CallsInOrder
<1>6. (Desk!BoardShowsCalls)'
  BY <1>1, <1>2, <1>4 DEF Desk!BoardShowsCalls, Others
<1>7. QED  BY <1>2, <1>3, <1>5, <1>6, OneKind

LEMMA CallFlipKeeps ==
  ASSUME DeskInv, kind = "call", NEW c \in Clerks, NEW S \in SUBSET Entries,
         NEW op \in {"delete", "restore"}, Desk!Flip(c, S, op)
  PROVE  DeskInv'
<1>1. DeskTypes
  BY DEF DeskInv
<1>2. /\ clerk[c].pc = "new" /\ Flipped(S, op) /\ Others(c, S) /\ clerk' \in [Clerks -> ClerkType]
      /\ clerk'[c].pc = "event" /\ clerk'[c].ids = S /\ clerk'[c].op = op
      /\ crossed' = crossed \union (S \intersect Desk!Pending(c))
      /\ UNCHANGED <<kind, board, mailed, missed, drops>>
  BY <1>1, FlipChanges
<1>3. op \in Desk!Removed \union Desk!Brought
  BY DEF Desk!Removed, Desk!Brought
<1>4. QED  BY <1>2, <1>3, CallsFlip

LEMMA FlipSnapshotKeeps ==
  ASSUME DeskInv, NEW c \in Clerks, Desk!FlipSnapshot(c)
  PROVE  DeskInv'
<1>1. DeskTypes /\ CallsInOrder
  BY DEF DeskInv
<1>2. /\ kind = "call" /\ clerk[c].pc = "commit" /\ clerk[c].op \in Desk!Removed \union Desk!Brought
      /\ Flipped(clerk[c].ids, clerk[c].op) /\ Others(c, clerk[c].ids) /\ clerk' \in [Clerks -> ClerkType]
      /\ clerk'[c].pc = "event" /\ clerk'[c].ids = clerk[c].ids /\ clerk'[c].op = clerk[c].op
      /\ crossed' = crossed \union (clerk[c].ids \intersect Desk!Pending(c))
      /\ UNCHANGED <<kind, board, mailed, missed, drops>>
  BY <1>1, FlipSnapshotChanges
<1>3. PICK S \in SUBSET Entries, op \in Operations : S = clerk[c].ids /\ op = clerk[c].op
  BY <1>1 DEF DeskTypes, ClerkType
<1>4. QED  BY <1>2, <1>3, CallsFlip

LEMMA BulkKeeps ==
  ASSUME DeskInv, kind = "message", NEW c \in Clerks, NEW S \in SUBSET Entries,
         NEW op \in {"bulkDelete", "bulkRestore"}, Desk!Flip(c, S, op)
  PROVE  DeskInv'
<1>1. DeskTypes /\ MessagesInOrder
  BY DEF DeskInv
<1>2. /\ clerk[c].pc = "new" /\ \A e \in S : entry[e].state = Desk!From(op)
      /\ Flipped(S, op) /\ Others(c, S) /\ clerk' \in [Clerks -> ClerkType]
      /\ clerk'[c].pc = "done" /\ clerk'[c].ids = {} /\ clerk'[c].op = op
      /\ crossed' = crossed \union (S \intersect Desk!Pending(c))
      /\ UNCHANGED <<kind, board, mailed, missed, drops>>
  BY <1>1, FlipChanges
<1>3. \A e \in S : entry[e].state # "none" /\ entry'[e].state # "none"
  BY <1>2 DEF Flipped, Desk!From, Desk!To
<1>4. clerk[c].op # "create"
  BY <1>1, <1>2 DEF MessagesInOrder, Stage, Message
<1>5. crossed' \subseteq Entries
  BY <1>1, <1>2 DEF DeskTypes
<1>6. QED  BY <1>2, <1>3, <1>4, <1>5, MessagesFlip DEF Flipped

\* What is written is the image with its mark.
SavedAs(e, c) ==
  /\ entry' \in [Entries -> EntryType] /\ \A x \in Entries \ {e} : entry'[x] = entry[x]
  /\ entry'[e].state = (IF clerk[c].op = "read" THEN clerk[c].img.state ELSE Desk!To(clerk[c].op))
  /\ clerk[c].img.read => entry'[e].read

LEMMA SaveChanges ==
  ASSUME DeskTypes, MessagesInOrder, NEW c \in Clerks, NEW e \in clerk[c].ids, Desk!Save(c)
  PROVE  /\ e \in Entries /\ kind = "message" /\ clerk[c].pc = "commit" /\ clerk[c].ids = {e}
         /\ clerk[c].op \in {"read", "delete", "restore"} /\ clerk[c].img \in EntryType
         /\ SavedAs(e, c) /\ Others(c, {e}) /\ clerk' \in [Clerks -> ClerkType]
         /\ clerk'[c].op = clerk[c].op
         /\ IF clerk[c].op = "read" THEN clerk'[c].pc = "event" /\ clerk'[c].ids = {e}
            ELSE clerk'[c].pc = "done" /\ clerk'[c].ids = {}
         /\ UNCHANGED <<kind, board, mailed, crossed, missed, drops>>
<1>1. /\ e \in Entries /\ kind = "message" /\ clerk[c].pc = "commit" /\ clerk[c].ids = {e}
      /\ clerk[c].op \in {"read", "delete", "restore"}
  BY DEF DeskTypes, ClerkType, MessagesInOrder, Stage, Message, Desk!Save
<1>2. (CHOOSE x \in clerk[c].ids : TRUE) = e
  BY <1>1
<1>3. PICK m \in EntryType, op \in {"read", "delete", "restore"} : m = clerk[c].img /\ op = clerk[c].op
  BY <1>1 DEF DeskTypes, ClerkType
<1>4. entry' = [entry EXCEPT ![e] = Desk!Changed(m, op)]
  BY <1>2, <1>3 DEF Desk!Save
<1>5. SavedAs(e, c)
  BY <1>1, <1>3, <1>4, ChangedKeepsMarks DEF SavedAs, DeskTypes
<1>0. "event" \in Stages /\ op \in Operations
  BY DEF Stages, Operations
<1>6. CASE op = "read"
  <2>1. Clerk(Waits("event", "read", {e}), "event", "read", {e})
    BY <1>0, <1>1, <1>6, WaitsIsAClerk
  <2>2. PICK r \in ClerkType : r = Waits("event", "read", {e}) /\ Clerk(r, "event", "read", {e})
    BY <2>1 DEF Clerk
  <2>3. Desk!Noticed(c, {e}, r)
    BY <1>2, <1>3, <1>6, <2>2 DEF Desk!Save, Waits
  <2>4. clerk' \in [Clerks -> ClerkType] /\ clerk'[c] = r /\ Others(c, {e})
    BY <1>1, <2>3, NoticedChanges
  <2>5. QED  BY <1>1, <1>3, <1>5, <1>6, <2>2, <2>4 DEF Desk!Save, Clerk
<1>7. CASE op # "read"
  <2>1. Clerk(Through(op), "done", op, {})
    BY <1>0, WaitsIsAClerk
  <2>2. PICK r \in ClerkType : r = Through(op) /\ Clerk(r, "done", op, {})
    BY <2>1 DEF Clerk
  <2>3. Desk!Noticed(c, {e}, r)
    BY <1>2, <1>3, <1>7, <2>2 DEF Desk!Save, Through
  <2>4. clerk' \in [Clerks -> ClerkType] /\ clerk'[c] = r /\ Others(c, {e})
    BY <1>1, <2>3, NoticedChanges
  <2>5. QED  BY <1>1, <1>3, <1>5, <1>7, <2>2, <2>4 DEF Desk!Save, Clerk
<1>8. QED  BY <1>6, <1>7

LEMMA SaveKeeps ==
  ASSUME DeskInv, NEW c \in Clerks, NEW e \in clerk[c].ids, Desk!Save(c)
  PROVE  DeskInv'
<1>1. DeskTypes /\ MessagesInOrder
  BY DEF DeskInv
<1>2. /\ e \in Entries /\ kind = "message" /\ clerk[c].pc = "commit" /\ clerk[c].ids = {e}
      /\ clerk[c].op \in {"read", "delete", "restore"}
      /\ SavedAs(e, c) /\ Others(c, {e}) /\ clerk' \in [Clerks -> ClerkType]
      /\ clerk'[c].op = clerk[c].op
      /\ IF clerk[c].op = "read" THEN clerk'[c].pc = "event" /\ clerk'[c].ids = {e}
         ELSE clerk'[c].pc = "done" /\ clerk'[c].ids = {}
      /\ UNCHANGED <<kind, board, mailed, crossed, missed, drops>>
  BY <1>1, SaveChanges
<1>3. entry[e].state # "none" /\ clerk[c].img.state = Desk!From(clerk[c].op)
  BY <1>1, <1>2 DEF MessagesInOrder, Stage, Message
<1>4. entry'[e].state # "none"
  BY <1>2, <1>3 DEF SavedAs, Desk!From, Desk!To
<1>5. crossed' \subseteq Entries
  BY <1>1, <1>2 DEF DeskTypes
<1>6. QED  BY <1>2, <1>3, <1>4, <1>5, MessagesFlip DEF SavedAs

LEMMA SubmitKeeps ==
  ASSUME DeskInv, NEW c \in Clerks, NEW e \in Entries, Desk!Submit(c, e)
  PROVE  DeskInv'
<1>1. DeskTypes /\ MessagesInOrder /\ Desk!MessagesAreTold
  BY DEF DeskInv
<1>2. "event" \in Stages /\ "create" \in Operations
  BY DEF Stages, Operations
<1>3. PICK r \in ClerkType : r = Waits("event", "create", {e}) /\ Clerk(r, "event", "create", {e})
  <2>1. Clerk(Waits("event", "create", {e}), "event", "create", {e})
    BY <1>2, WaitsIsAClerk
  <2>2. QED  BY <2>1 DEF Clerk
<1>4. Desk!Does(c, r)
  BY <1>3 DEF Desk!Submit, Waits
<1>5. /\ clerk' \in [Clerks -> ClerkType] /\ clerk'[c] = r
      /\ \A d \in Clerks \ {c} : clerk'[d] = clerk[d]
  BY <1>1, <1>4, DoesChanges
<1>6. /\ kind = "message" /\ clerk[c].pc = "new" /\ entry[e].state = "none"
      /\ entry' \in [Entries -> EntryType] /\ entry'[e].state = "live"
      /\ \A x \in Entries \ {e} : entry'[x] = entry[x]
      /\ UNCHANGED <<kind, board, mailed, crossed, missed, drops>>
  BY <1>1 DEF Desk!Submit, DeskTypes, EntryType
<1>7. DeskTypes'
  BY <1>1, <1>5, <1>6 DEF DeskTypes
<1>8. /\ clerk'[c].pc = "event" /\ clerk'[c].op = "create" /\ clerk'[c].ids = {e}
  BY <1>3, <1>5 DEF Clerk
<1>9. \A d \in Clerks : e \notin clerk[d].ids
  BY <1>1, <1>6 DEF MessagesInOrder, Stage, Message
<1>10. \A x \in Entries : /\ Untold(x)' <=> Untold(x)
                          /\ \A to \in {"admins", "visitor"} : Settled(to, x)' <=> Settled(to, x)
  BY <1>6 DEF Untold, Settled
<1>11. Untold(e)
  BY <1>1, <1>6 DEF MessagesInOrder, Stage, Message
<1>12. ASSUME NEW d \in Clerks \ {c}
       PROVE  clerk[d].ids \subseteq Entries \ {e}
  BY <1>1, <1>9 DEF DeskTypes, ClerkType
<1>13. \A d \in Clerks \ {c} : \A x \in clerk[d].ids : x \in Entries /\ entry'[x] = entry[x]
  BY <1>6, <1>12
<1>14. MessagesInOrder'
  <2>1. ASSUME NEW d \in Clerks \ {c}
        PROVE  Stage(d)' /\ \A x \in clerk'[d].ids : Message(d, x)'
    <3>1. clerk'[d] = clerk[d] /\ Stage(d) /\ \A x \in clerk[d].ids : x \in Entries /\ Message(d, x)
      BY <1>1, <1>5, <1>6, <1>13 DEF MessagesInOrder
    <3>2. Stage(d)'
      BY <3>1 DEF Stage
    <3>3. ASSUME NEW x \in clerk[d].ids
          PROVE  Message(d, x)'
      <4>1. Message(d, x) /\ entry'[x] = entry[x] /\ x # e
        BY <1>9, <1>13, <3>1
      <4>2. clerk[d].op = "create" =>
              \A y \in Clerks : clerk'[y].op = "create" /\ x \in clerk'[y].ids => y = d
        BY <1>5, <1>8, <4>1, <3>3 DEF Message
      <4>3. QED  BY <1>10, <3>1, <4>1, <4>2 DEF Message
    <3>4. QED  BY <3>1, <3>2, <3>3
  <2>2. Stage(c)' /\ \A x \in clerk'[c].ids : Message(c, x)'
    <3>1. Stage(c)'
      BY <1>8 DEF Stage
    <3>2. \A y \in Clerks : e \in clerk'[y].ids => y = c
      BY <1>5, <1>9
    <3>3. Untold(e)'
      BY <1>10, <1>11
    <3>4. Message(c, e)'
      BY <1>6, <1>8, <3>2, <3>3 DEF Message
    <3>5. QED  BY <1>8, <3>1, <3>4
  <2>3. \A x \in Entries : entry'[x].state = "none" => Untold(x)'
    BY <1>1, <1>6, <1>10, <1>11 DEF MessagesInOrder
  <2>4. \A d \in Clerks : Stage(d)' /\ \A x \in clerk'[d].ids : Message(d, x)'
    BY <2>1, <2>2
  <2>5. QED  BY <2>3, <2>4 DEF MessagesInOrder
<1>15. (Desk!MessagesAreTold)'
  <2>1. SUFFICES ASSUME NEW x \in Entries, entry'[x].state # "none"
        PROVE  \/ \E d \in Clerks : clerk'[d].op = "create" /\ x \in clerk'[d].ids
               \/ /\ \A to \in {"admins", "visitor"} : <<to, x>> \in mailed' \union missed'
                  /\ x \in board'.shown \/ <<"board", x>> \in missed'
               \/ x \notin board'.shown /\ \A to \in {"admins", "visitor"} : <<to, x>> \notin mailed'
    BY DEF Desk!MessagesAreTold
  <2>2. CASE x = e
    BY <1>8, <2>2
  <2>3. CASE x # e
    <3>1. \/ \E d \in Clerks : clerk[d].op = "create" /\ x \in clerk[d].ids
          \/ /\ \A to \in {"admins", "visitor"} : <<to, x>> \in mailed \union missed
             /\ x \in board.shown \/ <<"board", x>> \in missed
          \/ x \notin board.shown /\ \A to \in {"admins", "visitor"} : <<to, x>> \notin mailed
      BY <1>1, <1>6, <2>1, <2>3 DEF Desk!MessagesAreTold
    <3>2. clerk[c].op # "create"
      BY <1>1, <1>6 DEF MessagesInOrder, Stage, Message
    <3>3. QED  BY <1>5, <1>6, <3>1, <3>2
  <2>4. QED  BY <2>2, <2>3
<1>16. QED  BY <1>6, <1>7, <1>14, <1>15, OneKind

LEMMA ReadKeeps ==
  ASSUME DeskInv, NEW c \in Clerks, NEW e \in Entries, NEW op \in {"read", "delete", "restore"},
         Desk!Read(c, e, op)
  PROVE  DeskInv'
<1>1. DeskTypes /\ MessagesInOrder /\ Desk!MessagesAreTold
  BY DEF DeskInv
<1>2. PICK m \in EntryType : m = entry[e]
  BY <1>1 DEF DeskTypes
<1>3. [pc |-> "commit", op |-> op, ids |-> {e}, unseen |-> {}, img |-> m] \in ClerkType
  BY DEF ClerkType, Stages, Operations
<1>4. PICK r \in ClerkType : r = [pc |-> "commit", op |-> op, ids |-> {e}, unseen |-> {}, img |-> m]
  BY <1>3
<1>5. Desk!Does(c, r)
  <2>1. clerk' = [clerk EXCEPT ![c] = [pc |-> "commit", op |-> op, ids |-> {e}, unseen |-> {}, img |-> entry[e]]]
    BY DEF Desk!Read, Desk!Does
  <2>2. QED  BY <1>2, <1>4, <2>1 DEF Desk!Does
<1>6. /\ clerk' \in [Clerks -> ClerkType] /\ clerk'[c] = r
      /\ \A d \in Clerks \ {c} : clerk'[d] = clerk[d]
  BY <1>1, <1>5, DoesChanges
<1>7. /\ kind = "message" /\ clerk[c].pc = "new" /\ entry[e].state = Desk!From(op)
      /\ UNCHANGED <<kind, entry, board, mailed, crossed, missed, drops>>
  BY DEF Desk!Read
<1>8. DeskTypes'
  BY <1>1, <1>6, <1>7 DEF DeskTypes
<1>9. /\ clerk'[c].pc = "commit" /\ clerk'[c].op = op /\ clerk'[c].ids = {e} /\ clerk'[c].img = entry[e]
  BY <1>2, <1>4, <1>6
<1>10. entry[e].state # "none" /\ clerk[c].op # "create"
  BY <1>1, <1>7 DEF Desk!From, MessagesInOrder, Stage, Message
<1>11. \A x \in Entries : /\ Untold(x)' <=> Untold(x)
                          /\ \A to \in {"admins", "visitor"} : Settled(to, x)' <=> Settled(to, x)
  BY <1>7 DEF Untold, Settled
<1>12. \A d \in Clerks : clerk[d].ids \subseteq Entries
  BY <1>1 DEF DeskTypes, ClerkType
<1>13. MessagesInOrder'
  <2>1. \A x \in Clerks : clerk'[x].op = "create" => (clerk[x].op = "create" /\ clerk'[x].ids \subseteq clerk[x].ids)
    BY <1>6, <1>9
  <2>2. ASSUME NEW d \in Clerks \ {c}
        PROVE  Stage(d)' /\ \A x \in clerk'[d].ids : Message(d, x)'
    <3>1. clerk'[d] = clerk[d] /\ Stage(d) /\ \A x \in clerk[d].ids : x \in Entries /\ Message(d, x)
      BY <1>1, <1>6, <1>7, <1>12 DEF MessagesInOrder
    <3>2. Stage(d)'
      BY <3>1 DEF Stage
    <3>3. ASSUME NEW x \in clerk[d].ids
          PROVE  Message(d, x)'
      <4>1. Message(d, x) /\ x \in Entries /\ entry'[x] = entry[x]
        BY <1>7, <3>1
      <4>2. QED  BY <1>11, <2>1, <3>1, <4>1, MessageStays
    <3>4. QED  BY <3>1, <3>2, <3>3
  <2>3. Stage(c)' /\ \A x \in clerk'[c].ids : Message(c, x)'
    BY <1>7, <1>9, <1>10 DEF Stage, Message
  <2>4. \A d \in Clerks : Stage(d)' /\ \A x \in clerk'[d].ids : Message(d, x)'
    BY <2>2, <2>3
  <2>5. \A x \in Entries : entry'[x].state = "none" => Untold(x)'
    BY <1>1, <1>7, <1>11 DEF MessagesInOrder
  <2>6. QED  BY <2>4, <2>5 DEF MessagesInOrder
<1>14. (Desk!MessagesAreTold)'
  <2>1. \A d \in Clerks : clerk[d].op = "create" => clerk'[d] = clerk[d]
    BY <1>6, <1>10
  <2>2. QED  BY <1>1, <1>7, <2>1 DEF Desk!MessagesAreTold
<1>15. QED  BY <1>7, <1>8, <1>13, <1>14, OneKind

LEMMA SnapshotKeeps ==
  ASSUME DeskInv, NEW c \in Clerks, NEW S \in SUBSET Entries,
         NEW op \in {"bulkDelete", "bulkRestore"}, Desk!Snapshot(c, S, op)
  PROVE  DeskInv'
<1>1. DeskTypes /\ CallsInOrder /\ Desk!BoardShowsCalls
  BY DEF DeskInv
<1>2. PICK T \in SUBSET Entries : T = S \intersect Desk!Of(Desk!From(op))
  OBVIOUS
<1>3. \A e \in T : entry[e].state = Desk!From(op)
  BY <1>2 DEF Desk!Of
<1>4. "commit" \in Stages /\ op \in Operations
  BY DEF Stages, Operations
<1>5. PICK r \in ClerkType : r = Waits("commit", op, T) /\ Clerk(r, "commit", op, T)
  <2>1. Clerk(Waits("commit", op, T), "commit", op, T)
    BY <1>4, WaitsIsAClerk
  <2>2. QED  BY <2>1 DEF Clerk
<1>6. Desk!Does(c, r)
  BY <1>2, <1>5 DEF Desk!Snapshot, Waits
<1>7. /\ clerk' \in [Clerks -> ClerkType] /\ clerk'[c] = r
      /\ \A d \in Clerks \ {c} : clerk'[d] = clerk[d]
  BY <1>1, <1>6, DoesChanges
<1>8. /\ kind = "call" /\ clerk[c].pc = "new"
      /\ UNCHANGED <<kind, entry, board, mailed, crossed, missed, drops>>
  BY DEF Desk!Snapshot
<1>9. DeskTypes'
  BY <1>1, <1>7, <1>8 DEF DeskTypes
<1>10. /\ clerk'[c].pc = "commit" /\ clerk'[c].op = op /\ clerk'[c].ids = T
       /\ op \in Desk!Removed \union Desk!Brought
  BY <1>5, <1>7 DEF Clerk, Desk!Removed, Desk!Brought
<1>11. CallsInOrder'
  BY <1>1, <1>3, <1>7, <1>8, <1>10 DEF CallsInOrder
<1>12. (Desk!BoardShowsCalls)'
  BY <1>1, <1>7, <1>8 DEF Desk!BoardShowsCalls
<1>13. QED  BY <1>8, <1>9, <1>11, <1>12, OneKind

\* A request that is through, whatever became of it.
EndsAs(c) ==
  /\ clerk' \in [Clerks -> ClerkType] /\ \A d \in Clerks \ {c} : clerk'[d] = clerk[d]
  /\ clerk'[c].pc = "done" /\ clerk'[c].op = "" /\ clerk'[c].ids = {}

LEMMA EndsChanges ==
  ASSUME DeskTypes, NEW c \in Clerks, Desk!Ends(c)
  PROVE  EndsAs(c)
<1>1. "done" \in Stages /\ "" \in Operations
  BY DEF Stages, Operations
<1>2. Clerk(Desk!Free("done"), "done", "", {})
  BY <1>1, WaitsIsAClerk
<1>3. PICK r \in ClerkType : r = Desk!Free("done") /\ Clerk(r, "done", "", {})
  BY <1>2 DEF Clerk
<1>4. Desk!Does(c, r)
  BY <1>3 DEF Desk!Ends
<1>5. /\ clerk' \in [Clerks -> ClerkType] /\ clerk'[c] = r
      /\ \A d \in Clerks \ {c} : clerk'[d] = clerk[d]
  BY <1>4, DoesChanges
<1>6. QED  BY <1>3, <1>5 DEF EndsAs, Clerk

LEMMA DropIsBounded ==
  ASSUME DeskTypes, Desk!Drop
  PROVE  drops' \in 0 .. MaxDrops
BY BackofficeAssumption DEF BackofficeAssumption, Desk!InboxAssumption, DeskTypes, Desk!Drop

\* A request ends that has left no message.
LEMMA EndsQuietly ==
  ASSUME DeskTypes, MessagesInOrder, Desk!MessagesAreTold, kind = "message", NEW c \in Clerks, EndsAs(c),
         clerk[c].op # "create", UNCHANGED <<kind, entry, mailed>>, missed \subseteq missed',
         board'.shown = board.shown
  PROVE  MessagesInOrder' /\ (Desk!MessagesAreTold)'
<1>1. \A e \in Entries : /\ Untold(e)' <=> Untold(e)
                         /\ \A to \in {"admins", "visitor"} : Settled(to, e) => Settled(to, e)'
  BY DEF Untold, Settled
<1>2. \A d \in Clerks : clerk[d].ids \subseteq Entries
  BY DEF DeskTypes, ClerkType
<1>3. \A x \in Clerks : clerk'[x].op = "create" => (clerk[x].op = "create" /\ clerk'[x].ids \subseteq clerk[x].ids)
  BY DEF EndsAs
<1>4. ASSUME NEW d \in Clerks
      PROVE  Stage(d)' /\ \A e \in clerk'[d].ids : Message(d, e)'
  <2>1. Stage(d) /\ \A e \in clerk[d].ids : Message(d, e)
    BY DEF MessagesInOrder
  <2>2. CASE d = c
    <3>1. clerk'[d].pc = "done" /\ clerk'[d].op = "" /\ clerk'[d].ids = {}
      BY <2>2 DEF EndsAs
    <3>2. QED  BY <3>1 DEF Stage
  <2>3. CASE d # c
    <3>1. clerk'[d] = clerk[d]
      BY <2>3 DEF EndsAs
    <3>2. Stage(d)'
      BY <2>1, <3>1 DEF Stage
    <3>3. ASSUME NEW e \in clerk[d].ids
          PROVE  Message(d, e)'
      <4>1. Message(d, e) /\ e \in Entries
        BY <1>2, <2>1
      <4>2. QED  BY <1>1, <1>3, <3>1, <4>1, MessageStays
    <3>4. QED  BY <3>1, <3>2, <3>3
  <2>4. QED  BY <2>2, <2>3
<1>5. \A e \in Entries : entry'[e].state = "none" => Untold(e)'
  BY <1>1 DEF MessagesInOrder
<1>6. MessagesInOrder'
  BY <1>4, <1>5 DEF MessagesInOrder
<1>7. \A d \in Clerks : clerk[d].op = "create" => clerk'[d] = clerk[d]
  BY DEF EndsAs
<1>8. (Desk!MessagesAreTold)'
  BY <1>7 DEF Desk!MessagesAreTold
<1>9. QED  BY <1>6, <1>8

LEMMA RollbackKeeps ==
  ASSUME DeskInv, NEW c \in Clerks, Desk!Rollback(c)
  PROVE  DeskInv'
<1>1. /\ DeskTypes /\ CallsInOrder /\ MessagesInOrder /\ Desk!BoardShowsCalls /\ Desk!MessagesAreTold
  BY DEF DeskInv
<1>2. EndsAs(c) /\ drops' \in 0 .. MaxDrops
  BY <1>1, EndsChanges, DropIsBounded DEF Desk!Rollback
<1>3. clerk[c].pc = "commit" /\ UNCHANGED <<kind, entry, board, mailed, crossed, missed>>
  BY DEF Desk!Rollback
<1>4. DeskTypes'
  BY <1>1, <1>2, <1>3 DEF DeskTypes, EndsAs
<1>5. CallsInOrder' /\ (Desk!BoardShowsCalls)'
  BY <1>1, <1>2, <1>3 DEF CallsInOrder, Desk!BoardShowsCalls, EndsAs
<1>6. ASSUME kind = "message"
      PROVE  MessagesInOrder' /\ (Desk!MessagesAreTold)'
  <2>1. clerk[c].op # "create"
    BY <1>1, <1>3, <1>6 DEF MessagesInOrder, Stage
  <2>2. QED  BY <1>1, <1>2, <1>3, <1>6, <2>1, EndsQuietly
<1>7. QED  BY <1>3, <1>4, <1>5, <1>6, OneKind

LEMMA BroadcastKeeps ==
  ASSUME DeskInv, NEW c \in Clerks, Desk!Broadcast(c)
  PROVE  DeskInv'
<1>1. /\ DeskTypes /\ CallsInOrder /\ MessagesInOrder /\ Desk!BoardShowsCalls /\ Desk!MessagesAreTold
  BY DEF DeskInv
<1>2. EndsAs(c)
  BY <1>1, EndsChanges DEF Desk!Broadcast
<1>3. /\ clerk[c].pc = "event" /\ clerk[c].op # "create"
      /\ UNCHANGED <<kind, entry, mailed, crossed, missed, drops>>
  BY DEF Desk!Broadcast
<1>4. /\ board' \in [shown : SUBSET Entries, read : SUBSET Entries]
      /\ clerk[c].op \in Desk!Removed => board'.shown = board.shown \ clerk[c].ids
      /\ clerk[c].op \in Desk!Brought => board'.shown = board.shown \union clerk[c].ids
      /\ clerk[c].op = "read" => board'.shown = board.shown
  <2>1. PICK b \in [shown : SUBSET Entries, read : SUBSET Entries], S \in SUBSET Entries :
          b = board /\ S = clerk[c].ids
    BY <1>1 DEF DeskTypes, ClerkType
  <2>2. CASE clerk[c].op \in Desk!Removed
    <3>1. board' = [board EXCEPT !.shown = @ \ clerk[c].ids]
      BY <2>2 DEF Desk!Broadcast, Desk!Removed, Desk!Brought
    <3>2. QED  BY <2>1, <2>2, <3>1 DEF Desk!Removed, Desk!Brought
  <2>3. CASE clerk[c].op \in Desk!Brought
    <3>1. board' = [board EXCEPT !.shown = @ \union clerk[c].ids]
      BY <2>3 DEF Desk!Broadcast, Desk!Removed, Desk!Brought
    <3>2. QED  BY <2>1, <2>3, <3>1 DEF Desk!Removed, Desk!Brought
  <2>4. CASE clerk[c].op \notin Desk!Removed \union Desk!Brought
    <3>1. board' = [board EXCEPT !.read = @ \union clerk[c].ids]
      BY <2>4 DEF Desk!Broadcast
    <3>2. QED  BY <2>1, <2>4, <3>1 DEF Desk!Removed, Desk!Brought
  <2>5. QED  BY <2>2, <2>3, <2>4
<1>5. DeskTypes'
  BY <1>1, <1>2, <1>3, <1>4 DEF DeskTypes, EndsAs
<1>6. ASSUME kind = "call"
      PROVE  CallsInOrder' /\ (Desk!BoardShowsCalls)'
  <2>1. CallsInOrder'
    BY <1>1, <1>2, <1>3 DEF CallsInOrder, EndsAs
  <2>2. ASSUME NEW e \in Entries
        PROVE  \/ (e \in board'.shown) = (entry[e].state = "live")
               \/ \E d \in Clerks : clerk'[d].pc = "event" /\ e \in clerk'[d].ids
               \/ e \in crossed \/ <<"board", e>> \in missed
    <3>1. clerk[c].op \in Desk!Removed \union Desk!Brought
      BY <1>1, <1>3, <1>6 DEF CallsInOrder
    <3>2. CASE e \in clerk[c].ids /\ e \notin crossed
      <4>1. entry[e].state = Desk!To(clerk[c].op)
        BY <1>1, <1>3, <1>6, <3>2 DEF CallsInOrder
      <4>2. CASE clerk[c].op \in Desk!Removed
        BY <1>4, <3>2, <4>1, <4>2 DEF Desk!To
      <4>3. CASE clerk[c].op \in Desk!Brought
        <5>1. clerk[c].op \notin Desk!Removed
          BY <4>3 DEF Desk!Removed, Desk!Brought
        <5>2. QED  BY <1>4, <3>2, <4>1, <4>3, <5>1 DEF Desk!To
      <4>4. QED  BY <3>1, <4>2, <4>3
    <3>3. CASE e \notin clerk[c].ids
      <4>1. \/ (e \in board.shown) = (entry[e].state = "live")
            \/ \E d \in Clerks : clerk[d].pc = "event" /\ e \in clerk[d].ids
            \/ e \in crossed \/ <<"board", e>> \in missed
        BY <1>1, <1>6 DEF Desk!BoardShowsCalls
      <4>2. (e \in board'.shown) = (e \in board.shown)
        BY <1>4, <3>1, <3>3
      <4>3. \A d \in Clerks : e \in clerk[d].ids => clerk'[d] = clerk[d]
        BY <1>2, <3>3 DEF EndsAs
      <4>4. QED  BY <4>1, <4>2, <4>3
    <3>4. QED  BY <3>2, <3>3
  <2>3. (Desk!BoardShowsCalls)'
    BY <1>3, <2>2 DEF Desk!BoardShowsCalls
  <2>4. QED  BY <2>1, <2>3
<1>7. ASSUME kind = "message"
      PROVE  MessagesInOrder' /\ (Desk!MessagesAreTold)'
  <2>1. clerk[c].op = "read"
    BY <1>1, <1>3, <1>7 DEF MessagesInOrder, Stage, Message
  <2>2. board'.shown = board.shown
    BY <1>4, <2>1
  <2>3. QED  BY <1>1, <1>2, <1>3, <1>7, <2>2, EndsQuietly
<1>8. QED  BY <1>3, <1>5, <1>6, <1>7, OneKind

\* The request c goes on to pc with its message.
GoesTo(c, pc) ==
  /\ clerk' \in [Clerks -> ClerkType] /\ \A d \in Clerks \ {c} : clerk'[d] = clerk[d]
  /\ clerk'[c].pc = pc /\ clerk'[c].op = clerk[c].op /\ clerk'[c].ids = clerk[c].ids

LEMMA GoesToChanges ==
  ASSUME DeskTypes, NEW c \in Clerks, NEW pc \in Stages, Desk!Does(c, [clerk[c] EXCEPT !.pc = pc])
  PROVE  GoesTo(c, pc)
<1>1. PICK q \in ClerkType : q = clerk[c]
  BY DEF DeskTypes
<1>2. /\ [q EXCEPT !.pc = pc] \in ClerkType /\ [q EXCEPT !.pc = pc].pc = pc
      /\ [q EXCEPT !.pc = pc].op = q.op /\ [q EXCEPT !.pc = pc].ids = q.ids
  BY DEF ClerkType
<1>3. PICK r \in ClerkType : r = [q EXCEPT !.pc = pc] /\ r.pc = pc /\ r.op = q.op /\ r.ids = q.ids
  BY <1>2
<1>4. clerk' = [clerk EXCEPT ![c] = r]
  BY <1>1, <1>3 DEF Desk!Does
<1>5. QED  BY <1>1, <1>3, <1>4 DEF GoesTo, DeskTypes

\* What a message has come to, apart from the request that left it.
Told(e) ==
  \/ /\ \A to \in {"admins", "visitor"} : <<to, e>> \in mailed \union missed
     /\ e \in board.shown \/ <<"board", e>> \in missed
  \/ Untold(e)

LEMMA ToldIsTold ==
  /\ kind = "message" =>
       (Desk!MessagesAreTold <=>
          \A e \in Entries : entry[e].state # "none" =>
            (\E c \in Clerks : clerk[c].op = "create" /\ e \in clerk[c].ids) \/ Told(e))
  /\ kind' = "message" =>
       ((Desk!MessagesAreTold)' <=>
          \A e \in Entries : entry'[e].state # "none" =>
            (\E c \in Clerks : clerk'[c].op = "create" /\ e \in clerk'[c].ids) \/ Told(e)')
BY DEF Desk!MessagesAreTold, Told, Untold

\* The requests that leave messages move on one by one: a message whose request is
\* through has been told.
LEMMA MessagesMove ==
  ASSUME DeskInv, kind = "message", NEW c \in Clerks, UNCHANGED <<kind, entry, crossed>>, DeskTypes',
         clerk' \in [Clerks -> ClerkType], \A d \in Clerks \ {c} : clerk'[d] = clerk[d],
         \A e \in Entries \ clerk[c].ids :
           /\ (Untold(e) => Untold(e)')
           /\ (Told(e) => Told(e)')
           /\ \A to \in {"admins", "visitor"} : Settled(to, e) => Settled(to, e)',
         clerk[c].op = "create",
         \/ EndsAs(c) /\ (\A e \in clerk[c].ids : Told(e)')
         \/ /\ GoesTo(c, clerk'[c].pc)
            /\ clerk'[c].pc \in {"admins", "visitor", "show"}
            /\ \A e \in clerk[c].ids :
                 /\ (clerk'[c].pc = "admins" => Untold(e)')
                 /\ (clerk'[c].pc \in {"visitor", "show"} => Settled("admins", e)')
                 /\ (clerk'[c].pc = "show" => Settled("visitor", e)')
  PROVE  DeskInv'
<1>1. DeskTypes /\ MessagesInOrder /\ Desk!MessagesAreTold
  BY DEF DeskInv
<1>2. \A d \in Clerks : clerk[d].ids \subseteq Entries /\ Stage(d) /\ \A e \in clerk[d].ids : Message(d, e)
  BY <1>1 DEF DeskTypes, ClerkType, MessagesInOrder
<1>3. /\ clerk'[c].ids \subseteq clerk[c].ids
      /\ clerk'[c].op = "create" => clerk'[c].ids = clerk[c].ids
  BY DEF EndsAs, GoesTo
<1>4. \A x \in Clerks : clerk'[x].op = "create" => (clerk[x].op = "create" /\ clerk'[x].ids \subseteq clerk[x].ids)
  BY <1>3
<1>5. ASSUME NEW d \in Clerks \ {c}, NEW e \in clerk[d].ids
      PROVE  Message(d, e)'
  <2>1. e \in Entries /\ Message(d, e) /\ clerk'[d] = clerk[d] /\ entry'[e] = entry[e]
    BY <1>2
  <2>2. CASE e \in clerk[c].ids
    <3>1. clerk[d].op # "create"
      BY <1>2, <2>2 DEF Message
    <3>2. QED  BY <2>1, <3>1 DEF Message
  <2>3. CASE e \notin clerk[c].ids
    <3>1. /\ (Untold(e) => Untold(e)')
          /\ \A to \in {"admins", "visitor"} : Settled(to, e) => Settled(to, e)'
      BY <2>1, <2>3
    <3>2. QED  BY <1>4, <2>1, <3>1, MessageStays
  <2>4. QED  BY <2>2, <2>3
<1>6. ASSUME NEW e \in clerk'[c].ids
      PROVE  Message(c, e)'
  <2>1. e \in clerk[c].ids /\ Message(c, e) /\ entry'[e] = entry[e]
    BY <1>2, <1>3
  <2>2. \A x \in Clerks : clerk'[x].op = "create" /\ e \in clerk'[x].ids => x = c
    BY <1>4, <2>1 DEF Message
  <2>3. /\ clerk'[c].pc \in {"admins", "visitor", "show"}
        /\ (clerk'[c].pc = "admins" => Untold(e)')
        /\ (clerk'[c].pc \in {"visitor", "show"} => Settled("admins", e)')
        /\ (clerk'[c].pc = "show" => Settled("visitor", e)')
    BY <1>6, <2>1 DEF EndsAs
  <2>4. QED  BY <2>1, <2>2, <2>3 DEF Message
<1>7. ASSUME NEW d \in Clerks
      PROVE  Stage(d)'
  <2>1. CASE d = c
    BY <2>1 DEF Stage, EndsAs, GoesTo
  <2>2. CASE d # c
    BY <1>2, <2>2 DEF Stage
  <2>3. QED  BY <2>1, <2>2
<1>8. ASSUME NEW e \in Entries, entry'[e].state = "none"
      PROVE  Untold(e)'
  <2>1. e \notin clerk[c].ids
    BY <1>2, <1>8 DEF Message
  <2>2. Untold(e)
    BY <1>1, <1>8 DEF MessagesInOrder
  <2>3. QED  BY <2>1, <2>2
<1>9. MessagesInOrder'
  <2>1. \A d \in Clerks : \A e \in clerk'[d].ids : Message(d, e)'
    BY <1>5, <1>6
  <2>2. QED  BY <1>7, <1>8, <2>1 DEF MessagesInOrder
<1>10. ASSUME NEW e \in Entries, entry'[e].state # "none"
       PROVE  (\E d \in Clerks : clerk'[d].op = "create" /\ e \in clerk'[d].ids) \/ Told(e)'
  <2>1. (\E d \in Clerks : clerk[d].op = "create" /\ e \in clerk[d].ids) \/ Told(e)
    BY <1>1, <1>10, ToldIsTold
  <2>2. CASE e \in clerk[c].ids
    <3>1. CASE EndsAs(c) /\ (\A x \in clerk[c].ids : Told(x)')
      BY <2>2, <3>1
    <3>2. CASE GoesTo(c, clerk'[c].pc)
      BY <2>2, <3>2 DEF GoesTo
    <3>3. QED  BY <3>1, <3>2
  <2>3. CASE e \notin clerk[c].ids
    <3>1. CASE Told(e)
      BY <2>3, <3>1
    <3>2. CASE \E d \in Clerks : clerk[d].op = "create" /\ e \in clerk[d].ids
      BY <2>3, <3>2
    <3>3. QED  BY <2>1, <3>1, <3>2
  <2>4. QED  BY <2>2, <2>3
<1>11. (Desk!MessagesAreTold)'
  BY <1>10, ToldIsTold
<1>12. QED  BY <1>9, <1>11, OneKind

LEMMA LookKeeps ==
  ASSUME DeskInv, NEW c \in Clerks, Desk!Look(c)
  PROVE  DeskInv'
<1>1. DeskTypes /\ CallsInOrder /\ MessagesInOrder
  BY DEF DeskInv
<1>2. /\ clerk[c].pc = "event" /\ clerk[c].op = "create"
      /\ UNCHANGED <<kind, entry, board, mailed, crossed, missed, drops>>
  BY DEF Desk!Look
<1>3. kind = "message"
  BY <1>1, <1>2 DEF DeskTypes, CallsInOrder, Desk!Removed, Desk!Brought
<1>4. \A e \in clerk[c].ids : Untold(e)
  BY <1>1, <1>2, <1>3 DEF MessagesInOrder, Message
<1>5. \A e \in Entries : /\ (Untold(e) => Untold(e)')
                         /\ (Told(e) => Told(e)')
                         /\ \A to \in {"admins", "visitor"} : Settled(to, e) => Settled(to, e)'
  BY <1>2 DEF Untold, Told, Settled
<1>6. clerk[c].ids \subseteq Entries
  BY <1>1 DEF DeskTypes, ClerkType
<1>7. \A e \in clerk[c].ids : Untold(e)' /\ Told(e)'
  BY <1>4, <1>5, <1>6 DEF Told
<1>8. CASE clerk[c].ids \subseteq Desk!Of("live")
  <2>1. Desk!Does(c, [clerk[c] EXCEPT !.pc = "admins"]) /\ "admins" \in Stages
    BY <1>8 DEF Desk!Look, Stages
  <2>2. GoesTo(c, "admins")
    BY <1>1, <2>1, GoesToChanges
  <2>3. /\ clerk' \in [Clerks -> ClerkType] /\ \A d \in Clerks \ {c} : clerk'[d] = clerk[d]
        /\ clerk'[c].pc = "admins"
    BY <2>2 DEF GoesTo
  <2>4. DeskTypes'
    BY <1>1, <1>2, <2>3 DEF DeskTypes
  <2>5. QED  BY <1>2, <1>3, <1>5, <1>7, <2>2, <2>3, <2>4, MessagesMove
<1>9. CASE ~(clerk[c].ids \subseteq Desk!Of("live"))
  <2>1. EndsAs(c)
    BY <1>1, <1>9, EndsChanges DEF Desk!Look
  <2>2. /\ clerk' \in [Clerks -> ClerkType] /\ \A d \in Clerks \ {c} : clerk'[d] = clerk[d]
    BY <2>1 DEF EndsAs
  <2>3. DeskTypes'
    BY <1>1, <1>2, <2>2 DEF DeskTypes
  <2>4. QED  BY <1>2, <1>3, <1>5, <1>7, <2>1, <2>2, <2>3, MessagesMove
<1>10. QED  BY <1>8, <1>9

LEMMA MailKeeps ==
  ASSUME DeskInv, NEW c \in Clerks, NEW to, NEW next, Desk!Mail(c, to, next),
         \/ to = "admins" /\ next = "visitor"
         \/ to = "visitor" /\ next = "show"
  PROVE  DeskInv'
<1>1. DeskTypes /\ CallsInOrder /\ MessagesInOrder
  BY DEF DeskInv
<1>2. clerk[c].pc = to /\ UNCHANGED <<kind, entry, board, crossed>>
  BY DEF Desk!Mail
<1>3. kind = "message"
  BY <1>1, <1>2 DEF DeskTypes, CallsInOrder
<1>4. clerk[c].op = "create" /\ \A e \in clerk[c].ids : Message(c, e)
  BY <1>1, <1>2, <1>3 DEF MessagesInOrder, Stage
<1>5. PICK S \in SUBSET Entries : S = clerk[c].ids
  BY <1>1 DEF DeskTypes, ClerkType
<1>6. next \in Stages /\ Desk!Does(c, [clerk[c] EXCEPT !.pc = next])
  BY DEF Desk!Mail, Stages
<1>7. GoesTo(c, next)
  BY <1>1, <1>6, GoesToChanges
<1>8. /\ clerk' \in [Clerks -> ClerkType] /\ \A d \in Clerks \ {c} : clerk'[d] = clerk[d]
      /\ clerk'[c].pc = next
  BY <1>7 DEF GoesTo
<1>9. \/ mailed' = mailed \union {<<to, e>> : e \in S} /\ UNCHANGED <<missed, drops>>
      \/ missed' = missed \union {<<to, e>> : e \in S} /\ mailed' = mailed /\ drops' \in 0 .. MaxDrops
  <2>1. \/ mailed' = mailed \union {<<to, e>> : e \in clerk[c].ids} /\ UNCHANGED <<missed, drops>>
        \/ /\ Desk!Drop \/ UNCHANGED drops
           /\ missed' = missed \union {<<to, e>> : e \in clerk[c].ids} /\ UNCHANGED mailed
    BY DEF Desk!Mail
  <2>2. Desk!Drop \/ UNCHANGED drops => drops' \in 0 .. MaxDrops
    BY <1>1, DropIsBounded DEF DeskTypes
  <2>3. QED  BY <1>5, <2>1, <2>2
<1>10. DeskTypes'
  <2>1. {<<to, e>> : e \in S} \subseteq {"admins", "visitor"} \X Entries
    OBVIOUS
  <2>2. {"admins", "visitor"} \X Entries \subseteq Receivers \X Entries
    BY DEF Receivers
  <2>3. /\ mailed' \subseteq {"admins", "visitor"} \X Entries /\ missed' \subseteq Receivers \X Entries
        /\ drops' \in 0 .. MaxDrops
    BY <1>1, <1>9, <2>1, <2>2 DEF DeskTypes
  <2>4. QED  BY <1>1, <1>2, <1>8, <2>3 DEF DeskTypes
<1>11. /\ \A x \in {"admins", "visitor"}, e \in Entries : Settled(x, e) => Settled(x, e)'
       /\ \A e \in S : Settled(to, e)'
  BY <1>9 DEF Settled
<1>12. ASSUME NEW e \in Entries \ clerk[c].ids
       PROVE  /\ (Untold(e) => Untold(e)')
              /\ (Told(e) => Told(e)')
  <2>1. \A x \in {"admins", "visitor"} : <<x, e>> \notin {<<to, y>> : y \in S}
    BY <1>5
  <2>2. Untold(e) => Untold(e)'
    BY <1>2, <1>9, <2>1 DEF Untold
  <2>3. <<"board", e>> \in missed => <<"board", e>> \in missed'
    BY <1>9
  <2>4. \A x \in {"admins", "visitor"} : <<x, e>> \in mailed \union missed => <<x, e>> \in mailed' \union missed'
    BY <1>9
  <2>5. QED  BY <1>2, <2>2, <2>3, <2>4 DEF Told
<1>13. \A e \in clerk[c].ids :
         /\ (clerk'[c].pc = "admins" => Untold(e)')
         /\ (clerk'[c].pc \in {"visitor", "show"} => Settled("admins", e)')
         /\ (clerk'[c].pc = "show" => Settled("visitor", e)')
  BY <1>2, <1>4, <1>5, <1>8, <1>11 DEF Message
<1>14. \A e \in Entries \ clerk[c].ids :
         /\ (Untold(e) => Untold(e)')
         /\ (Told(e) => Told(e)')
         /\ \A x \in {"admins", "visitor"} : Settled(x, e) => Settled(x, e)'
  BY <1>11, <1>12
<1>15. GoesTo(c, clerk'[c].pc) /\ clerk'[c].pc \in {"admins", "visitor", "show"}
  BY <1>7, <1>8
<1>16. QED  BY <1>2, <1>3, <1>4, <1>8, <1>10, <1>13, <1>14, <1>15, MessagesMove

LEMMA ShowKeeps ==
  ASSUME DeskInv, NEW c \in Clerks, Desk!Show(c)
  PROVE  DeskInv'
<1>1. DeskTypes /\ CallsInOrder /\ MessagesInOrder
  BY DEF DeskInv
<1>2. clerk[c].pc = "show" /\ UNCHANGED <<kind, entry, mailed, crossed, missed, drops>>
  BY DEF Desk!Show
<1>3. kind = "message"
  BY <1>1, <1>2 DEF DeskTypes, CallsInOrder
<1>4. clerk[c].op = "create" /\ \A e \in clerk[c].ids : Message(c, e)
  BY <1>1, <1>2, <1>3 DEF MessagesInOrder, Stage
<1>5. PICK S \in SUBSET Entries : S = clerk[c].ids
  BY <1>1 DEF DeskTypes, ClerkType
<1>6. EndsAs(c)
  BY <1>1, EndsChanges DEF Desk!Show
<1>7. /\ clerk' \in [Clerks -> ClerkType] /\ \A d \in Clerks \ {c} : clerk'[d] = clerk[d]
  BY <1>6 DEF EndsAs
<1>8. /\ board' \in [shown : SUBSET Entries, read : SUBSET Entries]
      /\ board'.shown = board.shown \union S
  <2>1. PICK b \in [shown : SUBSET Entries, read : SUBSET Entries] : b = board
    BY <1>1 DEF DeskTypes
  <2>2. board' = [b EXCEPT !.shown = b.shown \union S]
    BY <1>5, <2>1 DEF Desk!Show
  <2>3. QED  BY <2>1, <2>2
<1>9. DeskTypes'
  BY <1>1, <1>2, <1>7, <1>8 DEF DeskTypes
<1>10. \A e \in Entries \ clerk[c].ids :
         /\ (Untold(e) => Untold(e)')
         /\ (Told(e) => Told(e)')
         /\ \A to \in {"admins", "visitor"} : Settled(to, e) => Settled(to, e)'
  BY <1>2, <1>5, <1>8 DEF Untold, Told, Settled
<1>11. \A e \in clerk[c].ids : Told(e)'
  BY <1>2, <1>4, <1>5, <1>8 DEF Message, Settled, Told
<1>12. QED  BY <1>2, <1>3, <1>4, <1>6, <1>7, <1>9, <1>10, <1>11, MessagesMove

LEMMA StopKeeps ==
  ASSUME DeskInv, NEW c \in Clerks, Desk!Stop(c)
  PROVE  DeskInv'
<1>1. /\ DeskTypes /\ CallsInOrder /\ MessagesInOrder /\ Desk!BoardShowsCalls /\ Desk!MessagesAreTold
  BY DEF DeskInv
<1>2. /\ clerk[c].pc \in {"event", "admins", "visitor", "show"}
      /\ UNCHANGED <<kind, entry, board, mailed, crossed>>
  BY DEF Desk!Stop
<1>3. PICK S \in SUBSET Entries : S = clerk[c].ids
  BY <1>1 DEF DeskTypes, ClerkType
<1>4. missed' = missed \union (Receivers \X S)
  BY <1>3 DEF Desk!Stop, Receivers
<1>5. EndsAs(c) /\ drops' \in 0 .. MaxDrops
  BY <1>1, EndsChanges, DropIsBounded DEF Desk!Stop
<1>6. /\ clerk' \in [Clerks -> ClerkType] /\ \A d \in Clerks \ {c} : clerk'[d] = clerk[d]
      /\ clerk'[c].pc = "done" /\ clerk'[c].ids = {}
  BY <1>5 DEF EndsAs
<1>7. DeskTypes'
  BY <1>1, <1>2, <1>4, <1>5, <1>6 DEF DeskTypes
<1>8. ASSUME kind = "call"
      PROVE  CallsInOrder' /\ (Desk!BoardShowsCalls)'
  <2>1. CallsInOrder'
    BY <1>1, <1>2, <1>6 DEF CallsInOrder
  <2>2. \A e \in S : <<"board", e>> \in missed'
    BY <1>4 DEF Receivers
  <2>3. \A d \in Clerks, e \in Entries : (e \in clerk[d].ids /\ e \notin S) => clerk'[d] = clerk[d]
    BY <1>3, <1>6
  <2>4. (Desk!BoardShowsCalls)'
    BY <1>1, <1>2, <1>4, <2>2, <2>3 DEF Desk!BoardShowsCalls
  <2>5. QED  BY <2>1, <2>4
<1>9. CASE kind = "message" /\ clerk[c].op # "create"
  <2>1. MessagesInOrder' /\ (Desk!MessagesAreTold)'
    BY <1>1, <1>2, <1>4, <1>5, <1>9, EndsQuietly
  <2>2. QED  BY <1>2, <1>7, <1>9, <2>1, OneKind
<1>10. CASE kind = "message" /\ clerk[c].op = "create"
  <2>1. \A e \in Entries :
          /\ (Untold(e) => Untold(e)')
          /\ (Told(e) => Told(e)')
          /\ \A to \in {"admins", "visitor"} : Settled(to, e) => Settled(to, e)'
    BY <1>2, <1>4 DEF Untold, Told, Settled
  <2>2. \A e \in clerk[c].ids : Told(e)'
    BY <1>3, <1>4 DEF Told, Receivers
  <2>3. QED  BY <1>2, <1>5, <1>6, <1>7, <1>10, <2>1, <2>2, MessagesMove
<1>11. CASE kind = "call"
  BY <1>2, <1>7, <1>8, <1>11, OneKind
<1>12. QED  BY <1>1, <1>9, <1>10, <1>11 DEF DeskTypes
----------------------------------------------------------------------------
(* What an action of Inbox changes, and what it announces.                 *)

\* Nobody has read a message that was never sent.
Blank == \A e \in Entries : entry[e].state = "none" => ~entry[e].read

Marks ==
  \A e \in Entries :
    \/ \E c \in Clerks : clerk[c].pc = "commit" /\ e \in clerk[c].unseen
    \/ /\ entry[e].read => entry'[e].read
       /\ entry[e].state = "deleted" /\ entry'[e].state = "live" =>
            \E c \in Clerks : clerk'[c] # clerk[c] /\ clerk'[c].op \in Desk!Brought
Tells ==
  \A c \in Clerks :
    clerk[c].pc # "event" /\ clerk'[c].pc = "event" =>
      \A e \in clerk'[c].ids : entry'[e] # entry[e] \/ e \in clerk[c].unseen
                               \/ clerk'[c].op = "read"

LEMMA QuietTells ==
  ASSUME Blank, entry' = entry, \A d \in Clerks : clerk'[d].pc = "event" => clerk[d].pc = "event"
  PROVE  Blank' /\ Marks /\ Tells
BY DEF Blank, Marks, Tells

LEMMA SubmitTells ==
  ASSUME DeskInv, Blank, NEW c \in Clerks, NEW e \in Entries, Desk!Submit(c, e)
  PROVE  Blank' /\ Marks /\ Tells
<1>1. DeskTypes
  BY DEF DeskInv
<1>2. /\ clerk' = [clerk EXCEPT ![c] = Waits("event", "create", {e})]
      /\ entry' = [entry EXCEPT ![e] = [state |-> "live", read |-> FALSE]]
      /\ entry[e].state = "none"
  BY DEF Desk!Submit, Desk!Does, Waits
<1>3. "event" \in Stages /\ "create" \in Operations
  BY DEF Stages, Operations
<1>4. Clerk(Waits("event", "create", {e}), "event", "create", {e})
  BY <1>3, WaitsIsAClerk
<1>5. /\ clerk'[c].ids = {e} /\ \A d \in Clerks \ {c} : clerk'[d] = clerk[d]
  BY <1>1, <1>2, <1>4 DEF DeskTypes, Clerk
<1>6. /\ entry'[e].state = "live" /\ ~entry[e].read /\ entry'[e] # entry[e]
      /\ \A x \in Entries \ {e} : entry'[x] = entry[x]
  BY <1>1, <1>2 DEF DeskTypes, Blank
<1>7. Blank'
  BY <1>6 DEF Blank
<1>8. Marks
  BY <1>2, <1>6 DEF Marks
<1>9. Tells
  BY <1>5, <1>6 DEF Tells
<1>10. QED  BY <1>7, <1>8, <1>9

LEMMA FlipTells ==
  ASSUME DeskInv, Blank, NEW c \in Clerks, NEW S \in SUBSET Entries,
         NEW op \in {"read", "delete", "restore", "bulkDelete", "bulkRestore"}, Desk!Flip(c, S, op)
  PROVE  Blank' /\ Marks /\ Tells
<1>1. DeskTypes
  BY DEF DeskInv
<1>2. /\ clerk[c].pc = "new" /\ \A e \in S : entry[e].state = Desk!From(op)
      /\ Flipped(S, op) /\ Others(c, S)
      /\ IF kind = "call" /\ op # "read"
         THEN clerk'[c].pc = "event" /\ clerk'[c].ids = S ELSE clerk'[c].pc = "done" /\ clerk'[c].ids = {}
      /\ clerk'[c].op = op
  BY <1>1, FlipChanges
<1>3. /\ \A e \in S : /\ entry'[e].state = (IF op = "read" THEN entry[e].state ELSE Desk!To(op))
                      /\ entry[e].read => entry'[e].read
      /\ \A e \in Entries \ S : entry'[e] = entry[e]
  BY <1>2 DEF Flipped
<1>4. \A e \in S : entry[e].state # "none" /\ entry'[e].state # "none"
  BY <1>2, <1>3 DEF Desk!From, Desk!To
<1>5. Blank'
  BY <1>3, <1>4 DEF Blank
<1>6. ASSUME NEW e \in Entries
      PROVE  /\ entry[e].read => entry'[e].read
             /\ entry[e].state = "deleted" /\ entry'[e].state = "live" =>
                  clerk'[c] # clerk[c] /\ clerk'[c].op \in Desk!Brought
  <2>1. CASE e \in S
    BY <1>2, <1>3, <2>1 DEF Desk!From
  <2>2. CASE e \notin S
    BY <1>3, <2>2
  <2>3. QED  BY <2>1, <2>2
<1>7. Marks
  BY <1>6 DEF Marks
<1>8. ASSUME op # "read", NEW e \in S
      PROVE  entry'[e] # entry[e]
  <2>1. entry[e].state = Desk!From(op) /\ entry'[e].state = Desk!To(op)
    BY <1>2, <1>3, <1>8
  <2>2. Desk!From(op) # Desk!To(op)
    BY <1>8 DEF Desk!From, Desk!To, Desk!Removed, Desk!Brought
  <2>3. QED  BY <2>1, <2>2
<1>9. \A d \in Clerks \ {c} : clerk'[d].pc = clerk[d].pc
  BY <1>2 DEF Others
<1>10. Tells
  BY <1>2, <1>8, <1>9 DEF Tells
<1>11. QED  BY <1>5, <1>7, <1>10

LEMMA FlipSnapshotTells ==
  ASSUME DeskInv, Blank, NEW c \in Clerks, Desk!FlipSnapshot(c)
  PROVE  Blank' /\ Marks /\ Tells
<1>1. DeskTypes /\ CallsInOrder
  BY DEF DeskInv
<1>2. /\ kind = "call" /\ clerk[c].pc = "commit" /\ clerk[c].op \in Desk!Removed \union Desk!Brought
      /\ Flipped(clerk[c].ids, clerk[c].op) /\ Others(c, clerk[c].ids)
      /\ clerk'[c].pc = "event" /\ clerk'[c].ids = clerk[c].ids /\ clerk'[c].op = clerk[c].op
  BY <1>1, FlipSnapshotChanges
<1>3. PICK S \in SUBSET Entries, op \in Desk!Removed \union Desk!Brought : S = clerk[c].ids /\ op = clerk[c].op
  BY <1>1, <1>2 DEF DeskTypes, ClerkType
<1>4. op # "read"
  BY DEF Desk!Removed, Desk!Brought
<1>5. /\ \A e \in S : /\ entry'[e].state = Desk!To(op)
                      /\ entry[e].read => entry'[e].read
      /\ \A e \in Entries \ S : entry'[e] = entry[e]
  BY <1>2, <1>3, <1>4 DEF Flipped
<1>6. \A e \in S \ clerk[c].unseen : entry[e].state = Desk!From(op)
  BY <1>1, <1>2, <1>3 DEF CallsInOrder
<1>7. Blank'
  BY <1>5 DEF Blank, Desk!To
<1>8. ASSUME NEW e \in Entries, ~(\E d \in Clerks : clerk[d].pc = "commit" /\ e \in clerk[d].unseen)
      PROVE  /\ entry[e].read => entry'[e].read
             /\ entry[e].state = "deleted" /\ entry'[e].state = "live" =>
                  clerk'[c] # clerk[c] /\ clerk'[c].op \in Desk!Brought
  <2>1. CASE e \in S
    <3>1. entry[e].state = Desk!From(op) /\ (entry[e].read => entry'[e].read)
      BY <1>2, <1>5, <1>6, <1>8, <2>1
    <3>2. QED  BY <1>2, <1>3, <3>1 DEF Desk!From
  <2>2. CASE e \notin S
    BY <1>5, <2>2
  <2>3. QED  BY <2>1, <2>2
<1>9. Marks
  BY <1>8 DEF Marks
<1>10. ASSUME NEW e \in S, e \notin clerk[c].unseen
       PROVE  entry'[e] # entry[e]
  <2>1. entry[e].state = Desk!From(op) /\ entry'[e].state = Desk!To(op)
    BY <1>5, <1>6, <1>10
  <2>2. Desk!From(op) # Desk!To(op)
    BY DEF Desk!From, Desk!To, Desk!Removed, Desk!Brought
  <2>3. QED  BY <2>1, <2>2
<1>11. \A d \in Clerks \ {c} : clerk'[d].pc = clerk[d].pc
  BY <1>2 DEF Others
<1>12. Tells
  BY <1>2, <1>3, <1>10, <1>11 DEF Tells
<1>13. QED  BY <1>7, <1>9, <1>12

LEMMA SaveTells ==
  ASSUME DeskInv, Blank, NEW c \in Clerks, NEW e \in clerk[c].ids, Desk!Save(c)
  PROVE  Blank' /\ Marks /\ Tells
<1>1. DeskTypes /\ MessagesInOrder
  BY DEF DeskInv
<1>2. /\ e \in Entries /\ kind = "message" /\ clerk[c].pc = "commit" /\ clerk[c].ids = {e}
      /\ clerk[c].op \in {"read", "delete", "restore"}
      /\ SavedAs(e, c) /\ Others(c, {e}) /\ clerk'[c].op = clerk[c].op
      /\ IF clerk[c].op = "read" THEN clerk'[c].pc = "event" /\ clerk'[c].ids = {e}
         ELSE clerk'[c].pc = "done" /\ clerk'[c].ids = {}
  BY <1>1, SaveChanges
<1>3. /\ clerk[c].img.state = Desk!From(clerk[c].op)
      /\ e \in clerk[c].unseen \/ clerk[c].img = entry[e]
  BY <1>1, <1>2 DEF MessagesInOrder, Message
<1>4. /\ \A x \in Entries \ {e} : entry'[x] = entry[x]
      /\ entry'[e].state = (IF clerk[c].op = "read" THEN clerk[c].img.state ELSE Desk!To(clerk[c].op))
      /\ clerk[c].img.read => entry'[e].read
  BY <1>2 DEF SavedAs
<1>5. entry'[e].state # "none"
  BY <1>2, <1>3, <1>4 DEF Desk!From, Desk!To
<1>6. Blank'
  BY <1>4, <1>5 DEF Blank
<1>7. ASSUME NEW x \in Entries, ~(\E d \in Clerks : clerk[d].pc = "commit" /\ x \in clerk[d].unseen)
      PROVE  /\ entry[x].read => entry'[x].read
             /\ entry[x].state = "deleted" /\ entry'[x].state = "live" =>
                  clerk'[c] # clerk[c] /\ clerk'[c].op \in Desk!Brought
  <2>1. CASE x = e
    <3>1. clerk[c].img = entry[e]
      BY <1>2, <1>3, <1>7, <2>1
    <3>2. clerk'[c] # clerk[c]
      BY <1>2
    <3>3. entry[e].state = Desk!From(clerk[c].op)
      BY <1>3, <3>1
    <3>4. QED  BY <1>2, <1>4, <2>1, <3>1, <3>2, <3>3 DEF Desk!From
  <2>2. CASE x # e
    BY <1>4, <2>2
  <2>3. QED  BY <2>1, <2>2
<1>8. Marks
  BY <1>7 DEF Marks
<1>9. \A d \in Clerks \ {c} : clerk'[d].pc = clerk[d].pc
  BY <1>2 DEF Others
<1>10. Tells
  BY <1>2, <1>9 DEF Tells
<1>11. QED  BY <1>6, <1>8, <1>10

LEMMA DeskInit ==
  ASSUME Desk!Init
  PROVE  DeskInv /\ Blank
<1>0. \A c \in Clerks : clerk[c] = Desk!Free("new")
  BY DEF Desk!Init
<1>1. /\ Desk!NoEntry \in EntryType /\ Desk!NoEntry.state = "none" /\ Desk!NoEntry.read = FALSE
      /\ [state |-> "live", read |-> FALSE] \in EntryType
  BY DEF EntryType, Desk!NoEntry
<1>2. /\ Desk!Free("new") \in ClerkType /\ Desk!Free("new").pc = "new" /\ Desk!Free("new").op = ""
      /\ Desk!Free("new").ids = {}
  BY <1>1 DEF ClerkType, Stages, Operations, Desk!Free
<1>3. \A c \in Clerks : clerk[c].pc = "new" /\ clerk[c].op = "" /\ clerk[c].ids = {}
  BY <1>0, <1>2
<1>4. DeskTypes
  <2>1. clerk \in [Clerks -> ClerkType]
    BY <1>2 DEF Desk!Init
  <2>2. entry \in [Entries -> EntryType]
    BY <1>1 DEF Desk!Init
  <2>3. board \in [shown : SUBSET Entries, read : SUBSET Entries]
    BY DEF Desk!Init
  <2>4. QED  BY <2>1, <2>2, <2>3, BackofficeAssumption
             DEF Desk!Init, DeskTypes, BackofficeAssumption, Desk!InboxAssumption
<1>5. CASE kind = "call"
  <2>1. /\ \A e \in Entries : entry[e].state = "live" /\ entry[e].read = FALSE
        /\ board.shown = Entries
    BY <1>5 DEF Desk!Init
  <2>2. QED  BY <1>3, <1>4, <1>5, <2>1
             DEF DeskInv, Blank, CallsInOrder, MessagesInOrder, Desk!BoardShowsCalls, Desk!MessagesAreTold
<1>6. CASE kind = "message"
  <2>1. /\ \A e \in Entries : entry[e].state = "none" /\ entry[e].read = FALSE
        /\ board.shown = {} /\ mailed = {}
    BY <1>1, <1>6 DEF Desk!Init
  <2>2. QED  BY <1>3, <1>4, <1>6, <2>1
             DEF DeskInv, Blank, CallsInOrder, MessagesInOrder, Untold, Stage, Desk!BoardShowsCalls,
                 Desk!MessagesAreTold
<1>7. QED  BY <1>4, <1>5, <1>6 DEF DeskTypes

LEMMA DeskStep ==
  ASSUME DeskInv, Blank, Desk!Next
  PROVE  DeskInv' /\ Blank' /\ Marks /\ Tells
<1>1. PICK c \in Clerks :
        \/ \E e \in Entries :
             \/ Desk!Submit(c, e) \/ Desk!MarkRead(c, e) \/ Desk!Delete(c, e) \/ Desk!Restore(c, e)
             \/ Desk!MarkCallRead(c, e) \/ Desk!DeleteCall(c, e) \/ Desk!RestoreCall(c, e)
        \/ \E S \in SUBSET Entries :
             \/ Desk!BulkDelete(c, S) \/ Desk!BulkRestore(c, S)
             \/ Desk!BulkDeleteCalls(c, S) \/ Desk!BulkRestoreCalls(c, S)
        \/ Desk!Save(c) \/ Desk!FlipSnapshot(c) \/ Desk!Rollback(c)
        \/ Desk!Broadcast(c) \/ Desk!Look(c) \/ Desk!Show(c) \/ Desk!Stop(c)
        \/ Desk!Mail(c, "admins", "visitor") \/ Desk!Mail(c, "visitor", "show")
  BY DEF Desk!Next
<1>2. DeskTypes
  BY DEF DeskInv
<1>3. ASSUME NEW e \in Entries, Desk!Submit(c, e)
      PROVE  DeskInv' /\ Blank' /\ Marks /\ Tells
  BY <1>3, SubmitKeeps, SubmitTells
<1>4. ASSUME NEW e \in Entries, NEW op \in {"read", "delete", "restore"}, Desk!Read(c, e, op)
      PROVE  DeskInv' /\ Blank' /\ Marks /\ Tells
  <2>1. DeskInv'
    BY <1>4, ReadKeeps
  <2>2. entry' = entry /\ \A d \in Clerks : clerk'[d].pc = "event" => clerk[d].pc = "event"
    <3>1. PICK r : r = [pc |-> "commit", op |-> op, ids |-> {e}, unseen |-> {}, img |-> entry[e]]
      OBVIOUS
    <3>2. r.pc = "commit"
      BY <3>1
    <3>3. clerk' = [clerk EXCEPT ![c] = r]
      BY <1>4, <3>1 DEF Desk!Read, Desk!Does
    <3>4. QED  BY <1>2, <1>4, <3>2, <3>3 DEF Desk!Read, DeskTypes
  <2>3. QED  BY <2>1, <2>2, QuietTells
<1>5. ASSUME NEW S \in SUBSET Entries, NEW op \in {"read", "delete", "restore"},
             kind = "call", Desk!Flip(c, S, op)
      PROVE  DeskInv' /\ Blank' /\ Marks /\ Tells
  <2>1. DeskInv'
    BY <1>5, CallReadKeeps, CallFlipKeeps
  <2>2. QED  BY <1>5, <2>1, FlipTells
<1>6. ASSUME NEW S \in SUBSET Entries, NEW op \in {"bulkDelete", "bulkRestore"},
             kind = "message", Desk!Flip(c, S, op)
      PROVE  DeskInv' /\ Blank' /\ Marks /\ Tells
  BY <1>6, BulkKeeps, FlipTells
<1>7. ASSUME NEW S \in SUBSET Entries, NEW op \in {"bulkDelete", "bulkRestore"}, Desk!Snapshot(c, S, op)
      PROVE  DeskInv' /\ Blank' /\ Marks /\ Tells
  <2>1. DeskInv'
    BY <1>7, SnapshotKeeps
  <2>2. entry' = entry /\ \A d \in Clerks : clerk'[d].pc = "event" => clerk[d].pc = "event"
    <3>1. PICK T \in SUBSET Entries : T = S \intersect Desk!Of(Desk!From(op))
      OBVIOUS
    <3>2. clerk' = [clerk EXCEPT ![c] = Waits("commit", op, T)] /\ entry' = entry
      BY <1>7, <3>1 DEF Desk!Snapshot, Desk!Does, Waits
    <3>3. "commit" \in Stages /\ op \in Operations
      BY DEF Stages, Operations
    <3>4. Clerk(Waits("commit", op, T), "commit", op, T)
      BY <3>3, WaitsIsAClerk
    <3>5. QED  BY <1>2, <3>2, <3>4 DEF DeskTypes, Clerk
  <2>3. QED  BY <2>1, <2>2, QuietTells
<1>8. CASE Desk!Save(c)
  <2>1. PICK e \in clerk[c].ids : TRUE
    BY <1>8 DEF DeskInv, MessagesInOrder, Stage, Desk!Save
  <2>2. QED  BY <1>8, <2>1, SaveKeeps, SaveTells
<1>9. CASE Desk!FlipSnapshot(c)
  BY <1>9, FlipSnapshotKeeps, FlipSnapshotTells
<1>10. ASSUME EndsAs(c), entry' = entry
       PROVE  Blank' /\ Marks /\ Tells
  BY <1>10, QuietTells DEF EndsAs
<1>11. ASSUME NEW pc \in {"admins", "visitor", "show"}, Desk!Does(c, [clerk[c] EXCEPT !.pc = pc]), entry' = entry
       PROVE  Blank' /\ Marks /\ Tells
  <2>1. GoesTo(c, pc)
    BY <1>2, <1>11, GoesToChanges DEF Stages
  <2>2. QED  BY <1>11, <2>1, QuietTells DEF GoesTo
<1>12. CASE Desk!Rollback(c)
  BY <1>2, <1>10, <1>12, EndsChanges, RollbackKeeps DEF Desk!Rollback
<1>13. CASE Desk!Broadcast(c)
  BY <1>2, <1>10, <1>13, EndsChanges, BroadcastKeeps DEF Desk!Broadcast
<1>14. CASE Desk!Show(c)
  BY <1>2, <1>10, <1>14, EndsChanges, ShowKeeps DEF Desk!Show
<1>15. CASE Desk!Stop(c)
  BY <1>2, <1>10, <1>15, EndsChanges, StopKeeps DEF Desk!Stop
<1>16. CASE Desk!Look(c)
  <2>1. DeskInv' /\ entry' = entry
    BY <1>16, LookKeeps DEF Desk!Look
  <2>2. Desk!Ends(c) \/ Desk!Does(c, [clerk[c] EXCEPT !.pc = "admins"])
    BY <1>16 DEF Desk!Look
  <2>3. QED  BY <1>2, <1>10, <1>11, <2>1, <2>2, EndsChanges
<1>17. CASE Desk!Mail(c, "admins", "visitor")
  BY <1>11, <1>17, MailKeeps DEF Desk!Mail
<1>18. CASE Desk!Mail(c, "visitor", "show")
  BY <1>11, <1>18, MailKeeps DEF Desk!Mail
<1>19. CASE \E e \in Entries :
              \/ Desk!Submit(c, e) \/ Desk!MarkRead(c, e) \/ Desk!Delete(c, e) \/ Desk!Restore(c, e)
              \/ Desk!MarkCallRead(c, e) \/ Desk!DeleteCall(c, e) \/ Desk!RestoreCall(c, e)
  BY <1>3, <1>4, <1>5, <1>19
     DEF Desk!MarkRead, Desk!Delete, Desk!Restore, Desk!MarkCallRead, Desk!DeleteCall, Desk!RestoreCall
<1>20. CASE \E S \in SUBSET Entries :
              \/ Desk!BulkDelete(c, S) \/ Desk!BulkRestore(c, S)
              \/ Desk!BulkDeleteCalls(c, S) \/ Desk!BulkRestoreCalls(c, S)
  BY <1>6, <1>7, <1>20 DEF Desk!BulkDelete, Desk!BulkRestore, Desk!BulkDeleteCalls, Desk!BulkRestoreCalls
<1>21. QED
  BY <1>1, <1>8, <1>9, <1>12, <1>13, <1>14, <1>15, <1>16, <1>17, <1>18, <1>19, <1>20

LEMMA DeskStays ==
  ASSUME DeskInv, Blank, UNCHANGED desk
  PROVE  DeskInv' /\ Blank'
BY DEF DeskInv, Blank, DeskTypes, CallsInOrder, MessagesInOrder, Stage, Message, Untold, Settled, desk,
       Desk!BoardShowsCalls, Desk!MessagesAreTold

----------------------------------------------------------------------------
(* Posts: the inductive invariant.                                         *)

Works  == {"", "edit", "putOff", "draft", "scheduled", "published", "delete", "restore"}
Jobs   == [pc : {"new", "commit", "done"}, id : Ids \union {None}, op : Works, img : Blog!Rows, unseen : BOOLEAN]
Readings == UNION {[T -> Blog!Rows] : T \in SUBSET Ids}
Runs   == [todo : SUBSET Ids, img : Readings, unseen : SUBSET Ids]

Dated(row) == row.status = "scheduled" => row.date # None

\* A request that commits has read a post, and what it has read of it was dated.
PostTypes ==
  /\ post \in [Ids -> Blog!Rows] /\ req \in [Writers -> Jobs] /\ run \in [Instances -> Runs]
  /\ \A p \in Ids : Dated(post[p])
  /\ \A w \in Writers : /\ Dated(req[w].img)
                        /\ req[w].pc = "commit" => req[w].id \in Ids /\ req[w].op # ""
  /\ \A i \in Instances : run[i].unseen \subseteq run[i].todo /\ run[i].img \in [run[i].todo -> Blog!Rows]
  /\ faults \in 0 .. MaxFaults

\* What a run has read of a post is what the post is, unless somebody has been there
\* since; and it is due.
Fresh ==
  \A i \in Instances : \A p \in run[i].todo \ run[i].unseen :
    /\ run[i].img[p] = post[p]
    /\ post[p].status = "scheduled" /\ post[p].date = "due" /\ post[p].live

PostInv == PostTypes /\ Fresh

----------------------------------------------------------------------------
(* What the operators of Posts do.                                         *)

LEMMA NullIsNoDate == None \notin {"later", "due"} /\ MaxFaults \in Nat
BY BackofficeAssumption DEF BackofficeAssumption, Blog!PostsAssumption

LEMMA RowIsARow ==
  ASSUME NEW status \in {"draft", "scheduled", "published"}, NEW text \in Writers \union {None}
  PROVE  /\ Blog!Row(status, text) \in Blog!Rows /\ Dated(Blog!Row(status, text))
         /\ Blog!Row(status, text).text = text /\ Blog!Row(status, text).status = status
BY NullIsNoDate DEF Blog!Row, Blog!Rows, Dated

\* A row with another mark, another date.
LEMMA RowChanges ==
  ASSUME NEW row \in Blog!Rows
  PROVE  /\ \A b \in BOOLEAN : /\ [row EXCEPT !.live = b] \in Blog!Rows
                               /\ [row EXCEPT !.live = b].text = row.text
                               /\ Dated(row) => Dated([row EXCEPT !.live = b])
         /\ \A day \in {None, "later", "due"} :
              /\ [row EXCEPT !.date = day] \in Blog!Rows /\ [row EXCEPT !.date = day].text = row.text
              /\ day # None \/ row.status # "scheduled" => Dated([row EXCEPT !.date = day])
BY DEF Blog!Rows, Dated

LEMMA EditedIsARow ==
  ASSUME NEW img \in Blog!Rows, Dated(img), NEW w \in Writers, NEW b \in BOOLEAN
  PROVE  /\ [img EXCEPT !.text = w, !.live = b] \in Blog!Rows
         /\ [img EXCEPT !.text = w, !.live = b].text = w
         /\ Dated([img EXCEPT !.text = w, !.live = b])
BY DEF Blog!Rows, Dated

LEMMA PutOffIsARow ==
  ASSUME NEW img \in Blog!Rows, NEW w \in Writers, NEW b \in BOOLEAN
  PROVE  /\ [img EXCEPT !.text = w, !.live = b, !.date = "later"] \in Blog!Rows
         /\ [img EXCEPT !.text = w, !.live = b, !.date = "later"].text = w
         /\ Dated([img EXCEPT !.text = w, !.live = b, !.date = "later"])
BY NullIsNoDate DEF Blog!Rows, Dated

LEMMA EffectIsARow ==
  ASSUME NEW w \in Writers, NEW op \in Works \ {""}, NEW img \in Blog!Rows, NEW row \in Blog!Rows,
         Dated(img), Dated(row)
  PROVE  /\ Blog!Effect(w, op, img, row) \in Blog!Rows /\ Dated(Blog!Effect(w, op, img, row))
         /\ Blog!Effect(w, op, img, row).text \in {row.text, w}
<1>0. PICK b \in BOOLEAN : b = row.live
  BY DEF Blog!Rows
<1>1. CASE op = "delete"
  BY <1>1, RowChanges DEF Blog!Effect
<1>2. CASE op = "restore"
  BY <1>2, RowChanges DEF Blog!Effect
<1>3. CASE op = "edit"
  <2>1. Blog!Effect(w, op, img, row) = [img EXCEPT !.text = w, !.live = b]
    BY <1>0, <1>3 DEF Blog!Effect
  <2>2. /\ [img EXCEPT !.text = w, !.live = b] \in Blog!Rows
        /\ [img EXCEPT !.text = w, !.live = b].text = w
        /\ Dated([img EXCEPT !.text = w, !.live = b])
    BY EditedIsARow
  <2>3. QED  BY <2>1, <2>2
<1>4. CASE op = "putOff"
  <2>1. Blog!Effect(w, op, img, row) = [img EXCEPT !.text = w, !.live = b, !.date = "later"]
    BY <1>0, <1>4 DEF Blog!Effect
  <2>2. /\ [img EXCEPT !.text = w, !.live = b, !.date = "later"] \in Blog!Rows
        /\ [img EXCEPT !.text = w, !.live = b, !.date = "later"].text = w
        /\ Dated([img EXCEPT !.text = w, !.live = b, !.date = "later"])
    BY PutOffIsARow
  <2>3. QED  BY <2>1, <2>2
<1>5. CASE op \in {"draft", "scheduled", "published"}
  <2>1. PICK r \in Blog!Rows : r = Blog!Row(op, w) /\ Dated(r) /\ r.text = w
    <3>1. w \in Writers \union {None} /\ op \in {"draft", "scheduled", "published"}
      BY <1>5
    <3>2. Blog!Row(op, w) \in Blog!Rows /\ Dated(Blog!Row(op, w)) /\ Blog!Row(op, w).text = w
      BY <3>1, RowIsARow
    <3>3. QED  BY <3>2
  <2>2. Blog!Effect(w, op, img, row) = [r EXCEPT !.live = b]
    BY <1>0, <1>5, <2>1 DEF Blog!Effect
  <2>3. /\ [r EXCEPT !.live = b] \in Blog!Rows /\ [r EXCEPT !.live = b].text = r.text
        /\ Dated([r EXCEPT !.live = b])
    BY <2>1, RowChanges, Zenon
  <2>4. QED  BY <2>1, <2>2, <2>3
<1>6. QED  BY <1>1, <1>2, <1>3, <1>4, <1>5 DEF Works

LEMMA PublishedIsARow ==
  ASSUME NEW img \in Blog!Rows, NEW row \in Blog!Rows
  PROVE  /\ Blog!Published(img, row) \in Blog!Rows /\ Dated(Blog!Published(img, row))
         /\ Blog!Published(img, row).text = img.text
BY DEF Blog!Rows, Dated, Blog!Published

\* Requests are what they were, or done, or do not see what has become of their post.
JobsKeep ==
  /\ req' \in [Writers -> Jobs]
  /\ \A v \in Writers : /\ Dated(req'[v].img)
                        /\ req'[v].pc = "commit" => req'[v].id \in Ids /\ req'[v].op # ""
LEMMA IdleIsAJob ==
  ASSUME NEW pc \in {"new", "done"}
  PROVE  /\ Blog!Idle(pc) \in Jobs /\ Blog!Idle(pc).pc = pc /\ Dated(Blog!Idle(pc).img)
BY DEF Jobs, Works, Blog!Idle, Blog!NoRow, Blog!Rows, Dated

LEMMA JobUnseen ==
  ASSUME NEW q \in Jobs
  PROVE  /\ [q EXCEPT !.unseen = TRUE] \in Jobs /\ [q EXCEPT !.unseen = TRUE].pc = q.pc
         /\ [q EXCEPT !.unseen = TRUE].id = q.id /\ [q EXCEPT !.unseen = TRUE].op = q.op
         /\ [q EXCEPT !.unseen = TRUE].img = q.img
BY DEF Jobs

LEMMA RequestsSee ==
  ASSUME PostTypes, NEW w \in Writers, NEW S,
         req' = [v \in Writers |-> IF v = w THEN Blog!Idle("done")
                                   ELSE IF req[v].pc = "commit" /\ req[v].id \in S
                                   THEN [req[v] EXCEPT !.unseen = TRUE] ELSE req[v]]
  PROVE  JobsKeep /\ req'[w].pc = "done"
<1>1. ASSUME NEW v \in Writers
      PROVE  /\ req'[v] \in Jobs /\ Dated(req'[v].img)
             /\ req'[v].pc = "commit" => req'[v].id \in Ids /\ req'[v].op # ""
             /\ v = w => req'[v].pc = "done"
  <2>1. CASE v = w
    <3>1. req'[v] = Blog!Idle("done")
      BY <2>1
    <3>2. QED  BY <3>1, IdleIsAJob
  <2>2. CASE v # w
    <3>1. PICK q \in Jobs : q = req[v]
      BY DEF PostTypes
    <3>2. Dated(q.img) /\ (q.pc = "commit" => q.id \in Ids /\ q.op # "")
      BY <3>1 DEF PostTypes
    <3>3. req'[v] = [q EXCEPT !.unseen = TRUE] \/ req'[v] = q
      BY <2>2, <3>1
    <3>4. QED  BY <2>2, <3>2, <3>3, JobUnseen
  <2>3. QED  BY <2>1, <2>2
<1>2. QED  BY <1>1 DEF JobsKeep

LEMMA RequestsSeeToo ==
  ASSUME PostTypes, NEW S,
         req' = [v \in Writers |-> IF req[v].pc = "commit" /\ req[v].id \in S
                                   THEN [req[v] EXCEPT !.unseen = TRUE] ELSE req[v]]
  PROVE  JobsKeep
<1>1. ASSUME NEW v \in Writers
      PROVE  /\ req'[v] \in Jobs /\ Dated(req'[v].img)
             /\ req'[v].pc = "commit" => req'[v].id \in Ids /\ req'[v].op # ""
  <2>1. PICK q \in Jobs : q = req[v]
    BY DEF PostTypes
  <2>2. Dated(q.img) /\ (q.pc = "commit" => q.id \in Ids /\ q.op # "")
    BY <2>1 DEF PostTypes
  <2>3. req'[v] = [q EXCEPT !.unseen = TRUE] \/ req'[v] = q
    BY <2>1
  <2>4. QED  BY <2>2, <2>3, JobUnseen
<1>2. QED  BY <1>1 DEF JobsKeep

\* A run does not see what becomes of S.
Blind(i, S) ==
  /\ run'[i] \in Runs /\ run'[i].todo = run[i].todo /\ run'[i].img = run[i].img
  /\ run[i].unseen \subseteq run'[i].unseen /\ S \intersect run[i].todo \subseteq run'[i].unseen
  /\ run'[i].unseen \subseteq run'[i].todo

LEMMA RunIsBlind ==
  ASSUME PostTypes, NEW i \in Instances, NEW S,
         \/ run'[i] = [run[i] EXCEPT !.unseen = @ \union (S \intersect run[i].todo)]
         \/ run'[i] = run[i] /\ S \intersect run[i].todo = {}
  PROVE  Blind(i, S)
<1>1. PICK r \in Runs : r = run[i] /\ r.unseen \subseteq r.todo
  BY DEF PostTypes
<1>2. PICK U : U = r.unseen \union (S \intersect r.todo)
  OBVIOUS
<1>3. r.todo \subseteq Ids
  BY DEF Runs
<1>4. U \in SUBSET Ids
  BY <1>1, <1>2, <1>3
<1>5. /\ [r EXCEPT !.unseen = U] \in Runs /\ [r EXCEPT !.unseen = U].todo = r.todo
      /\ [r EXCEPT !.unseen = U].img = r.img /\ [r EXCEPT !.unseen = U].unseen = U
  BY <1>4 DEF Runs
<1>6. run'[i] = [r EXCEPT !.unseen = U] \/ (run'[i] = r /\ S \intersect r.todo = {})
  BY <1>1, <1>2
<1>7. QED  BY <1>1, <1>2, <1>5, <1>6 DEF Blind

LEMMA UnseenButChanges ==
  ASSUME PostTypes, NEW w \in Writers, NEW p \in Ids, Blog!UnseenBut(w, p)
  PROVE  /\ JobsKeep /\ req'[w].pc = "done"
         /\ run' = [i \in Instances |-> run'[i]] /\ \A i \in Instances : Blind(i, {p})
<1>1. JobsKeep /\ req'[w].pc = "done"
  <2>1. req' = [v \in Writers |-> IF v = w THEN Blog!Idle("done")
                                  ELSE IF req[v].pc = "commit" /\ req[v].id \in {p}
                                  THEN [req[v] EXCEPT !.unseen = TRUE] ELSE req[v]]
    BY DEF Blog!UnseenBut
  <2>2. QED  BY <2>1, RequestsSee
<1>2. ASSUME NEW i \in Instances
      PROVE  Blind(i, {p})
  <2>1. CASE p \in run[i].todo
    <3>1. {p} = {p} \intersect run[i].todo
      BY <2>1
    <3>2. run'[i] = [run[i] EXCEPT !.unseen = @ \union {p}]
      BY <2>1 DEF Blog!UnseenBut
    <3>3. run'[i] = [run[i] EXCEPT !.unseen = @ \union ({p} \intersect run[i].todo)]
      BY <3>1, <3>2
    <3>4. QED  BY <3>3, RunIsBlind
  <2>2. CASE p \notin run[i].todo
    <3>1. run'[i] = run[i]
      BY <2>2 DEF Blog!UnseenBut
    <3>2. {p} \intersect run[i].todo = {}
      BY <2>2
    <3>3. QED  BY <3>1, <3>2, RunIsBlind
  <2>3. QED  BY <2>1, <2>2
<1>3. QED  BY <1>1, <1>2 DEF Blog!UnseenBut

\* Whoever changes S blinds the runs to it, and the invariant holds.
LEMMA RowsChange ==
  ASSUME PostInv, NEW S \in SUBSET Ids, JobsKeep, run' = [i \in Instances |-> run'[i]],
         \A i \in Instances : Blind(i, S),
         post' \in [Ids -> Blog!Rows], \A p \in Ids \ S : post'[p] = post[p], \A p \in S : Dated(post'[p]),
         faults' = faults
  PROVE  PostInv'
<1>1. PostTypes /\ Fresh
  BY DEF PostInv
<1>2. PostTypes'
  <2>1. /\ run' \in [Instances -> Runs]
        /\ \A i \in Instances : run'[i].unseen \subseteq run'[i].todo
                                /\ run'[i].img \in [run'[i].todo -> Blog!Rows]
    BY <1>1 DEF Blind, PostTypes
  <2>2. \A p \in Ids : Dated(post'[p])
    BY <1>1 DEF PostTypes
  <2>3. QED  BY <1>1, <2>1, <2>2 DEF PostTypes, JobsKeep
<1>3. Fresh'
  <2>1. SUFFICES ASSUME NEW i \in Instances, NEW p \in run'[i].todo \ run'[i].unseen
        PROVE  /\ run'[i].img[p] = post'[p]
               /\ post'[p].status = "scheduled" /\ post'[p].date = "due" /\ post'[p].live
    BY DEF Fresh
  <2>2. p \in run[i].todo \ run[i].unseen /\ run'[i].img = run[i].img /\ p \notin S
    BY <2>1 DEF Blind
  <2>3. p \in Ids
    BY <1>1, <2>2 DEF PostTypes, Runs
  <2>4. post'[p] = post[p]
    BY <2>2, <2>3
  <2>5. QED  BY <1>1, <2>2, <2>4 DEF Fresh
<1>4. QED  BY <1>2, <1>3 DEF PostInv

----------------------------------------------------------------------------
(* Every action of Posts keeps the invariant, and loses no text.           *)

Texts ==
  \A p \in Ids :
    post'[p].text # post[p].text =>
      \/ \E w \in Writers : req[w].pc # "done" /\ req'[w].pc = "done" /\ post'[p].text = w
      \/ \E w \in Writers : req[w].pc = "commit" /\ req[w].id = p /\ req[w].unseen
      \/ \E i \in Instances : p \in run[i].unseen
Punctual ==
  \A p \in Ids, i \in Instances :
    p \in run[i].todo /\ post'[p] # post[p] /\ p \notin run'[i].todo =>
      \/ post[p].status = "scheduled" /\ post[p].date = "due" /\ post[p].live
      \/ p \in run[i].unseen

LEMMA FreshRunsArePunctual ==
  ASSUME PostInv
  PROVE  Punctual
BY DEF PostInv, Fresh, Punctual

LEMMA CreatePostKeeps ==
  ASSUME PostInv, NEW w \in Writers, NEW p \in Ids, Blog!Create(w, p)
  PROVE  PostInv' /\ Texts
<1>1. PostTypes
  BY DEF PostInv
<1>2. /\ req[w].pc = "new" /\ Blog!UnseenBut(w, p) /\ faults' = faults
  BY DEF Blog!Create
<1>3. PICK r \in Blog!Rows : post' = [post EXCEPT ![p] = r] /\ r.text = w /\ Dated(r)
  <2>0. w \in Writers \union {None}
    OBVIOUS
  <2>1. CASE post' = [post EXCEPT ![p] = Blog!Row("scheduled", w)]
    <3>1. Blog!Row("scheduled", w) \in Blog!Rows /\ Dated(Blog!Row("scheduled", w))
          /\ Blog!Row("scheduled", w).text = w
      BY <2>0, RowIsARow
    <3>2. QED  BY <2>1, <3>1
  <2>2. ASSUME NEW status \in {"draft", "published"}, NEW day \in {None, "later", "due"},
               post' = [post EXCEPT ![p] = [Blog!Row(status, w) EXCEPT !.date = day]]
        PROVE  \E r \in Blog!Rows : post' = [post EXCEPT ![p] = r] /\ r.text = w /\ Dated(r)
    <3>1. Blog!Row(status, w) \in Blog!Rows /\ Blog!Row(status, w).text = w
          /\ Blog!Row(status, w).status = status
      BY <2>0, RowIsARow
    <3>2. PICK q \in Blog!Rows : q = Blog!Row(status, w) /\ q.text = w /\ q.status = status
      BY <3>1
    <3>3. /\ [q EXCEPT !.date = day] \in Blog!Rows /\ [q EXCEPT !.date = day].text = q.text
          /\ Dated([q EXCEPT !.date = day])
      BY <3>2, RowChanges
    <3>4. QED  BY <2>2, <3>2, <3>3
  <2>3. QED  BY <2>1, <2>2 DEF Blog!Create
<1>4. /\ JobsKeep /\ req'[w].pc = "done"
      /\ run' = [i \in Instances |-> run'[i]] /\ \A i \in Instances : Blind(i, {p})
  BY <1>1, <1>2, UnseenButChanges
<1>5. /\ post' \in [Ids -> Blog!Rows] /\ post'[p] = r /\ \A q \in Ids \ {p} : post'[q] = post[q]
  BY <1>1, <1>3 DEF PostTypes
<1>6. PostInv'
  BY <1>2, <1>3, <1>4, <1>5, RowsChange
<1>7. Texts
  BY <1>2, <1>3, <1>4, <1>5 DEF Texts
<1>8. QED  BY <1>6, <1>7

LEMMA ReadsKeeps ==
  ASSUME PostInv, NEW w \in Writers, NEW p \in Ids, NEW op \in Works \ {""}, Blog!Reads(w, p, op)
  PROVE  PostInv' /\ Texts
<1>1. PostTypes /\ Fresh
  BY DEF PostInv
<1>2. PICK row \in Blog!Rows : row = post[p] /\ Dated(row)
  BY <1>1 DEF PostTypes
<1>3. [pc |-> "commit", id |-> p, op |-> op, img |-> row, unseen |-> FALSE] \in Jobs
  BY DEF Jobs
<1>4. PICK r \in Jobs : r = [pc |-> "commit", id |-> p, op |-> op, img |-> row, unseen |-> FALSE]
  BY <1>3
<1>5. r.id = p /\ r.op = op /\ r.img = row
  BY <1>4
<1>6. req' = [req EXCEPT ![w] = r] /\ UNCHANGED <<post, run, faults>>
  BY <1>2, <1>4 DEF Blog!Reads
<1>7. /\ req' \in [Writers -> Jobs]
      /\ \A v \in Writers : /\ Dated(req'[v].img)
                            /\ req'[v].pc = "commit" => req'[v].id \in Ids /\ req'[v].op # ""
  BY <1>1, <1>2, <1>5, <1>6 DEF PostTypes
<1>8. PostInv'
  BY <1>1, <1>6, <1>7 DEF PostInv, PostTypes, Fresh
<1>9. QED  BY <1>6, <1>8 DEF Texts

LEMMA CommitPostKeeps ==
  ASSUME PostInv, NEW w \in Writers, Blog!Commit(w)
  PROVE  PostInv' /\ Texts
<1>1. PostTypes
  BY DEF PostInv
<1>2. req[w].pc = "commit" /\ faults' = faults
  BY DEF Blog!Commit
<1>3. PICK p \in Ids, op \in Works \ {""}, img \in Blog!Rows, row \in Blog!Rows :
        /\ p = req[w].id /\ op = req[w].op /\ img = req[w].img /\ row = post[p]
        /\ Dated(img) /\ Dated(row)
  BY <1>1, <1>2 DEF PostTypes, Jobs
<1>4. PICK r \in Blog!Rows : r = Blog!Effect(w, op, img, row) /\ Dated(r) /\ r.text \in {row.text, w}
  BY <1>3, EffectIsARow
<1>5. post' = [post EXCEPT ![p] = r] /\ Blog!UnseenBut(w, p)
  BY <1>3, <1>4 DEF Blog!Commit
<1>6. /\ JobsKeep /\ req'[w].pc = "done"
      /\ run' = [i \in Instances |-> run'[i]] /\ \A i \in Instances : Blind(i, {p})
  BY <1>1, <1>5, UnseenButChanges
<1>7. /\ post' \in [Ids -> Blog!Rows] /\ post'[p] = r /\ \A q \in Ids \ {p} : post'[q] = post[q]
  BY <1>1, <1>5 DEF PostTypes
<1>8. PostInv'
  <2>1. {p} \in SUBSET Ids /\ \A q \in {p} : Dated(post'[q])
    BY <1>4, <1>7
  <2>2. QED  BY <1>2, <1>6, <1>7, <2>1, RowsChange
<1>9. Texts
  BY <1>2, <1>3, <1>4, <1>6, <1>7 DEF Texts
<1>10. QED  BY <1>8, <1>9

LEMMA PostFaultIsBounded ==
  ASSUME PostTypes, Blog!Fault
  PROVE  faults' \in 0 .. MaxFaults
<1>1. faults \in 0 .. MaxFaults /\ MaxFaults \in Nat
  BY NullIsNoDate DEF PostTypes
<1>2. QED  BY <1>1 DEF Blog!Fault

LEMMA CommitPostFailsKeeps ==
  ASSUME PostInv, NEW w \in Writers, Blog!CommitFails(w)
  PROVE  PostInv' /\ Texts
<1>1. PostTypes /\ Fresh
  BY DEF PostInv
<1>2. Blog!Idle("done") \in Jobs /\ Blog!Idle("done").pc = "done" /\ Dated(Blog!Idle("done").img)
  BY IdleIsAJob
<1>3. PICK r \in Jobs : r = Blog!Idle("done") /\ r.pc = "done" /\ Dated(r.img)
  BY <1>2
<1>4. req' = [req EXCEPT ![w] = r] /\ UNCHANGED <<post, run>> /\ faults' \in 0 .. MaxFaults
  BY <1>1, <1>3, PostFaultIsBounded DEF Blog!CommitFails
<1>5. /\ req' \in [Writers -> Jobs]
      /\ \A v \in Writers : /\ Dated(req'[v].img)
                            /\ req'[v].pc = "commit" => req'[v].id \in Ids /\ req'[v].op # ""
  BY <1>1, <1>3, <1>4 DEF PostTypes
<1>6. PostInv'
  BY <1>1, <1>4, <1>5 DEF PostInv, PostTypes, Fresh
<1>7. QED  BY <1>4, <1>6 DEF Texts

\* One statement over S.
LEMMA BulkPostsKeeps ==
  ASSUME PostInv, NEW w \in Writers, NEW S \in SUBSET Ids, Blog!BulkDelete(w, S) \/ Blog!BulkRestore(w, S)
  PROVE  PostInv' /\ Texts
<1>1. PostTypes
  BY DEF PostInv
<1>2. /\ req' = [v \in Writers |-> IF v = w THEN Blog!Idle("done")
                                   ELSE IF req[v].pc = "commit" /\ req[v].id \in S
                                   THEN [req[v] EXCEPT !.unseen = TRUE] ELSE req[v]]
      /\ run' = [i \in Instances |-> [run[i] EXCEPT !.unseen = @ \union (S \intersect run[i].todo)]]
      /\ faults' = faults
  BY DEF Blog!BulkDelete, Blog!BulkRestore
<1>3. JobsKeep
  BY <1>1, <1>2, RequestsSee
<1>4. ASSUME NEW i \in Instances
      PROVE  Blind(i, S)
  <2>1. run'[i] = [run[i] EXCEPT !.unseen = @ \union (S \intersect run[i].todo)]
    BY <1>2
  <2>2. QED  BY <1>1, <2>1, RunIsBlind
<1>5. /\ DOMAIN post' = Ids
      /\ \A p \in Ids : \/ post'[p] = [post[p] EXCEPT !.live = FALSE] /\ p \in S
                        \/ post'[p] = [post[p] EXCEPT !.live = TRUE] /\ p \in S
                        \/ post'[p] = post[p]
      /\ post' = [p \in Ids |-> post'[p]]
  <2>1. CASE Blog!BulkDelete(w, S)
    BY <2>1 DEF Blog!BulkDelete
  <2>2. CASE Blog!BulkRestore(w, S)
    BY <2>2 DEF Blog!BulkRestore
  <2>3. QED  BY <2>1, <2>2
<1>6. ASSUME NEW p \in Ids
      PROVE  post'[p] \in Blog!Rows /\ Dated(post'[p]) /\ post'[p].text = post[p].text
             /\ (p \notin S => post'[p] = post[p])
  <2>1. PICK row \in Blog!Rows : row = post[p] /\ Dated(row)
    BY <1>1 DEF PostTypes
  <2>2. /\ [row EXCEPT !.live = TRUE] \in Blog!Rows /\ [row EXCEPT !.live = FALSE] \in Blog!Rows
        /\ [row EXCEPT !.live = TRUE].text = row.text /\ [row EXCEPT !.live = FALSE].text = row.text
        /\ Dated([row EXCEPT !.live = TRUE]) /\ Dated([row EXCEPT !.live = FALSE])
    BY <2>1 DEF Blog!Rows, Dated
  <2>3. QED  BY <1>5, <2>1, <2>2
<1>7. post' \in [Ids -> Blog!Rows]
  BY <1>5, <1>6
<1>8. run' = [i \in Instances |-> run'[i]]
  BY <1>2
<1>9. PostInv'
  BY <1>2, <1>3, <1>4, <1>6, <1>7, <1>8, RowsChange
<1>10. QED  BY <1>6, <1>9 DEF Texts

LEMMA TickKeeps ==
  ASSUME PostInv, NEW p \in Ids, Blog!Tick(p)
  PROVE  PostInv' /\ Texts
<1>1. PostTypes /\ Fresh
  BY DEF PostInv
<1>2. PICK row \in Blog!Rows : row = post[p] /\ Dated(row)
  BY <1>1 DEF PostTypes
<1>3. PICK r \in Blog!Rows : r = [row EXCEPT !.date = "due"] /\ Dated(r) /\ r.text = row.text
  <2>1. /\ [row EXCEPT !.date = "due"] \in Blog!Rows /\ Dated([row EXCEPT !.date = "due"])
        /\ [row EXCEPT !.date = "due"].text = row.text
    BY NullIsNoDate DEF Blog!Rows, Dated
  <2>2. QED  BY <2>1
<1>4. /\ post[p].date = "later" /\ post' = [post EXCEPT ![p] = r] /\ UNCHANGED <<req, run, faults>>
  BY <1>2, <1>3 DEF Blog!Tick
<1>5. /\ post' \in [Ids -> Blog!Rows] /\ post'[p] = r /\ \A q \in Ids \ {p} : post'[q] = post[q]
  BY <1>1, <1>4 DEF PostTypes
<1>6. PostTypes'
  BY <1>1, <1>3, <1>4, <1>5 DEF PostTypes
<1>7. Fresh'
  <2>1. SUFFICES ASSUME NEW i \in Instances, NEW q \in run[i].todo \ run[i].unseen
        PROVE  /\ run[i].img[q] = post'[q]
               /\ post'[q].status = "scheduled" /\ post'[q].date = "due" /\ post'[q].live
    BY <1>4 DEF Fresh
  <2>2. q # p /\ q \in Ids
    BY <1>1, <1>4 DEF Fresh, PostTypes, Runs
  <2>3. post'[q] = post[q]
    BY <1>5, <2>2
  <2>4. QED  BY <1>1, <2>3 DEF Fresh
<1>8. QED  BY <1>2, <1>3, <1>5, <1>6, <1>7 DEF Texts, PostInv

LEMMA RunIsARun ==
  ASSUME NEW T \in SUBSET Ids, NEW f \in [T -> Blog!Rows], NEW U \in SUBSET T
  PROVE  /\ [todo |-> T, img |-> f, unseen |-> U] \in Runs
         /\ [todo |-> T, img |-> f, unseen |-> U].todo = T
         /\ [todo |-> T, img |-> f, unseen |-> U].img = f
         /\ [todo |-> T, img |-> f, unseen |-> U].unseen = U
<1>1. f \in Readings
  BY DEF Readings
<1>2. QED  BY <1>1 DEF Runs

\* A run whose images are as the posts are.
Reliable(r) ==
  /\ r \in Runs /\ r.unseen \subseteq r.todo /\ r.img \in [r.todo -> Blog!Rows]
  /\ \A p \in r.todo \ r.unseen :
       /\ r.img[p] = post[p]
       /\ post[p].status = "scheduled" /\ post[p].date = "due" /\ post[p].live

LEMMA RestingIsARun ==
  /\ Blog!Resting \in Runs /\ Blog!Resting.todo = {} /\ Blog!Resting.unseen = {}
  /\ Blog!Resting.img \in [{} -> Blog!Rows]
<1>1. PICK f \in [{} -> Blog!Rows] : f = [p \in {} |-> Blog!NoRow]
  OBVIOUS
<1>2. Blog!Resting = [todo |-> {}, img |-> f, unseen |-> {}]
  BY <1>1 DEF Blog!Resting
<1>3. QED  BY <1>1, <1>2, RunIsARun

\* A run of its own is what it was without p.
LEMMA RestIsReliable ==
  ASSUME PostInv, NEW i \in Instances, NEW p \in run[i].todo
  PROVE  /\ Reliable(Blog!Rest(i, p))
         /\ Blog!Rest(i, p).todo = run[i].todo \ {p}
<1>1. PostTypes /\ Fresh
  BY DEF PostInv
<1>2. PICK r \in Runs : /\ r = run[i] /\ r.unseen \subseteq r.todo /\ r.img \in [r.todo -> Blog!Rows]
                        /\ r.todo \in SUBSET Ids
  BY <1>1 DEF PostTypes, Runs
<1>3. \A q \in r.todo \ r.unseen :
        /\ r.img[q] = post[q]
        /\ post[q].status = "scheduled" /\ post[q].date = "due" /\ post[q].live
  BY <1>1, <1>2 DEF Fresh
<1>4. CASE r.todo \ {p} = {}
  <2>1. Blog!Rest(i, p) = Blog!Resting
    BY <1>2, <1>4 DEF Blog!Rest
  <2>2. QED  BY <1>2, <1>4, <2>1, RestingIsARun DEF Reliable
<1>5. CASE r.todo \ {p} # {}
  <2>1. PICK T \in SUBSET Ids : T = r.todo \ {p} /\ T \subseteq r.todo
    BY <1>2
  <2>2. PICK f \in [T -> Blog!Rows] : f = [q \in T |-> r.img[q]]
    BY <1>2, <2>1
  <2>3. PICK U \in SUBSET T : U = r.unseen \ {p}
    BY <1>2, <2>1
  <2>4. Blog!Rest(i, p) = [todo |-> T, img |-> f, unseen |-> U]
    BY <1>2, <1>5, <2>1, <2>2, <2>3 DEF Blog!Rest
  <2>5. PICK s \in Runs : s = Blog!Rest(i, p) /\ s.todo = T /\ s.img = f /\ s.unseen = U
    BY <2>4, RunIsARun
  <2>6. \A q \in T \ U : f[q] = r.img[q] /\ q \in r.todo \ r.unseen
    BY <2>1, <2>2, <2>3
  <2>7. QED  BY <1>2, <1>3, <2>1, <2>5, <2>6 DEF Reliable
<1>6. QED  BY <1>4, <1>5

\* One run changes, and stays reliable.
LEMMA OneRunChanges ==
  ASSUME PostInv, NEW i \in Instances, NEW r, Reliable(r), run' = [run EXCEPT ![i] = r],
         UNCHANGED <<post, req>>, faults' \in 0 .. MaxFaults
  PROVE  PostInv' /\ Texts
<1>1. PostTypes /\ Fresh
  BY DEF PostInv
<1>2. /\ run' \in [Instances -> Runs] /\ run'[i] = r /\ \A j \in Instances \ {i} : run'[j] = run[j]
  BY <1>1 DEF PostTypes, Reliable
<1>3. PostTypes'
  <2>1. \A j \in Instances : run'[j].unseen \subseteq run'[j].todo /\ run'[j].img \in [run'[j].todo -> Blog!Rows]
    BY <1>1, <1>2 DEF PostTypes, Reliable
  <2>2. QED  BY <1>1, <1>2, <2>1 DEF PostTypes
<1>4. Fresh'
  BY <1>1, <1>2 DEF Fresh, Reliable
<1>5. QED  BY <1>3, <1>4 DEF PostInv, Texts

LEMMA FindDueKeeps ==
  ASSUME PostInv, NEW i \in Instances, Blog!Find(i)
  PROVE  PostInv' /\ Texts
<1>1. PostTypes
  BY DEF PostInv
<1>2. PICK T \in SUBSET Ids : T = Blog!Due
  BY DEF Blog!Due
<1>3. PICK f \in [T -> Blog!Rows] : f = [p \in T |-> post[p]]
  BY <1>1, <1>2 DEF PostTypes
<1>4. PICK r \in Runs : /\ r = [todo |-> T, img |-> f, unseen |-> {}]
                        /\ r.todo = T /\ r.img = f /\ r.unseen = {}
  <2>1. PICK U \in SUBSET T : U = {}
    OBVIOUS
  <2>2. /\ [todo |-> T, img |-> f, unseen |-> U] \in Runs
        /\ [todo |-> T, img |-> f, unseen |-> U].todo = T
        /\ [todo |-> T, img |-> f, unseen |-> U].img = f
        /\ [todo |-> T, img |-> f, unseen |-> U].unseen = U
    BY RunIsARun
  <2>3. QED  BY <2>1, <2>2
<1>5. run' = [run EXCEPT ![i] = r] /\ UNCHANGED <<post, req, faults>>
  BY <1>2, <1>3, <1>4 DEF Blog!Find
<1>6. Reliable(r)
  BY <1>2, <1>3, <1>4 DEF Reliable, Blog!Due
<1>7. faults' \in 0 .. MaxFaults
  BY <1>1, <1>5 DEF PostTypes
<1>8. QED  BY <1>5, <1>6, <1>7, OneRunChanges

LEMMA PublishFailsKeeps ==
  ASSUME PostInv, NEW i \in Instances, Blog!PublishFails(i)
  PROVE  PostInv' /\ Texts
<1>1. PostTypes
  BY DEF PostInv
<1>2. PICK p \in run[i].todo : /\ (p \in Poison /\ faults' = faults) \/ Blog!Fault
                               /\ run' = [run EXCEPT ![i] = Blog!Rest(i, p)]
                               /\ UNCHANGED <<post, req>>
  BY DEF Blog!PublishFails
<1>3. faults' \in 0 .. MaxFaults
  BY <1>1, <1>2, PostFaultIsBounded DEF PostTypes
<1>4. QED  BY <1>2, <1>3, RestIsReliable, OneRunChanges

LEMMA CrashKeeps ==
  ASSUME PostInv, NEW i \in Instances, Blog!Crash(i)
  PROVE  PostInv' /\ Texts
<1>1. PostTypes
  BY DEF PostInv
<1>2. faults' \in 0 .. MaxFaults
  BY <1>1, PostFaultIsBounded DEF Blog!Crash
<1>3. Reliable(Blog!Resting)
  BY RestingIsARun DEF Reliable
<1>4. QED  BY <1>2, <1>3, OneRunChanges DEF Blog!Crash

LEMMA PublishKeeps ==
  ASSUME PostInv, NEW i \in Instances, Blog!Publish(i)
  PROVE  PostInv' /\ Texts
<1>1. PostTypes /\ Fresh
  BY DEF PostInv
<1>2. PICK p \in run[i].todo :
        /\ post' = [post EXCEPT ![p] = Blog!Published(run[i].img[p], post[p])]
        /\ req' = [w \in Writers |-> IF req[w].pc = "commit" /\ req[w].id = p
                                     THEN [req[w] EXCEPT !.unseen = TRUE] ELSE req[w]]
        /\ run' = [j \in Instances |-> IF j = i THEN Blog!Rest(i, p)
                                       ELSE IF p \in run[j].todo
                                       THEN [run[j] EXCEPT !.unseen = @ \union {p}] ELSE run[j]]
        /\ faults' = faults
  BY DEF Blog!Publish
<1>3. p \in Ids
  BY <1>1 DEF PostTypes, Runs
<1>4. PICK img \in Blog!Rows, row \in Blog!Rows :
        img = run[i].img[p] /\ row = post[p] /\ (p \notin run[i].unseen => img = row)
  BY <1>1, <1>3 DEF PostTypes, Fresh
<1>5. PICK r \in Blog!Rows : r = Blog!Published(img, row) /\ Dated(r) /\ r.text = img.text
  BY PublishedIsARow
<1>6. /\ post' \in [Ids -> Blog!Rows] /\ post'[p] = r /\ \A q \in Ids \ {p} : post'[q] = post[q]
  BY <1>1, <1>2, <1>3, <1>4, <1>5 DEF PostTypes
<1>7. JobsKeep
  <2>1. req' = [w \in Writers |-> IF req[w].pc = "commit" /\ req[w].id \in {p}
                                  THEN [req[w] EXCEPT !.unseen = TRUE] ELSE req[w]]
    BY <1>2
  <2>2. QED  BY <1>1, <2>1, RequestsSeeToo
<1>8. ASSUME NEW j \in Instances \ {i}
      PROVE  Blind(j, {p})
  <2>1. CASE p \in run[j].todo
    <3>1. {p} = {p} \intersect run[j].todo
      BY <2>1
    <3>2. run'[j] = [run[j] EXCEPT !.unseen = @ \union {p}]
      BY <1>2, <2>1
    <3>3. run'[j] = [run[j] EXCEPT !.unseen = @ \union ({p} \intersect run[j].todo)]
      BY <3>1, <3>2
    <3>4. QED  BY <1>1, <3>3, RunIsBlind
  <2>2. CASE p \notin run[j].todo
    <3>1. run'[j] = run[j]
      BY <1>2, <2>2
    <3>2. {p} \intersect run[j].todo = {}
      BY <2>2
    <3>3. QED  BY <1>1, <3>1, <3>2, RunIsBlind
  <2>3. QED  BY <2>1, <2>2
<1>9. /\ run'[i] = Blog!Rest(i, p) /\ Reliable(Blog!Rest(i, p)) /\ run'[i].todo = run[i].todo \ {p}
  BY <1>2, RestIsReliable
<1>10. PostTypes'
  <2>1. run' \in [Instances -> Runs] /\ \A j \in Instances : /\ run'[j].unseen \subseteq run'[j].todo
                                                             /\ run'[j].img \in [run'[j].todo -> Blog!Rows]
    <3>1. run' = [j \in Instances |-> run'[j]]
      BY <1>2
    <3>2. ASSUME NEW j \in Instances
          PROVE  /\ run'[j] \in Runs /\ run'[j].unseen \subseteq run'[j].todo
                 /\ run'[j].img \in [run'[j].todo -> Blog!Rows]
      <4>1. CASE j = i
        BY <1>9, <4>1 DEF Reliable
      <4>2. CASE j # i
        BY <1>1, <1>8, <4>2 DEF Blind, PostTypes
      <4>3. QED  BY <4>1, <4>2
    <3>3. QED  BY <3>1, <3>2
  <2>2. \A q \in Ids : Dated(post'[q])
    BY <1>1, <1>5, <1>6 DEF PostTypes
  <2>3. QED  BY <1>1, <1>2, <1>6, <1>7, <2>1, <2>2 DEF PostTypes, JobsKeep
<1>11. Fresh'
  <2>1. SUFFICES ASSUME NEW j \in Instances, NEW q \in run'[j].todo \ run'[j].unseen
        PROVE  /\ run'[j].img[q] = post'[q]
               /\ post'[q].status = "scheduled" /\ post'[q].date = "due" /\ post'[q].live
    BY DEF Fresh
  <2>2. /\ run'[j].img[q] = post[q] /\ q # p /\ q \in Ids
        /\ post[q].status = "scheduled" /\ post[q].date = "due" /\ post[q].live
    <3>1. CASE j = i
      BY <1>1, <1>9, <2>1, <3>1 DEF Reliable, Runs
    <3>2. CASE j # i
      <4>1. /\ run'[j].todo = run[j].todo /\ run'[j].img = run[j].img
            /\ q \in run[j].todo \ run[j].unseen /\ q # p
        BY <1>8, <2>1, <3>2 DEF Blind
      <4>2. q \in Ids
        BY <1>1, <4>1 DEF PostTypes, Runs
      <4>3. QED  BY <1>1, <4>1, <4>2 DEF Fresh
    <3>3. QED  BY <3>1, <3>2
  <2>3. post'[q] = post[q]
    BY <1>6, <2>2
  <2>4. QED  BY <2>2, <2>3
<1>12. Texts
  BY <1>4, <1>5, <1>6 DEF Texts
<1>13. QED  BY <1>10, <1>11, <1>12 DEF PostInv

LEMMA PostsInit ==
  ASSUME Blog!Init
  PROVE  PostInv
<1>1. None \in Writers \union {None} /\ "scheduled" \in {"draft", "scheduled", "published"}
  OBVIOUS
<1>2. Blog!Row("scheduled", None) \in Blog!Rows /\ Dated(Blog!Row("scheduled", None))
  BY <1>1, RowIsARow
<1>3. Blog!NoRow \in Blog!Rows /\ Dated(Blog!NoRow)
  BY DEF Blog!NoRow, Blog!Rows, Dated
<1>4. post \in [Ids -> Blog!Rows] /\ \A p \in Ids : Dated(post[p])
  <2>1. PICK p \in Ids : post = [q \in Ids |-> IF q = p THEN Blog!Row("scheduled", None) ELSE Blog!NoRow]
    BY DEF Blog!Init
  <2>2. \A q \in Ids : post[q] = Blog!Row("scheduled", None) \/ post[q] = Blog!NoRow
    BY <2>1
  <2>3. QED  BY <1>2, <1>3, <2>1, <2>2
<1>5. Blog!Idle("new") \in Jobs /\ Blog!Idle("new").pc = "new" /\ Dated(Blog!Idle("new").img)
  BY IdleIsAJob
<1>6. req \in [Writers -> Jobs] /\ \A w \in Writers : Dated(req[w].img) /\ req[w].pc = "new"
  BY <1>5 DEF Blog!Init
<1>7. run \in [Instances -> Runs] /\ \A i \in Instances : run[i] = Blog!Resting
  BY RestingIsARun DEF Blog!Init
<1>8. faults \in 0 .. MaxFaults
  BY NullIsNoDate DEF Blog!Init
<1>9. PostTypes
  <2>1. \A i \in Instances : run[i].unseen \subseteq run[i].todo /\ run[i].img \in [run[i].todo -> Blog!Rows]
    BY <1>7, RestingIsARun
  <2>2. \A w \in Writers : /\ Dated(req[w].img)
                           /\ req[w].pc = "commit" => req[w].id \in Ids /\ req[w].op # ""
    BY <1>6
  <2>3. QED  BY <1>4, <1>6, <1>7, <1>8, <2>1, <2>2 DEF PostTypes
<1>10. Fresh
  BY <1>7, RestingIsARun DEF Fresh
<1>11. QED  BY <1>9, <1>10 DEF PostInv

LEMMA PostsStep ==
  ASSUME PostInv, Blog!Next
  PROVE  PostInv' /\ Texts /\ Punctual
<1>1. Punctual
  BY FreshRunsArePunctual
<1>2. ASSUME NEW w \in Writers, NEW p \in Ids, Blog!Create(w, p)
      PROVE  PostInv' /\ Texts
  BY <1>2, CreatePostKeeps
<1>3. ASSUME NEW w \in Writers, NEW p \in Ids,
             Blog!ReadToUpdate(w, p) \/ Blog!ReadToDelete(w, p) \/ Blog!ReadToRestore(w, p)
      PROVE  PostInv' /\ Texts
  <2>1. PICK op \in Works \ {""} : Blog!Reads(w, p, op)
    BY <1>3 DEF Works, Blog!ReadToUpdate, Blog!ReadToDelete, Blog!ReadToRestore
  <2>2. QED  BY <2>1, ReadsKeeps
<1>4. ASSUME NEW w \in Writers, NEW S \in SUBSET Ids, Blog!BulkDelete(w, S) \/ Blog!BulkRestore(w, S)
      PROVE  PostInv' /\ Texts
  BY <1>4, BulkPostsKeeps
<1>5. ASSUME NEW w \in Writers, Blog!Commit(w) \/ Blog!CommitFails(w)
      PROVE  PostInv' /\ Texts
  BY <1>5, CommitPostKeeps, CommitPostFailsKeeps
<1>6. ASSUME NEW p \in Ids, Blog!Tick(p)
      PROVE  PostInv' /\ Texts
  BY <1>6, TickKeeps
<1>7. ASSUME NEW i \in Instances, Blog!Cron(i) \/ Blog!Crash(i)
      PROVE  PostInv' /\ Texts
  BY <1>7, FindDueKeeps, PublishKeeps, PublishFailsKeeps, CrashKeeps DEF Blog!Cron
<1>8. QED  BY <1>1, <1>2, <1>3, <1>4, <1>5, <1>6, <1>7 DEF Blog!Next

LEMMA PostsStay ==
  ASSUME PostInv, UNCHANGED blog
  PROVE  PostInv' /\ Texts /\ Punctual
<1>1. PostInv' /\ Texts
  BY DEF PostInv, PostTypes, Fresh, Texts, blog
<1>2. QED  BY <1>1, FreshRunsArePunctual

----------------------------------------------------------------------------
(* Gate: the seed.                                                         *)

Parts == {"office", "business", "later"}

LEMMA PartsOfTheSeed ==
  /\ DOMAIN Door!Permissions = Parts
  /\ Door!OfficePermissions \union Door!BusinessPermissions \union Door!LaterPermissions
       \subseteq Door!AllPermissions
BY DEF Door!Permissions, Door!AllPermissions, Parts

\* Every name in ROLE_GRANTS is one of PERMISSIONS.
LEMMA AdminIsSeeded == Door!AdminGrants \subseteq Door!AllPermissions
<1>1. Door!AdminGrants \subseteq Door!OfficePermissions \union Door!LaterPermissions
  BY DEF Door!AdminGrants, Door!OfficePermissions, Door!LaterPermissions, Door!Crud
<1>2. QED  BY <1>1, PartsOfTheSeed

LEMMA ManagerIsSeeded == Door!ManagerGrants \subseteq Door!AllPermissions
<1>1. Door!ManagerGrants \subseteq Door!OfficePermissions \union Door!BusinessPermissions \union Door!LaterPermissions
  BY DEF Door!ManagerGrants, Door!OfficePermissions, Door!BusinessPermissions, Door!LaterPermissions, Door!Crud
<1>2. QED  BY <1>1, PartsOfTheSeed

LEMMA EditorIsSeeded == Door!EditorGrants \subseteq Door!AllPermissions
<1>1. Door!EditorGrants \subseteq Door!OfficePermissions
  BY DEF Door!EditorGrants, Door!OfficePermissions, Door!Crud
<1>2. QED  BY <1>1, PartsOfTheSeed

LEMMA ViewerIsSeeded == Door!ViewerGrants \subseteq Door!AllPermissions
<1>1. Door!ViewerGrants \subseteq Door!OfficePermissions
  BY DEF Door!ViewerGrants, Door!OfficePermissions, Door!Crud
<1>2. QED  BY <1>1, PartsOfTheSeed

LEMMA BusinessIsSeeded ==
  ASSUME NEW m \in Door!BusinessModules
  PROVE  {m[2]} \X Door!Crud \subseteq Door!AllPermissions
<1>1. m[2] \in {"public-companies", "marketing-managers", "director-assistants", "technical-supervisors",
                "representation-companies", "external-operators", "public-adjusters", "insurance-adjusters",
                "technical-services", "marketing-roles", "warehouse-roles", "administrative-roles",
                "collections-roles", "reportes-roles", "salespersons", "leads", "employees", "clients",
                "contact-roles", "spectators"}
  BY DEF Door!BusinessModules
<1>2. {m[2]} \X Door!Crud \subseteq Door!OfficePermissions \union Door!BusinessPermissions
  BY <1>1 DEF Door!OfficePermissions, Door!BusinessPermissions, Door!Crud
<1>3. QED  BY <1>2, PartsOfTheSeed

LEMMA NothingIsMisnamed == Door!Misnamed = {}
<1>1. SUFFICES ASSUME NEW r \in Door!Roles, r # "super-admin"
      PROVE  Door!GrantsOf(r) \subseteq Door!AllPermissions
  BY DEF Door!Misnamed
<1>2. CASE r = "admin"
  BY <1>2, AdminIsSeeded DEF Door!GrantsOf
<1>3. CASE r = "manager"
  BY <1>3, ManagerIsSeeded DEF Door!GrantsOf
<1>4. CASE r = "editor"
  BY <1>4, EditorIsSeeded DEF Door!GrantsOf
<1>5. CASE r = "viewer"
  BY <1>5, ViewerIsSeeded DEF Door!GrantsOf
<1>6. CASE r \notin {"admin", "manager", "editor", "viewer"}
  <2>1. Door!GrantsOf(r) = {m[2] : m \in {x \in Door!BusinessModules : x[1] = r}} \X Door!Crud
    BY <1>6 DEF Door!GrantsOf
  <2>2. QED  BY <2>1, BusinessIsSeeded
<1>7. QED  BY <1>2, <1>3, <1>4, <1>5, <1>6

----------------------------------------------------------------------------
(* Gate: the table of routes.                                              *)

\* What the seed, once it is through, can give; and what only the role that may do
\* everything meets.
Seedable == {Door!Ability(p) : p \in Door!AllPermissions}
              \union {<<"AVAILABILITY_EXCEPTION", "export">>, <<"USER", "manage">>}

\* The words that paths, abilities and routes are made of.
Words == {":", "activity-logs", "ai", "appointments", "auth", "availability", "backup-codes",
          "backups", "blog-categories", "bulk-delete", "bulk-restore", "calendar", "callback",
          "calls", "campaigns", "change-password", "check", "company-data", "contact-support",
          "disable", "download", "download-zip", "email", "enable", "exceptions", "export",
          "exports", "forgot-password", "generate-campaign", "generate-content", "generate-ideas",
          "generate-post", "generate-preview", "generate-topics", "google", "health", "image",
          "login", "logout", "logout-all", "me", "permissions", "posts", "profile-photo", "public",
          "read", "redirect", "refresh", "regenerate", "register", "request-password-change",
          "resend-verification-code", "reset-password", "restore", "retell", "roles", "rules",
          "run", "sessions", "setup", "setup-password", "signature", "social", "social-media",
          "sync", "time-slots", "trash", "trusted-devices", "two-factor", "username", "users",
          "verify", "verify-email", "webhook"}
Subjects == {"", "ACTIVITY_LOG", "APPOINTMENT", "AVAILABILITY_RULE", "AVAILABILITY_EXCEPTION",
             "DATABASE_BACKUP", "BLOG_CATEGORY", "CAMPAIGN", "COMPANY", "CONTACT", "CONTENT",
             "CALL_RECORD", "PERMISSION", "ROLE", "SOCIAL_MEDIA", "USER"}
Actions  == Door!Levels \union Door!Crud \union {"manage", "export"}
Verbs    == {"get", "post", "patch", "put", "delete"}

RouteType == [verb : Verbs, path : Seq(Words), subject : Subjects, action : Actions,
              extra : SUBSET Actions, changes : BOOLEAN]

\* A route that demands actions of A only, and reads only if it changes nothing.
Asks(A, r) == r.action \in Door!Levels \/ ({r.action} \union r.extra \subseteq A /\ (r.action = "read" => ~r.changes))

\* Routes whose demands can be met, of which readers change nothing.
Good == {r \in RouteType : r.action \in Door!Levels \/ ({r.subject} \X ({r.action} \union r.extra) \subseteq Seedable
                                                          /\ (r.action = "read" => ~r.changes))}

LEMMA RouteIsARoute ==
  ASSUME NEW verb \in Verbs, NEW path \in Seq(Words), NEW action \in Actions, NEW changes \in BOOLEAN
  PROVE  /\ Door!Route(verb, path, action, changes) \in RouteType
         /\ Door!Route(verb, path, action, changes).action = action
         /\ Door!Route(verb, path, action, changes).changes = changes
         /\ Door!Route(verb, path, action, changes).extra = {}
BY DEF Door!Route, RouteType, Subjects

\* The routes as the controllers declare them.
LEMMA Declared ==
  ASSUME NEW A \in SUBSET Actions, NEW path \in Seq(Words), NEW action \in A \union Door!Levels
  PROVE  LET Listed == {r \in RouteType : Asks(A, r)} IN
         /\ Door!Get(path, action) \in Listed /\ Door!Ask(path, action) \in Listed
         /\ action # "read" => /\ Door!Post(path, action) \in Listed /\ Door!Patch(path, action) \in Listed
                               /\ Door!Put(path, action) \in Listed /\ Door!Remove(path, action) \in Listed
                               /\ Door!Route("get", path, action, TRUE) \in Listed
<1>1. action \in Actions /\ {"get", "post", "patch", "put", "delete"} \subseteq Verbs
  BY DEF Actions, Verbs
<1>2. ASSUME NEW verb \in Verbs, NEW changes \in BOOLEAN, action = "read" => ~changes
      PROVE  LET r == Door!Route(verb, path, action, changes) IN r \in RouteType /\ Asks(A, r)
  BY <1>1, <1>2, RouteIsARoute DEF Asks
<1>3. QED
  BY <1>1, <1>2 DEF Door!Get, Door!Ask, Door!Post, Door!Patch, Door!Put, Door!Remove

LEMMA AlsoDeclared ==
  ASSUME NEW A \in SUBSET Actions, NEW r \in RouteType, Asks(A, r), NEW action \in A
  PROVE  Door!Also(r, action) \in RouteType /\ Asks(A, Door!Also(r, action))
<1>1. PICK E \in SUBSET Actions : E = {action}
  OBVIOUS
<1>2. Door!Also(r, action) = [r EXCEPT !.extra = E]
  BY <1>1 DEF Door!Also
<1>3. [r EXCEPT !.extra = E] \in RouteType
  BY DEF RouteType
<1>4. [r EXCEPT !.extra = E].action = r.action /\ [r EXCEPT !.extra = E].changes = r.changes
      /\ [r EXCEPT !.extra = E].extra = E
  BY DEF RouteType
<1>5. QED  BY <1>1, <1>2, <1>3, <1>4 DEF Asks

LEMMA UnderIsGood ==
  ASSUME NEW base \in Seq(Words), NEW subject \in Subjects, NEW A \in SUBSET Actions,
        {subject} \X A \subseteq Seedable,
         NEW routes \in Seq({r \in RouteType : Asks(A, r)})
  PROVE  Door!Under(base, subject, routes) \in Seq(Good)
<1>1. ASSUME NEW i \in DOMAIN routes
      PROVE  [routes[i] EXCEPT !.path = base \o @, !.subject = subject] \in Good
  <2>1. PICK r \in RouteType : r = routes[i] /\ Asks(A, r)
    BY <1>1
  <2>2. PICK path \in Seq(Words) : path = base \o r.path
    <3>1. PICK p \in Seq(Words) : p = r.path
      BY <2>1 DEF RouteType
    <3>2. base \o p \in Seq(Words)
      OBVIOUS
    <3>3. QED  BY <3>1, <3>2
  <2>3. PICK new : new = [r EXCEPT !.path = path, !.subject = subject]
    OBVIOUS
  <2>4. new \in RouteType
    BY <2>3 DEF RouteType
  <2>5. new.action = r.action /\ new.extra = r.extra /\ new.changes = r.changes /\ new.subject = subject
    BY <2>3 DEF RouteType
  <2>6. {subject} \X ({r.action} \union r.extra) \subseteq Seedable \/ r.action \in Door!Levels
    BY <2>1 DEF Asks
  <2>7. new \in Good
    BY <2>1, <2>4, <2>5, <2>6 DEF Good, Asks
  <2>8. QED  BY <2>1, <2>2, <2>3, <2>7
<1>2. PICK n \in Nat : DOMAIN routes = 1 .. n
  OBVIOUS
<1>3. PICK f : f = [i \in 1 .. n |-> [routes[i] EXCEPT !.path = base \o @, !.subject = subject]]
  OBVIOUS
<1>4. f \in [1 .. n -> Good]
  BY <1>1, <1>2, <1>3
<1>5. f \in Seq(Good)
  BY <1>4
<1>6. Door!Under(base, subject, routes) = f
  BY <1>2, <1>3 DEF Door!Under
<1>7. QED  BY <1>5, <1>6

LEMMA PathsOfWords ==
  /\ <<>> \in Seq(Words) /\ \A x \in Words : <<x>> \in Seq(Words)
  /\ \A x, y \in Words : <<x, y>> \in Seq(Words)
OBVIOUS

\* What the seed gives of the subjects that routes ask for.
LEMMA AbilitiesOf ==
  ASSUME NEW m, NEW A, {m} \X A \subseteq Door!AllPermissions
  PROVE  {Door!SubjectOf(m)} \X A \subseteq Seedable
<1>1. ASSUME NEW a \in A
      PROVE  <<Door!SubjectOf(m), a>> \in Seedable
  <2>1. PICK p \in Door!AllPermissions : p = <<m, a>>
    BY <1>1
  <2>2. Door!Ability(p) = <<Door!SubjectOf(m), a>>
    BY <2>1 DEF Door!Ability
  <2>3. QED  BY <2>1, <2>2 DEF Seedable
<1>2. QED  BY <1>1

LEMMA Abilities ==
  /\ {"USER"} \X (Door!Crud \union {"manage"}) \subseteq Seedable
  /\ {"ROLE", "CONTENT", "APPOINTMENT", "CONTACT", "BLOG_CATEGORY"} \X Door!Crud \subseteq Seedable
  /\ {"PERMISSION"} \X {"read"} \subseteq Seedable
  /\ {"COMPANY", "AVAILABILITY_RULE"} \X {"read", "update"} \subseteq Seedable
  /\ {"ACTIVITY_LOG"} \X {"manage"} \subseteq Seedable
  /\ {"CALL_RECORD"} \X {"read", "update", "delete", "restore", "export"} \subseteq Seedable
  /\ {"DATABASE_BACKUP"} \X {"read", "create", "delete"} \subseteq Seedable
  /\ {"SOCIAL_MEDIA"} \X {"create", "read", "delete", "export"} \subseteq Seedable
  /\ {"CAMPAIGN"} \X {"export", "read", "delete"} \subseteq Seedable
  /\ {"AVAILABILITY_EXCEPTION"} \X (Door!Crud \union {"export"}) \subseteq Seedable
<1>1. {"users", "content", "appointments", "contacts",
            "blog-categories"} \X Door!Crud \subseteq Door!OfficePermissions
  BY DEF Door!OfficePermissions
<1>2. /\ {"roles"} \X Door!Crud \subseteq Door!OfficePermissions
      /\ {"call-records"} \X {"read", "update", "delete", "restore", "export"} \subseteq Door!OfficePermissions
      /\ {"permissions"} \X {"read"} \subseteq Door!OfficePermissions
      /\ {"activity-logs"} \X {"manage"} \subseteq Door!OfficePermissions
      /\ {"company"} \X {"read", "update"} \subseteq Door!OfficePermissions
  BY DEF Door!OfficePermissions
<1>3. /\ {"availability-exceptions"} \X Door!Crud \subseteq Door!LaterPermissions
      /\ {"database-backups"} \X {"read", "create", "delete"} \subseteq Door!LaterPermissions
      /\ {"social-media"} \X {"create", "read", "delete", "export"} \subseteq Door!LaterPermissions
      /\ {"campaigns"} \X {"export", "read", "delete"} \subseteq Door!LaterPermissions
      /\ {"availability-rules"} \X {"read", "update"} \subseteq Door!LaterPermissions
  BY DEF Door!LaterPermissions
<1>4. Door!OfficePermissions \subseteq Door!AllPermissions /\ Door!LaterPermissions \subseteq Door!AllPermissions
  BY PartsOfTheSeed
<1>5. /\ Door!SubjectOf("users") = "USER" /\ Door!SubjectOf("roles") = "ROLE"
      /\ Door!SubjectOf("content") = "CONTENT" /\ Door!SubjectOf("appointments") = "APPOINTMENT"
      /\ Door!SubjectOf("contacts") = "CONTACT" /\ Door!SubjectOf("blog-categories") = "BLOG_CATEGORY"
      /\ Door!SubjectOf("permissions") = "PERMISSION" /\ Door!SubjectOf("company") = "COMPANY"
      /\ Door!SubjectOf("activity-logs") = "ACTIVITY_LOG" /\ Door!SubjectOf("call-records") = "CALL_RECORD"
  BY DEF Door!SubjectOf
<1>6. /\ Door!SubjectOf("database-backups") = "DATABASE_BACKUP" /\ Door!SubjectOf("social-media") = "SOCIAL_MEDIA"
      /\ Door!SubjectOf("campaigns") = "CAMPAIGN" /\ Door!SubjectOf("availability-rules") = "AVAILABILITY_RULE"
      /\ Door!SubjectOf("availability-exceptions") = "AVAILABILITY_EXCEPTION"
  BY DEF Door!SubjectOf
<1>7. \A m \in {"users", "content", "appointments", "contacts", "blog-categories", "roles"} :
        {Door!SubjectOf(m)} \X Door!Crud \subseteq Seedable
  BY <1>1, <1>2, <1>4, AbilitiesOf
<1>8. {"USER", "ROLE", "CONTENT", "APPOINTMENT", "CONTACT", "BLOG_CATEGORY"} \X Door!Crud \subseteq Seedable
  BY <1>5, <1>7
<1>9. /\ {"PERMISSION"} \X {"read"} \subseteq Seedable
      /\ {"COMPANY"} \X {"read", "update"} \subseteq Seedable
      /\ {"ACTIVITY_LOG"} \X {"manage"} \subseteq Seedable
      /\ {"CALL_RECORD"} \X {"read", "update", "delete", "restore", "export"} \subseteq Seedable
  BY <1>2, <1>4, <1>5, AbilitiesOf
<1>10. /\ {"DATABASE_BACKUP"} \X {"read", "create", "delete"} \subseteq Seedable
       /\ {"SOCIAL_MEDIA"} \X {"create", "read", "delete", "export"} \subseteq Seedable
       /\ {"CAMPAIGN"} \X {"export", "read", "delete"} \subseteq Seedable
       /\ {"AVAILABILITY_RULE"} \X {"read", "update"} \subseteq Seedable
       /\ {"AVAILABILITY_EXCEPTION"} \X Door!Crud \subseteq Seedable
  BY <1>3, <1>4, <1>6, AbilitiesOf
<1>11. <<"AVAILABILITY_EXCEPTION", "export">> \in Seedable /\ <<"USER", "manage">> \in Seedable
  BY DEF Seedable
<1>12. QED  BY <1>8, <1>9, <1>10, <1>11

LEMMA NoAbilities == {""} \X {} \subseteq Seedable
BY {""} \X {} = {}

LEMMA TuplesAreSequences ==
  \A L : /\ \A a \in L : <<a>> \in Seq(L)
         /\ \A a, b \in L : <<a, b>> \in Seq(L)
         /\ \A a, b, c \in L : <<a, b, c>> \in Seq(L)
         /\ \A a, b, c, d \in L : <<a, b, c, d>> \in Seq(L)
         /\ \A a, b, c, d, e \in L : <<a, b, c, d, e>> \in Seq(L)
         /\ \A a, b, c, d, e, f \in L : <<a, b, c, d, e, f>> \in Seq(L)
         /\ \A a, b, c, d, e, f, g \in L : <<a, b, c, d, e, f, g>> \in Seq(L)
         /\ \A a, b, c, d, e, f, g, h \in L : <<a, b, c, d, e, f, g, h>> \in Seq(L)
OBVIOUS

\* The routes of each subject, controller by controller.
LEMMA OpenRoutesAreGood ==
  /\ Door!HealthRoutes \in Seq(Good) /\ Door!SigningIn \in Seq(Good) /\ Door!OwnAccount \in Seq(Good)
  /\ Door!TwoFactorRoutes \in Seq(Good) /\ Door!SessionRoutes \in Seq(Good)
  /\ Door!SocialAuthRoutes \in Seq(Good) /\ Door!PublicAppointmentRoutes \in Seq(Good)
  /\ Door!PublicContactRoutes \in Seq(Good) /\ Door!RetellWebhookRoutes \in Seq(Good)
  /\ Door!PublicAvailabilityRoutes \in Seq(Good) /\ Door!AppRoutes \in Seq(Good)
  /\ Door!Under(<<"company-data">>, "", <<
        Door!Get(<<"public">>, "visitor")>>) \in Seq(Good)
  /\ Door!Under(<<"users">>, "", <<
        Door!Post(<<"setup-password">>, "visitor"),
        Door!Post(<<"request-password-change">>, "visitor"),
        Door!Post(<<"change-password">>, "visitor")>>) \in Seq(Good)
<1>1. PICK A \in SUBSET Actions : A = {}
  OBVIOUS
<1>2. PICK L : L = {r \in RouteType : Asks(A, r)}
  OBVIOUS
<1>3. \A p \in Seq(Words) :
        /\ Door!Get(p, "visitor") \in L /\ Door!Post(p, "visitor") \in L /\ Door!Post(p, "token") \in L
        /\ Door!Post(p, "twoFactor") \in L /\ Door!Get(p, "token") \in L /\ Door!Patch(p, "twoFactor") \in L
        /\ Door!Post(p, "fresh") \in L /\ Door!Get(p, "twoFactor") \in L /\ Door!Remove(p, "twoFactor") \in L
        /\ Door!Route("get", p, "visitor", TRUE) \in L /\ Door!Remove(p, "fresh") \in L
  BY <1>1, <1>2, Declared DEF Door!Levels
<1>4. \A p \in Seq(Words) : \A routes \in Seq(L) : Door!Under(p, "", routes) \in Seq(Good)
  BY <1>1, <1>2, UnderIsGood, NoAbilities DEF Subjects
<1>5. /\ "health" \in Words /\ "auth" \in Words /\ "register" \in Words /\ "verify-email" \in Words
      /\ "resend-verification-code" \in Words /\ "login" \in Words /\ "two-factor" \in Words
      /\ "verify" \in Words /\ "refresh" \in Words /\ "forgot-password" \in Words /\ "reset-password" \in Words
      /\ "change-password" \in Words /\ "logout" \in Words /\ "logout-all" \in Words /\ "me" \in Words
      /\ "profile-photo" \in Words /\ "setup" \in Words /\ "enable" \in Words /\ "disable" \in Words
      /\ "backup-codes" \in Words /\ "regenerate" \in Words /\ "sessions" \in Words /\ ":" \in Words
      /\ "trusted-devices" \in Words /\ "google" \in Words /\ "redirect" \in Words /\ "callback" \in Words
      /\ "company-data" \in Words /\ "public" \in Words /\ "users" \in Words /\ "setup-password" \in Words
      /\ "request-password-change" \in Words /\ "appointments" \in Words /\ "contact-support" \in Words
      /\ "retell" \in Words /\ "webhook" \in Words /\ "availability" \in Words /\ "calendar" \in Words
      /\ "time-slots" \in Words
  BY DEF Words
<1>6. Door!HealthRoutes \in Seq(Good)
  BY <1>3, <1>4, <1>5, PathsOfWords, TuplesAreSequences, Zenon
     DEF Door!HealthRoutes
<1>7. Door!SigningIn \in Seq(Good)
  BY <1>3, <1>4, <1>5, PathsOfWords, TuplesAreSequences, Zenon
     DEF Door!SigningIn
<1>8. Door!OwnAccount \in Seq(Good)
  BY <1>3, <1>4, <1>5, PathsOfWords, TuplesAreSequences, Zenon
     DEF Door!OwnAccount
<1>9. Door!TwoFactorRoutes \in Seq(Good)
  BY <1>3, <1>4, <1>5, PathsOfWords, TuplesAreSequences, Zenon
     DEF Door!TwoFactorRoutes
<1>10. Door!SessionRoutes \in Seq(Good)
  BY <1>3, <1>4, <1>5, PathsOfWords, TuplesAreSequences, Zenon
     DEF Door!SessionRoutes
<1>11. /\ Door!SocialAuthRoutes \in Seq(Good) /\ Door!PublicAppointmentRoutes \in Seq(Good)
       /\ Door!PublicContactRoutes \in Seq(Good) /\ Door!RetellWebhookRoutes \in Seq(Good)
  BY <1>3, <1>4, <1>5, PathsOfWords, TuplesAreSequences, Zenon
     DEF Door!SocialAuthRoutes, Door!PublicAppointmentRoutes, Door!PublicContactRoutes,
         Door!RetellWebhookRoutes
<1>12. Door!PublicAvailabilityRoutes \in Seq(Good) /\ Door!AppRoutes \in Seq(Good)
  BY <1>3, <1>4, <1>5, PathsOfWords, TuplesAreSequences, Zenon
     DEF Door!PublicAvailabilityRoutes, Door!AppRoutes
<1>13. QED  BY <1>6, <1>7, <1>8, <1>9, <1>10, <1>11, <1>12, <1>3, <1>4, <1>5, PathsOfWords, TuplesAreSequences, Zenon

LEMMA CompanyRoutesAreGood ==
  Door!Under(<<"company-data">>, "COMPANY", <<
        Door!Get(<<>>, "read"), Door!Get(<<"me">>, "read"), Door!Get(<<":">>, "read"),
        Door!Patch(<<":">>, "update"), Door!Post(<<":", "signature">>, "update"),
        Door!Remove(<<":", "signature">>, "update")>>) \in Seq(Good)
<1>1. PICK A \in SUBSET Actions : A = {"read", "update"}
             /\ {"COMPANY"} \X A \subseteq Seedable
  BY Abilities DEF Actions, Door!Crud
<1>2. PICK L : L = {r \in RouteType : Asks(A, r)}
  OBVIOUS
<1>3. \A p \in Seq(Words) :
        /\ Door!Get(p, "read") \in L /\ Door!Patch(p, "update") \in L /\ Door!Post(p, "update") \in L
        /\ Door!Remove(p, "update") \in L
  BY <1>1, <1>2, Declared DEF Door!Levels
<1>4. \A p \in Seq(Words) : \A routes \in Seq(L) : Door!Under(p, "COMPANY", routes) \in Seq(Good)
  BY <1>1, <1>2, UnderIsGood DEF Subjects
<1>5. "company-data" \in Words /\ "me" \in Words /\ ":" \in Words /\ "signature" \in Words
  BY DEF Words
<1>6. QED  BY <1>3, <1>4, <1>5, PathsOfWords, TuplesAreSequences, Zenon

LEMMA BlogCategoryRoutesAreGood ==
  /\ Door!BlogCategoryLists \in Seq(Good) /\ Door!BlogCategoryReading \in Seq(Good)
  /\ Door!BlogCategoryChanges \in Seq(Good)
<1>1. PICK A \in SUBSET Actions : A = Door!Crud
             /\ {"BLOG_CATEGORY"} \X A \subseteq Seedable
  BY Abilities DEF Actions
<1>2. PICK L : L = {r \in RouteType : Asks(A, r)}
  OBVIOUS
<1>3. \A p \in Seq(Words) :
        /\ Door!Post(p, "create") \in L /\ Door!Get(p, "restore") \in L /\ Door!Get(p, "read") \in L
        /\ Door!Patch(p, "update") \in L /\ Door!Remove(p, "delete") \in L /\ Door!Post(p, "restore") \in L
        /\ Door!Post(p, "delete") \in L /\ Door!Post(p, "update") \in L /\ Door!Remove(p, "update") \in L
  BY <1>1, <1>2, Declared DEF Door!Crud
<1>4. \A p \in Seq(Words) : \A routes \in Seq(L) : Door!Under(p, "BLOG_CATEGORY", routes) \in Seq(Good)
  BY <1>1, <1>2, UnderIsGood DEF Subjects
<1>5. /\ "blog-categories" \in Words /\ "trash" \in Words /\ "export" \in Words /\ ":" \in Words
      /\ "restore" \in Words /\ "bulk-delete" \in Words /\ "bulk-restore" \in Words /\ "image" \in Words
  BY DEF Words
<1>6. Door!BlogCategoryLists \in Seq(Good)
  BY <1>3, <1>4, <1>5, PathsOfWords, TuplesAreSequences, Zenon
     DEF Door!BlogCategoryLists
<1>7. Door!BlogCategoryReading \in Seq(Good)
  BY <1>3, <1>4, <1>5, PathsOfWords, TuplesAreSequences, Zenon
     DEF Door!BlogCategoryReading
<1>8. Door!BlogCategoryChanges \in Seq(Good)
  BY <1>3, <1>4, <1>5, PathsOfWords, TuplesAreSequences, Zenon
     DEF Door!BlogCategoryChanges
<1>9. QED  BY <1>6, <1>7, <1>8

LEMMA UserRoutesAreGood ==
  /\ Door!UserLists \in Seq(Good) /\ Door!UserReading \in Seq(Good) /\ Door!UserChanges \in Seq(Good)
  /\ Door!UserPermissionRoutes \in Seq(Good)
  /\ Door!Under(<<"users">>, "USER", <<
        Door!Also(Door!Post(<<>>, "create"), "manage")>>) \in Seq(Good)
<1>1. PICK A \in SUBSET Actions : A = Door!Crud \union {"manage"}
             /\ {"USER"} \X A \subseteq Seedable
  BY Abilities DEF Actions
<1>2. PICK L : L = {r \in RouteType : Asks(A, r)}
  OBVIOUS
<1>3. \A p \in Seq(Words) :
        /\ Door!Also(Door!Post(p, "create"), "manage") \in L /\ Door!Also(Door!Get(p, "read"), "restore") \in L
        /\ Door!Get(p, "read") \in L /\ Door!Also(Door!Patch(p, "update"), "manage") \in L
        /\ Door!Remove(p, "delete") \in L /\ Door!Post(p, "delete") \in L /\ Door!Post(p, "restore") \in L
        /\ Door!Post(p, "update") \in L /\ Door!Remove(p, "update") \in L
  BY <1>1, <1>2, Declared, AlsoDeclared DEF Door!Crud
<1>4. \A p \in Seq(Words) : \A routes \in Seq(L) : Door!Under(p, "USER", routes) \in Seq(Good)
  BY <1>1, <1>2, UnderIsGood DEF Subjects
<1>5. /\ "users" \in Words /\ "export" \in Words /\ "check" \in Words /\ "email" \in Words
      /\ "username" \in Words /\ ":" \in Words /\ "bulk-delete" \in Words /\ "bulk-restore" \in Words
      /\ "permissions" \in Words
  BY DEF Words
<1>6. Door!UserLists \in Seq(Good) /\ Door!UserReading \in Seq(Good)
  BY <1>3, <1>4, <1>5, PathsOfWords, TuplesAreSequences, Zenon
     DEF Door!UserLists, Door!UserReading
<1>7. Door!UserChanges \in Seq(Good)
  BY <1>3, <1>4, <1>5, PathsOfWords, TuplesAreSequences, Zenon
     DEF Door!UserChanges
<1>8. Door!UserPermissionRoutes \in Seq(Good)
  BY <1>3, <1>4, <1>5, PathsOfWords, TuplesAreSequences, Zenon
     DEF Door!UserPermissionRoutes
<1>9. QED  BY <1>6, <1>7, <1>8, <1>3, <1>4, <1>5, PathsOfWords, TuplesAreSequences, Zenon

LEMMA AppointmentRoutesAreGood ==
  /\ Door!AppointmentReading \in Seq(Good) /\ Door!AppointmentExport \in Seq(Good)
  /\ Door!AppointmentChanges \in Seq(Good)
<1>1. PICK A \in SUBSET Actions : A = Door!Crud
             /\ {"APPOINTMENT"} \X A \subseteq Seedable
  BY Abilities DEF Actions
<1>2. PICK L : L = {r \in RouteType : Asks(A, r)}
  OBVIOUS
<1>3. \A p \in Seq(Words) :
        /\ Door!Post(p, "create") \in L /\ Door!Also(Door!Get(p, "read"), "restore") \in L
        /\ Door!Patch(p, "update") \in L /\ Door!Patch(p, "restore") \in L /\ Door!Post(p, "delete") \in L
        /\ Door!Post(p, "restore") \in L /\ Door!Remove(p, "delete") \in L
  BY <1>1, <1>2, Declared, AlsoDeclared DEF Door!Crud
<1>4. \A p \in Seq(Words) : \A routes \in Seq(L) : Door!Under(p, "APPOINTMENT", routes) \in Seq(Good)
  BY <1>1, <1>2, UnderIsGood DEF Subjects
<1>5. /\ "appointments" \in Words /\ "export" \in Words /\ ":" \in Words /\ "read" \in Words
      /\ "restore" \in Words /\ "bulk-delete" \in Words /\ "bulk-restore" \in Words
  BY DEF Words
<1>6. Door!AppointmentReading \in Seq(Good) /\ Door!AppointmentExport \in Seq(Good)
  BY <1>3, <1>4, <1>5, PathsOfWords, TuplesAreSequences, Zenon
     DEF Door!AppointmentReading, Door!AppointmentExport
<1>7. Door!AppointmentChanges \in Seq(Good)
  BY <1>3, <1>4, <1>5, PathsOfWords, TuplesAreSequences, Zenon
     DEF Door!AppointmentChanges
<1>8. QED  BY <1>6, <1>7

LEMMA ContactRoutesAreGood ==
  Door!ContactLists \in Seq(Good) /\ Door!ContactReading \in Seq(Good) /\ Door!ContactChanges \in Seq(Good)
<1>1. PICK A \in SUBSET Actions : A = Door!Crud
             /\ {"CONTACT"} \X A \subseteq Seedable
  BY Abilities DEF Actions
<1>2. PICK L : L = {r \in RouteType : Asks(A, r)}
  OBVIOUS
<1>3. \A p \in Seq(Words) :
        /\ Door!Post(p, "create") \in L /\ Door!Also(Door!Get(p, "read"), "restore") \in L
        /\ Door!Patch(p, "update") \in L /\ Door!Patch(p, "restore") \in L /\ Door!Post(p, "delete") \in L
        /\ Door!Post(p, "restore") \in L /\ Door!Remove(p, "delete") \in L
  BY <1>1, <1>2, Declared, AlsoDeclared DEF Door!Crud
<1>4. \A p \in Seq(Words) : \A routes \in Seq(L) : Door!Under(p, "CONTACT", routes) \in Seq(Good)
  BY <1>1, <1>2, UnderIsGood DEF Subjects
<1>5. /\ "contact-support" \in Words /\ "export" \in Words /\ ":" \in Words /\ "read" \in Words
      /\ "restore" \in Words /\ "bulk-delete" \in Words /\ "bulk-restore" \in Words
  BY DEF Words
<1>6. Door!ContactLists \in Seq(Good) /\ Door!ContactReading \in Seq(Good)
  BY <1>3, <1>4, <1>5, PathsOfWords, TuplesAreSequences, Zenon
     DEF Door!ContactLists, Door!ContactReading
<1>7. Door!ContactChanges \in Seq(Good)
  BY <1>3, <1>4, <1>5, PathsOfWords, TuplesAreSequences, Zenon
     DEF Door!ContactChanges
<1>8. QED  BY <1>6, <1>7

LEMMA RoleRoutesAreGood ==
  Door!RoleReading \in Seq(Good) /\ Door!RoleChanges \in Seq(Good)
<1>1. PICK A \in SUBSET Actions : A = Door!Crud
             /\ {"ROLE"} \X A \subseteq Seedable
  BY Abilities DEF Actions
<1>2. PICK L : L = {r \in RouteType : Asks(A, r)}
  OBVIOUS
<1>3. \A p \in Seq(Words) :
        /\ Door!Post(p, "create") \in L /\ Door!Get(p, "restore") \in L
        /\ Door!Also(Door!Get(p, "read"), "restore") \in L /\ Door!Get(p, "read") \in L
        /\ Door!Patch(p, "update") \in L /\ Door!Remove(p, "delete") \in L /\ Door!Post(p, "restore") \in L
        /\ Door!Post(p, "update") \in L /\ Door!Remove(p, "update") \in L /\ Door!Post(p, "delete") \in L
  BY <1>1, <1>2, Declared, AlsoDeclared DEF Door!Crud
<1>4. \A p \in Seq(Words) : \A routes \in Seq(L) : Door!Under(p, "ROLE", routes) \in Seq(Good)
  BY <1>1, <1>2, UnderIsGood DEF Subjects
<1>5. /\ "roles" \in Words /\ "trash" \in Words /\ "export" \in Words /\ ":" \in Words /\ "restore" \in Words
      /\ "permissions" \in Words /\ "bulk-delete" \in Words /\ "bulk-restore" \in Words
  BY DEF Words
<1>6. Door!RoleReading \in Seq(Good)
  BY <1>3, <1>4, <1>5, PathsOfWords, TuplesAreSequences, Zenon
     DEF Door!RoleReading
<1>7. Door!RoleChanges \in Seq(Good)
  BY <1>3, <1>4, <1>5, PathsOfWords, TuplesAreSequences, Zenon
     DEF Door!RoleChanges
<1>8. QED  BY <1>6, <1>7

LEMMA PermissionRoutesAreGood ==
  Door!PermissionRoutes \in Seq(Good)
<1>1. PICK A \in SUBSET Actions : A = {"read"}
             /\ {"PERMISSION"} \X A \subseteq Seedable
  BY Abilities DEF Actions, Door!Crud
<1>2. PICK L : L = {r \in RouteType : Asks(A, r)}
  OBVIOUS
<1>3. \A p \in Seq(Words) :
        Door!Get(p, "read") \in L
  BY <1>1, <1>2, Declared DEF Door!Levels
<1>4. \A p \in Seq(Words) : \A routes \in Seq(L) : Door!Under(p, "PERMISSION", routes) \in Seq(Good)
  BY <1>1, <1>2, UnderIsGood DEF Subjects
<1>5. "permissions" \in Words
  BY DEF Words
<1>6. QED
  BY <1>3, <1>4, <1>5, PathsOfWords, TuplesAreSequences, Zenon
     DEF Door!PermissionRoutes

LEMMA DatabaseBackupRoutesAreGood ==
  Door!BackupListing \in Seq(Good) /\ Door!BackupFiles \in Seq(Good)
<1>1. PICK A \in SUBSET Actions : A = {"read", "create", "delete"}
             /\ {"DATABASE_BACKUP"} \X A \subseteq Seedable
  BY Abilities DEF Actions, Door!Crud
<1>2. PICK L : L = {r \in RouteType : Asks(A, r)}
  OBVIOUS
<1>3. \A p \in Seq(Words) :
        Door!Post(p, "create") \in L /\ Door!Get(p, "read") \in L /\ Door!Remove(p, "delete") \in L
  BY <1>1, <1>2, Declared DEF Door!Levels
<1>4. \A p \in Seq(Words) : \A routes \in Seq(L) : Door!Under(p, "DATABASE_BACKUP", routes) \in Seq(Good)
  BY <1>1, <1>2, UnderIsGood DEF Subjects
<1>5. "backups" \in Words /\ "run" \in Words /\ "export" \in Words /\ ":" \in Words /\ "download" \in Words
  BY DEF Words
<1>6. QED
  BY <1>3, <1>4, <1>5, PathsOfWords, TuplesAreSequences, Zenon
     DEF Door!BackupListing, Door!BackupFiles

LEMMA ContentRoutesAreGood ==
  /\ Door!PostWriting \in Seq(Good) /\ Door!SocialIdeas \in Seq(Good) /\ Door!PostReading \in Seq(Good)
  /\ Door!PostChanges \in Seq(Good)
<1>1. PICK A \in SUBSET Actions : A = Door!Crud
             /\ {"CONTENT"} \X A \subseteq Seedable
  BY Abilities DEF Actions
<1>2. PICK L : L = {r \in RouteType : Asks(A, r)}
  OBVIOUS
<1>3. \A p \in Seq(Words) :
        /\ Door!Post(p, "create") \in L /\ Door!Ask(p, "read") \in L
        /\ Door!Also(Door!Get(p, "read"), "restore") \in L /\ Door!Get(p, "read") \in L
        /\ Door!Patch(p, "update") \in L /\ Door!Patch(p, "restore") \in L /\ Door!Post(p, "delete") \in L
        /\ Door!Post(p, "restore") \in L /\ Door!Remove(p, "delete") \in L
  BY <1>1, <1>2, Declared, AlsoDeclared DEF Door!Crud
<1>4. \A p \in Seq(Words) : \A routes \in Seq(L) : Door!Under(p, "CONTENT", routes) \in Seq(Good)
  BY <1>1, <1>2, UnderIsGood DEF Subjects
<1>5. /\ "posts" \in Words /\ "ai" \in Words /\ "generate-preview" \in Words /\ "social" \in Words
      /\ "generate-ideas" \in Words /\ "generate-post" \in Words /\ ":" \in Words /\ "download-zip" \in Words
      /\ "export" \in Words /\ "restore" \in Words /\ "bulk-delete" \in Words /\ "bulk-restore" \in Words
  BY DEF Words
<1>6. Door!PostWriting \in Seq(Good) /\ Door!SocialIdeas \in Seq(Good)
  BY <1>3, <1>4, <1>5, PathsOfWords, TuplesAreSequences, Zenon
     DEF Door!PostWriting, Door!SocialIdeas
<1>7. Door!PostReading \in Seq(Good)
  BY <1>3, <1>4, <1>5, PathsOfWords, TuplesAreSequences, Zenon
     DEF Door!PostReading
<1>8. Door!PostChanges \in Seq(Good)
  BY <1>3, <1>4, <1>5, PathsOfWords, TuplesAreSequences, Zenon
     DEF Door!PostChanges
<1>9. QED  BY <1>6, <1>7, <1>8

LEMMA SocialMediaRoutesAreGood ==
  Door!SocialMediaGeneration \in Seq(Good) /\ Door!SocialMediaChanges \in Seq(Good)
<1>1. PICK A \in SUBSET Actions : A = {"create", "read", "delete", "export"}
             /\ {"SOCIAL_MEDIA"} \X A \subseteq Seedable
  BY Abilities DEF Actions, Door!Crud
<1>2. PICK L : L = {r \in RouteType : Asks(A, r)}
  OBVIOUS
<1>3. \A p \in Seq(Words) :
        /\ Door!Ask(p, "create") \in L /\ Door!Post(p, "create") \in L /\ Door!Get(p, "read") \in L
        /\ Door!Remove(p, "delete") \in L /\ Door!Post(p, "delete") \in L /\ Door!Ask(p, "export") \in L
        /\ Door!Ask(p, "read") \in L
  BY <1>1, <1>2, Declared DEF Door!Levels
<1>4. \A p \in Seq(Words) : \A routes \in Seq(L) : Door!Under(p, "SOCIAL_MEDIA", routes) \in Seq(Good)
  BY <1>1, <1>2, UnderIsGood DEF Subjects
<1>5. /\ "social-media" \in Words /\ "generate-topics" \in Words /\ "generate-content" \in Words
      /\ ":" \in Words /\ "bulk-delete" \in Words /\ "export" \in Words /\ "download-zip" \in Words
  BY DEF Words
<1>6. Door!SocialMediaGeneration \in Seq(Good)
  BY <1>3, <1>4, <1>5, PathsOfWords, TuplesAreSequences, Zenon
     DEF Door!SocialMediaGeneration
<1>7. Door!SocialMediaChanges \in Seq(Good)
  BY <1>3, <1>4, <1>5, PathsOfWords, TuplesAreSequences, Zenon
     DEF Door!SocialMediaChanges
<1>8. QED  BY <1>6, <1>7

LEMMA CampaignRoutesAreGood ==
  /\ Door!CampaignRequests \in Seq(Good) /\ Door!CampaignReading \in Seq(Good)
  /\ Door!CampaignChanges \in Seq(Good)
<1>1. PICK A \in SUBSET Actions : A = {"export", "read", "delete"}
             /\ {"CAMPAIGN"} \X A \subseteq Seedable
  BY Abilities DEF Actions, Door!Crud
<1>2. PICK L : L = {r \in RouteType : Asks(A, r)}
  OBVIOUS
<1>3. \A p \in Seq(Words) :
        /\ Door!Ask(p, "export") \in L /\ Door!Post(p, "export") \in L /\ Door!Get(p, "read") \in L
        /\ Door!Remove(p, "delete") \in L /\ Door!Post(p, "delete") \in L
  BY <1>1, <1>2, Declared DEF Door!Levels
<1>4. \A p \in Seq(Words) : \A routes \in Seq(L) : Door!Under(p, "CAMPAIGN", routes) \in Seq(Good)
  BY <1>1, <1>2, UnderIsGood DEF Subjects
<1>5. /\ "campaigns" \in Words /\ "generate-topics" \in Words /\ "generate-campaign" \in Words
      /\ "export" \in Words /\ ":" \in Words /\ "exports" \in Words /\ "bulk-delete" \in Words
  BY DEF Words
<1>6. Door!CampaignRequests \in Seq(Good)
  BY <1>3, <1>4, <1>5, PathsOfWords, TuplesAreSequences, Zenon
     DEF Door!CampaignRequests
<1>7. Door!CampaignReading \in Seq(Good)
  BY <1>3, <1>4, <1>5, PathsOfWords, TuplesAreSequences, Zenon
     DEF Door!CampaignReading
<1>8. Door!CampaignChanges \in Seq(Good)
  BY <1>3, <1>4, <1>5, PathsOfWords, TuplesAreSequences, Zenon
     DEF Door!CampaignChanges
<1>9. QED  BY <1>6, <1>7, <1>8

LEMMA ActivityLogRoutesAreGood ==
  Door!ActivityLogRoutes \in Seq(Good)
<1>1. PICK A \in SUBSET Actions : A = {"manage"}
             /\ {"ACTIVITY_LOG"} \X A \subseteq Seedable
  BY Abilities DEF Actions, Door!Crud
<1>2. PICK L : L = {r \in RouteType : Asks(A, r)}
  OBVIOUS
<1>3. \A p \in Seq(Words) :
        Door!Get(p, "manage") \in L /\ Door!Remove(p, "manage") \in L
  BY <1>1, <1>2, Declared DEF Door!Levels
<1>4. \A p \in Seq(Words) : \A routes \in Seq(L) : Door!Under(p, "ACTIVITY_LOG", routes) \in Seq(Good)
  BY <1>1, <1>2, UnderIsGood DEF Subjects
<1>5. "activity-logs" \in Words /\ ":" \in Words
  BY DEF Words
<1>6. QED
  BY <1>3, <1>4, <1>5, PathsOfWords, TuplesAreSequences, Zenon
     DEF Door!ActivityLogRoutes

LEMMA CallRecordRoutesAreGood ==
  Door!CallReading \in Seq(Good) /\ Door!CallChanges \in Seq(Good)
<1>1. PICK A \in SUBSET Actions : A = {"read", "update", "delete", "restore", "export"}
             /\ {"CALL_RECORD"} \X A \subseteq Seedable
  BY Abilities DEF Actions, Door!Crud
<1>2. PICK L : L = {r \in RouteType : Asks(A, r)}
  OBVIOUS
<1>3. \A p \in Seq(Words) :
        /\ Door!Also(Door!Get(p, "read"), "restore") \in L /\ Door!Also(Door!Get(p, "export"), "restore") \in L
        /\ Door!Post(p, "update") \in L /\ Door!Post(p, "delete") \in L /\ Door!Post(p, "restore") \in L
        /\ Door!Get(p, "read") \in L /\ Door!Patch(p, "update") \in L /\ Door!Remove(p, "delete") \in L
  BY <1>1, <1>2, Declared, AlsoDeclared DEF Door!Levels
<1>4. \A p \in Seq(Words) : \A routes \in Seq(L) : Door!Under(p, "CALL_RECORD", routes) \in Seq(Good)
  BY <1>1, <1>2, UnderIsGood DEF Subjects
<1>5. /\ "retell" \in Words /\ "calls" \in Words /\ "export" \in Words /\ "sync" \in Words
      /\ "bulk-delete" \in Words /\ "bulk-restore" \in Words /\ ":" \in Words /\ "read" \in Words
      /\ "restore" \in Words
  BY DEF Words
<1>6. Door!CallReading \in Seq(Good)
  BY <1>3, <1>4, <1>5, PathsOfWords, TuplesAreSequences, Zenon
     DEF Door!CallReading
<1>7. Door!CallChanges \in Seq(Good)
  BY <1>3, <1>4, <1>5, PathsOfWords, TuplesAreSequences, Zenon
     DEF Door!CallChanges
<1>8. QED  BY <1>6, <1>7

LEMMA AvailabilityRuleRoutesAreGood ==
  Door!AvailabilityRuleRoutes \in Seq(Good)
<1>1. PICK A \in SUBSET Actions : A = {"read", "update"}
             /\ {"AVAILABILITY_RULE"} \X A \subseteq Seedable
  BY Abilities DEF Actions, Door!Crud
<1>2. PICK L : L = {r \in RouteType : Asks(A, r)}
  OBVIOUS
<1>3. \A p \in Seq(Words) :
        Door!Get(p, "read") \in L /\ Door!Put(p, "update") \in L
  BY <1>1, <1>2, Declared DEF Door!Levels
<1>4. \A p \in Seq(Words) : \A routes \in Seq(L) : Door!Under(p, "AVAILABILITY_RULE", routes) \in Seq(Good)
  BY <1>1, <1>2, UnderIsGood DEF Subjects
<1>5. "availability" \in Words /\ "rules" \in Words /\ ":" \in Words
  BY DEF Words
<1>6. QED
  BY <1>3, <1>4, <1>5, PathsOfWords, TuplesAreSequences, Zenon
     DEF Door!AvailabilityRuleRoutes

LEMMA AvailabilityExceptionRoutesAreGood ==
  Door!AvailabilityExceptionRoutes \in Seq(Good)
<1>1. PICK A \in SUBSET Actions : A = Door!Crud \union {"export"}
             /\ {"AVAILABILITY_EXCEPTION"} \X A \subseteq Seedable
  BY Abilities DEF Actions
<1>2. PICK L : L = {r \in RouteType : Asks(A, r)}
  OBVIOUS
<1>3. \A p \in Seq(Words) :
        /\ Door!Get(p, "restore") \in L /\ Door!Get(p, "export") \in L /\ Door!Get(p, "read") \in L
        /\ Door!Post(p, "create") \in L /\ Door!Patch(p, "update") \in L /\ Door!Remove(p, "delete") \in L
        /\ Door!Post(p, "restore") \in L
  BY <1>1, <1>2, Declared DEF Door!Crud
<1>4. \A p \in Seq(Words) : \A routes \in Seq(L) : Door!Under(p, "AVAILABILITY_EXCEPTION", routes) \in Seq(Good)
  BY <1>1, <1>2, UnderIsGood DEF Subjects
<1>5. /\ "availability" \in Words /\ "exceptions" \in Words /\ "trash" \in Words /\ "export" \in Words
      /\ ":" \in Words /\ "restore" \in Words
  BY DEF Words
<1>6. QED
  BY <1>3, <1>4, <1>5, PathsOfWords, TuplesAreSequences, Zenon
     DEF Door!AvailabilityExceptionRoutes

LEMMA ConcatenationsAreGood == \A s, t \in Seq(Good) : s \o t \in Seq(Good)
OBVIOUS

LEMMA ControllersAreGood ==
  /\ Door!HealthRoutes \in Seq(Good) /\ Door!SigningIn \in Seq(Good) /\ Door!OwnAccount \in Seq(Good)
  /\ Door!TwoFactorRoutes \in Seq(Good) /\ Door!SessionRoutes \in Seq(Good)
  /\ Door!SocialAuthRoutes \in Seq(Good) /\ Door!CompanyDataRoutes \in Seq(Good)
  /\ Door!BlogCategoryLists \in Seq(Good) /\ Door!BlogCategoryReading \in Seq(Good)
  /\ Door!BlogCategoryChanges \in Seq(Good) /\ Door!UserCreation \in Seq(Good) /\ Door!UserLists \in Seq(Good)
  /\ Door!UserReading \in Seq(Good) /\ Door!UserChanges \in Seq(Good) /\ Door!AppointmentReading \in Seq(Good)
  /\ Door!AppointmentExport \in Seq(Good) /\ Door!AppointmentChanges \in Seq(Good)
  /\ Door!PublicAppointmentRoutes \in Seq(Good) /\ Door!ContactLists \in Seq(Good)
  /\ Door!ContactReading \in Seq(Good) /\ Door!ContactChanges \in Seq(Good)
  /\ Door!PublicContactRoutes \in Seq(Good) /\ Door!RoleReading \in Seq(Good) /\ Door!RoleChanges \in Seq(Good)
  /\ Door!PermissionRoutes \in Seq(Good) /\ Door!UserPermissionRoutes \in Seq(Good)
  /\ Door!BackupListing \in Seq(Good) /\ Door!BackupFiles \in Seq(Good) /\ Door!PostWriting \in Seq(Good)
  /\ Door!SocialIdeas \in Seq(Good) /\ Door!PostReading \in Seq(Good) /\ Door!PostChanges \in Seq(Good)
  /\ Door!SocialMediaGeneration \in Seq(Good) /\ Door!SocialMediaChanges \in Seq(Good)
  /\ Door!CampaignRequests \in Seq(Good) /\ Door!CampaignReading \in Seq(Good)
  /\ Door!CampaignChanges \in Seq(Good) /\ Door!ActivityLogRoutes \in Seq(Good)
  /\ Door!CallReading \in Seq(Good) /\ Door!CallChanges \in Seq(Good) /\ Door!RetellWebhookRoutes \in Seq(Good)
  /\ Door!AvailabilityRuleRoutes \in Seq(Good) /\ Door!AvailabilityExceptionRoutes \in Seq(Good)
  /\ Door!PublicAvailabilityRoutes \in Seq(Good) /\ Door!AppRoutes \in Seq(Good)
<1>1. Door!UserCreation \in Seq(Good) /\ Door!CompanyDataRoutes \in Seq(Good)
  BY OpenRoutesAreGood, UserRoutesAreGood, CompanyRoutesAreGood, ConcatenationsAreGood, Zenon
     DEF Door!UserCreation, Door!CompanyDataRoutes
<1>2. QED
  BY <1>1, OpenRoutesAreGood, UserRoutesAreGood, BlogCategoryRoutesAreGood, AppointmentRoutesAreGood,
     ContactRoutesAreGood, RoleRoutesAreGood, PermissionRoutesAreGood, DatabaseBackupRoutesAreGood,
     ContentRoutesAreGood, SocialMediaRoutesAreGood, CampaignRoutesAreGood, ActivityLogRoutesAreGood,
     CallRecordRoutesAreGood, AvailabilityRuleRoutesAreGood, AvailabilityExceptionRoutesAreGood

LEMMA JoinsAssociate == \A s, t, u \in Seq(Good) : (s \o t) \o u = s \o (t \o u)
BY ConcatAssociative

LEMMA EveryRouteIsGood == Door!AllRoutes \in Seq(Good)
<1>2. PICK G : G = Seq(Good)
  OBVIOUS
<1>3. \A s, t \in G : s \o t \in G
  BY <1>2, ConcatenationsAreGood
<1>4. /\ Door!HealthRoutes \in G /\ Door!SigningIn \in G /\ Door!OwnAccount \in G /\ Door!TwoFactorRoutes \in G
      /\ Door!SessionRoutes \in G /\ Door!SocialAuthRoutes \in G /\ Door!CompanyDataRoutes \in G
      /\ Door!BlogCategoryLists \in G /\ Door!BlogCategoryReading \in G /\ Door!BlogCategoryChanges \in G
      /\ Door!UserCreation \in G /\ Door!UserLists \in G /\ Door!UserReading \in G /\ Door!UserChanges \in G
      /\ Door!AppointmentReading \in G /\ Door!AppointmentExport \in G /\ Door!AppointmentChanges \in G
      /\ Door!PublicAppointmentRoutes \in G /\ Door!ContactLists \in G /\ Door!ContactReading \in G
      /\ Door!ContactChanges \in G /\ Door!PublicContactRoutes \in G /\ Door!RoleReading \in G
      /\ Door!RoleChanges \in G /\ Door!PermissionRoutes \in G /\ Door!UserPermissionRoutes \in G
      /\ Door!BackupListing \in G /\ Door!BackupFiles \in G /\ Door!PostWriting \in G /\ Door!SocialIdeas \in G
      /\ Door!PostReading \in G /\ Door!PostChanges \in G /\ Door!SocialMediaGeneration \in G
      /\ Door!SocialMediaChanges \in G /\ Door!CampaignRequests \in G /\ Door!CampaignReading \in G
      /\ Door!CampaignChanges \in G /\ Door!ActivityLogRoutes \in G /\ Door!CallReading \in G
      /\ Door!CallChanges \in G /\ Door!RetellWebhookRoutes \in G /\ Door!AvailabilityRuleRoutes \in G
      /\ Door!AvailabilityExceptionRoutes \in G /\ Door!PublicAvailabilityRoutes \in G /\ Door!AppRoutes \in G
  BY <1>2, ControllersAreGood
<1>6. PICK r1 \in G : r1 = Door!HealthRoutes \o Door!SigningIn \o Door!OwnAccount \o Door!TwoFactorRoutes \o
        Door!SessionRoutes \o Door!SocialAuthRoutes \o Door!CompanyDataRoutes \o
        Door!BlogCategoryLists \o Door!BlogCategoryReading
  BY <1>3, <1>4, Zenon
<1>7. PICK r2 \in G : r2 = r1 \o Door!BlogCategoryChanges \o Door!UserCreation \o Door!UserLists \o
        Door!UserReading \o Door!UserChanges \o Door!AppointmentReading \o
        Door!AppointmentExport \o Door!AppointmentChanges \o Door!PublicAppointmentRoutes
  BY <1>3, <1>4, Zenon
<1>8. PICK r3 \in G : r3 = r2 \o Door!ContactLists \o Door!ContactReading \o Door!ContactChanges \o
        Door!PublicContactRoutes \o Door!RoleReading \o Door!RoleChanges \o
        Door!PermissionRoutes \o Door!UserPermissionRoutes \o Door!BackupListing
  BY <1>3, <1>4, Zenon
<1>9. PICK r4 \in G : r4 = r3 \o Door!BackupFiles \o Door!PostWriting \o Door!SocialIdeas \o
        Door!PostReading \o Door!PostChanges \o Door!SocialMediaGeneration \o
        Door!SocialMediaChanges \o Door!CampaignRequests \o Door!CampaignReading
  BY <1>3, <1>4, Zenon
<1>10. PICK r5 \in G : r5 = r4 \o Door!CampaignChanges \o Door!ActivityLogRoutes \o Door!CallReading \o
        Door!CallChanges \o Door!RetellWebhookRoutes \o Door!AvailabilityRuleRoutes \o
        Door!AvailabilityExceptionRoutes \o Door!PublicAvailabilityRoutes \o Door!AppRoutes
  BY <1>3, <1>4, Zenon
<1>11. Door!AllRoutes = r5
  BY <1>6, <1>7, <1>8, <1>9, <1>10 DEF Door!AllRoutes
<1>12. QED  BY <1>2, <1>11

LEMMA ThereAreRoutes == 1 \in DOMAIN Door!AllRoutes
<1>1. Door!AppRoutes \in Seq(Good) /\ Door!AppRoutes # <<>>
  <2>1. DOMAIN Door!AppRoutes = 1 .. 1
    BY DEF Door!AppRoutes, Door!Under
  <2>2. PICK s \in Seq(Good) : s = Door!AppRoutes
    BY OpenRoutesAreGood
  <2>3. Len(s) = 1
    BY <2>1, <2>2
  <2>4. QED  BY <2>2, <2>3
<1>2. \A s, t \in Seq(Good) : s \o t \in Seq(Good) /\ t # <<>> => 1 \in DOMAIN (s \o t)
  OBVIOUS
<1>3. QED  BY <1>1, <1>2, EveryRouteIsGood DEF Door!AllRoutes

----------------------------------------------------------------------------
(* The paths of the routes. Two routes clash when the path of the later one   *)
(* fits the earlier one, segment by segment; routes of different areas cannot, *)
(* and the tables of the controllers leave the rest.                           *)

\* The k-th segment of a route; its verb and first four segments; and does the router
\* take r, which comes before, for the path of s?
Seg(r, k) == IF k \in DOMAIN r.path THEN r.path[k] ELSE "-"
Shape(r, verb, a, b, c, d) ==
  r.verb = verb /\ Seg(r, 1) = a /\ Seg(r, 2) = b /\ Seg(r, 3) = c /\ Seg(r, 4) = d
Takes(r, s) == r.verb = s.verb /\ Door!Matches(Door!PathOf(s), r)

\* Neither the mark of a missing segment nor the value of a parameter is a word of a path.
LEMMA WordsAreWords == \A w \in Words : w # "-" /\ w # "7f3a"
<1>1. "-" \notin Words
  BY DEF Words
<1>2. "7f3a" \notin Words
  BY DEF Words
<1>3. QED  BY <1>1, <1>2

LEMMA TakenFits ==
  ASSUME NEW r \in RouteType, NEW s \in RouteType, Takes(r, s)
  PROVE  /\ r.verb = s.verb
         /\ \A k \in Nat : Seg(r, k) = Seg(s, k) \/ (Seg(r, k) = ":" /\ Seg(s, k) # "-")
<1>1. PICK p \in Seq(Words), q \in Seq(Words) : p = r.path /\ q = s.path
  BY DEF RouteType
<1>2. PICK a : a = Door!PathOf(s)
  OBVIOUS
<1>3. a = [k \in DOMAIN q |-> IF q[k] = ":" THEN "7f3a" ELSE q[k]]
  BY <1>1, <1>2 DEF Door!PathOf
<1>4. PICK n \in Nat : n = Len(q) /\ DOMAIN q = 1 .. n
  OBVIOUS
<1>5. a \in Seq(Words \union {"7f3a"}) /\ Len(a) = n
  <2>1. a \in [1 .. n -> Words \union {"7f3a"}]
    BY <1>3, <1>4
  <2>2. QED  BY <1>4, <2>1
<1>6. Len(p) = n /\ \A k \in 1 .. n : p[k] \in {":", a[k]}
  BY <1>1, <1>2, <1>5 DEF Takes, Door!Matches
<1>7. DOMAIN p = 1 .. n /\ \A k \in 1 .. n : p[k] \in Words /\ q[k] \in Words
  BY <1>4, <1>6
<1>8. ASSUME NEW k \in Nat
      PROVE  Seg(r, k) = Seg(s, k) \/ (Seg(r, k) = ":" /\ Seg(s, k) # "-")
  <2>1. CASE k \in 1 .. n
    <3>1. Seg(r, k) = p[k] /\ Seg(s, k) = q[k]
      BY <1>1, <1>4, <1>7, <2>1 DEF Seg
    <3>2. p[k] = ":" \/ p[k] = a[k]
      BY <1>6, <2>1
    <3>3. a[k] = IF q[k] = ":" THEN "7f3a" ELSE q[k]
      BY <1>3, <1>4, <2>1
    <3>4. q[k] # "-" /\ p[k] # "7f3a"
      BY <1>7, <2>1, WordsAreWords
    <3>5. QED  BY <3>1, <3>2, <3>3, <3>4
  <2>2. CASE k \notin 1 .. n
    <3>1. k \notin DOMAIN p /\ k \notin DOMAIN q
      BY <1>4, <1>7, <2>2
    <3>2. QED  BY <1>1, <3>1 DEF Seg
  <2>3. QED  BY <2>1, <2>2
<1>9. QED  BY <1>8 DEF Takes

LEMMA ShapeOfJoin ==
  ASSUME NEW S, NEW p \in Seq(S), NEW q \in Seq(S), NEW r, NEW verb, r.path = p \o q, r.verb = verb
  PROVE  /\ Len(p) = 0 /\ Len(q) = 0 => Shape(r, verb, "-", "-", "-", "-")
         /\ Len(p) = 1 /\ Len(q) = 0 => Shape(r, verb, p[1], "-", "-", "-")
         /\ Len(p) = 2 /\ Len(q) = 0 => Shape(r, verb, p[1], p[2], "-", "-")
         /\ Len(p) = 3 /\ Len(q) = 0 => Shape(r, verb, p[1], p[2], p[3], "-")
         /\ Len(p) = 1 /\ Len(q) = 1 => Shape(r, verb, p[1], q[1], "-", "-")
         /\ Len(p) = 2 /\ Len(q) = 1 => Shape(r, verb, p[1], p[2], q[1], "-")
         /\ Len(p) = 3 /\ Len(q) = 1 => Shape(r, verb, p[1], p[2], p[3], q[1])
         /\ Len(p) = 1 /\ Len(q) = 2 => Shape(r, verb, p[1], q[1], q[2], "-")
         /\ Len(p) = 2 /\ Len(q) = 2 => Shape(r, verb, p[1], p[2], q[1], q[2])
         /\ Len(p) = 1 /\ Len(q) = 3 => Shape(r, verb, p[1], q[1], q[2], q[3])
<1>1. PICK m \in Nat, n \in Nat : m = Len(p) /\ n = Len(q)
  OBVIOUS
<1>2. PICK t : t = r.path
  OBVIOUS
<1>3. DOMAIN t = 1 .. m + n
  BY <1>1, <1>2
<1>4. ASSUME NEW k \in Nat \ {0}
      PROVE  (k <= m => t[k] = p[k]) /\ (m < k /\ k <= m + n => t[k] = q[k - m])
  BY <1>1, <1>2
<1>5. ASSUME NEW k \in Nat \ {0}
      PROVE  /\ k <= m => Seg(r, k) = p[k]
             /\ m < k /\ k <= m + n => Seg(r, k) = q[k - m]
             /\ m + n < k => Seg(r, k) = "-"
  <2>1. (k <= m => k \in DOMAIN t) /\ (k <= m + n => k \in DOMAIN t) /\ (m + n < k => k \notin DOMAIN t)
    BY <1>3
  <2>2. k \in DOMAIN t => Seg(r, k) = t[k]
    BY <1>2 DEF Seg
  <2>3. k \notin DOMAIN t => Seg(r, k) = "-"
    BY <1>2 DEF Seg
  <2>4. QED  BY <1>4, <2>1, <2>2, <2>3
<1>6. m = 0 /\ n = 0 => Shape(r, verb, "-", "-", "-", "-")
  BY <1>5 DEF Shape
<1>7. m = 1 /\ n = 0 => Shape(r, verb, p[1], "-", "-", "-")
  BY <1>5 DEF Shape
<1>8. m = 2 /\ n = 0 => Shape(r, verb, p[1], p[2], "-", "-")
  BY <1>5 DEF Shape
<1>9. m = 3 /\ n = 0 => Shape(r, verb, p[1], p[2], p[3], "-")
  BY <1>5 DEF Shape
<1>10. m = 1 /\ n = 1 => Shape(r, verb, p[1], q[1], "-", "-")
  BY <1>5 DEF Shape
<1>11. m = 2 /\ n = 1 => Shape(r, verb, p[1], p[2], q[1], "-")
  BY <1>5 DEF Shape
<1>12. m = 3 /\ n = 1 => Shape(r, verb, p[1], p[2], p[3], q[1])
  BY <1>5 DEF Shape
<1>13. m = 1 /\ n = 2 => Shape(r, verb, p[1], q[1], q[2], "-")
  BY <1>5 DEF Shape
<1>14. m = 2 /\ n = 2 => Shape(r, verb, p[1], p[2], q[1], q[2])
  BY <1>5 DEF Shape
<1>15. m = 1 /\ n = 3 => Shape(r, verb, p[1], q[1], q[2], q[3])
  BY <1>5 DEF Shape
<1>16. QED  BY <1>1, <1>6, <1>7, <1>8, <1>9, <1>10, <1>11, <1>12, <1>13, <1>14, <1>15

\* The shape of a route from the path of its controller and its own.
LEMMA ShapeOfPaths ==
  ASSUME NEW r, NEW verb, r.verb = verb, NEW u, NEW v, NEW w, NEW b, NEW c, NEW d
  PROVE  /\ r.path = <<>> \o <<>> => Shape(r, verb, "-", "-", "-", "-")
         /\ r.path = <<u>> \o <<>> => Shape(r, verb, u, "-", "-", "-")
         /\ r.path = <<u, v>> \o <<>> => Shape(r, verb, u, v, "-", "-")
         /\ r.path = <<u, v, w>> \o <<>> => Shape(r, verb, u, v, w, "-")
         /\ r.path = <<u>> \o <<b>> => Shape(r, verb, u, b, "-", "-")
         /\ r.path = <<u, v>> \o <<b>> => Shape(r, verb, u, v, b, "-")
         /\ r.path = <<u, v, w>> \o <<b>> => Shape(r, verb, u, v, w, b)
         /\ r.path = <<u>> \o <<b, c>> => Shape(r, verb, u, b, c, "-")
         /\ r.path = <<u, v>> \o <<b, c>> => Shape(r, verb, u, v, b, c)
         /\ r.path = <<u>> \o <<b, c, d>> => Shape(r, verb, u, b, c, d)
<1>1. PICK S : S = {u, v, w, b, c, d}
  OBVIOUS
<1>2. <<>> \in Seq(S) /\ Len(<<>>) = 0
  BY <1>1
<1>3. <<b>> \in Seq(S) /\ Len(<<b>>) = 1 /\ <<b>>[1] = b
  BY <1>1
<1>4. <<u>> \in Seq(S) /\ Len(<<u>>) = 1 /\ <<u>>[1] = u
  BY <1>1
<1>5. <<b, c>> \in Seq(S) /\ Len(<<b, c>>) = 2 /\ <<b, c>>[1] = b /\ <<b, c>>[2] = c
  BY <1>1
<1>6. <<u, v>> \in Seq(S) /\ Len(<<u, v>>) = 2 /\ <<u, v>>[1] = u /\ <<u, v>>[2] = v
  BY <1>1
<1>7. <<b, c, d>> \in Seq(S) /\ Len(<<b, c, d>>) = 3 /\ <<b, c, d>>[1] = b /\ <<b, c, d>>[2] = c /\ <<b, c, d>>[3] = d
  BY <1>1
<1>8. <<u, v, w>> \in Seq(S) /\ Len(<<u, v, w>>) = 3 /\ <<u, v, w>>[1] = u /\ <<u, v, w>>[2] = v /\ <<u, v, w>>[3] = w
  BY <1>1
<1>9. r.path = <<>> \o <<>> => Shape(r, verb, "-", "-", "-", "-")
  BY <1>2, ShapeOfJoin, Zenon
<1>10. r.path = <<u>> \o <<>> => Shape(r, verb, u, "-", "-", "-")
  BY <1>4, <1>2, ShapeOfJoin, Zenon
<1>11. r.path = <<u, v>> \o <<>> => Shape(r, verb, u, v, "-", "-")
  BY <1>6, <1>2, ShapeOfJoin, Zenon
<1>12. r.path = <<u, v, w>> \o <<>> => Shape(r, verb, u, v, w, "-")
  BY <1>8, <1>2, ShapeOfJoin, Zenon
<1>13. r.path = <<u>> \o <<b>> => Shape(r, verb, u, b, "-", "-")
  BY <1>4, <1>3, ShapeOfJoin, Zenon
<1>14. r.path = <<u, v>> \o <<b>> => Shape(r, verb, u, v, b, "-")
  BY <1>6, <1>3, ShapeOfJoin, Zenon
<1>15. r.path = <<u, v, w>> \o <<b>> => Shape(r, verb, u, v, w, b)
  BY <1>8, <1>3, ShapeOfJoin, Zenon
<1>16. r.path = <<u>> \o <<b, c>> => Shape(r, verb, u, b, c, "-")
  BY <1>4, <1>5, ShapeOfJoin, Zenon
<1>17. r.path = <<u, v>> \o <<b, c>> => Shape(r, verb, u, v, b, c)
  BY <1>6, <1>5, ShapeOfJoin, Zenon
<1>18. r.path = <<u>> \o <<b, c, d>> => Shape(r, verb, u, b, c, d)
  BY <1>4, <1>7, ShapeOfJoin, Zenon
<1>19. QED  BY <1>9, <1>10, <1>11, <1>12, <1>13, <1>14, <1>15, <1>16, <1>17, <1>18

\* A route as its controller declares it.
Said(r, verb, p) == {"verb", "path"} \subseteq DOMAIN r /\ r.verb = verb /\ r.path = p

LEMMA SaidRoutes ==
  ASSUME NEW p, NEW action
  PROVE  /\ Said(Door!Get(p, action), "get", p) /\ Said(Door!Ask(p, action), "post", p)
         /\ Said(Door!Post(p, action), "post", p) /\ Said(Door!Patch(p, action), "patch", p)
         /\ Said(Door!Put(p, action), "put", p) /\ Said(Door!Remove(p, action), "delete", p)
         /\ \A changes : Said(Door!Route("get", p, action, changes), "get", p)
BY DEF Said, Door!Get, Door!Ask, Door!Post, Door!Patch, Door!Put, Door!Remove, Door!Route

LEMMA SaidAlso ==
  ASSUME NEW p, NEW action, NEW also
  PROVE  /\ Said(Door!Also(Door!Get(p, action), also), "get", p)
         /\ Said(Door!Also(Door!Post(p, action), also), "post", p)
         /\ Said(Door!Also(Door!Patch(p, action), also), "patch", p)
BY DEF Said, Door!Also, Door!Get, Door!Post, Door!Patch, Door!Route

LEMMA SaidUnder ==
  ASSUME NEW base, NEW subject, NEW routes, NEW i \in DOMAIN routes, NEW verb, NEW p, Said(routes[i], verb, p)
  PROVE  /\ Door!Under(base, subject, routes)[i].verb = verb
         /\ Door!Under(base, subject, routes)[i].path = base \o p
BY DEF Said, Door!Under

LEMMA ShapeUnder ==
  ASSUME NEW u, NEW v, NEW w, NEW subject, NEW routes, NEW i \in DOMAIN routes, NEW verb, NEW b, NEW c, NEW d
  PROVE  /\ Said(routes[i], verb, <<>>) =>
              Shape(Door!Under(<<>>, subject, routes)[i], verb, "-", "-", "-", "-")
         /\ Said(routes[i], verb, <<>>) =>
              Shape(Door!Under(<<u>>, subject, routes)[i], verb, u, "-", "-", "-")
         /\ Said(routes[i], verb, <<>>) =>
              Shape(Door!Under(<<u, v>>, subject, routes)[i], verb, u, v, "-", "-")
         /\ Said(routes[i], verb, <<>>) =>
              Shape(Door!Under(<<u, v, w>>, subject, routes)[i], verb, u, v, w, "-")
         /\ Said(routes[i], verb, <<b>>) =>
              Shape(Door!Under(<<u>>, subject, routes)[i], verb, u, b, "-", "-")
         /\ Said(routes[i], verb, <<b>>) =>
              Shape(Door!Under(<<u, v>>, subject, routes)[i], verb, u, v, b, "-")
         /\ Said(routes[i], verb, <<b>>) =>
              Shape(Door!Under(<<u, v, w>>, subject, routes)[i], verb, u, v, w, b)
         /\ Said(routes[i], verb, <<b, c>>) =>
              Shape(Door!Under(<<u>>, subject, routes)[i], verb, u, b, c, "-")
         /\ Said(routes[i], verb, <<b, c>>) =>
              Shape(Door!Under(<<u, v>>, subject, routes)[i], verb, u, v, b, c)
         /\ Said(routes[i], verb, <<b, c, d>>) =>
              Shape(Door!Under(<<u>>, subject, routes)[i], verb, u, b, c, d)
<1>1. ASSUME Said(routes[i], verb, <<>>)
      PROVE  Shape(Door!Under(<<>>, subject, routes)[i], verb, "-", "-", "-", "-")
  <2>1. PICK base, p : base = <<>> /\ p = <<>>
    OBVIOUS
  <2>2. Said(routes[i], verb, p)
    BY <1>1, <2>1
  <2>3. PICK r : r = Door!Under(base, subject, routes)[i]
    OBVIOUS
  <2>4. r.verb = verb /\ r.path = base \o p
    BY <2>2, <2>3, SaidUnder
  <2>5. QED  BY <2>1, <2>3, <2>4, ShapeOfPaths, Zenon
<1>2. ASSUME Said(routes[i], verb, <<>>)
      PROVE  Shape(Door!Under(<<u>>, subject, routes)[i], verb, u, "-", "-", "-")
  <2>1. PICK base, p : base = <<u>> /\ p = <<>>
    OBVIOUS
  <2>2. Said(routes[i], verb, p)
    BY <1>2, <2>1
  <2>3. PICK r : r = Door!Under(base, subject, routes)[i]
    OBVIOUS
  <2>4. r.verb = verb /\ r.path = base \o p
    BY <2>2, <2>3, SaidUnder
  <2>5. QED  BY <2>1, <2>3, <2>4, ShapeOfPaths, Zenon
<1>3. ASSUME Said(routes[i], verb, <<>>)
      PROVE  Shape(Door!Under(<<u, v>>, subject, routes)[i], verb, u, v, "-", "-")
  <2>1. PICK base, p : base = <<u, v>> /\ p = <<>>
    OBVIOUS
  <2>2. Said(routes[i], verb, p)
    BY <1>3, <2>1
  <2>3. PICK r : r = Door!Under(base, subject, routes)[i]
    OBVIOUS
  <2>4. r.verb = verb /\ r.path = base \o p
    BY <2>2, <2>3, SaidUnder
  <2>5. QED  BY <2>1, <2>3, <2>4, ShapeOfPaths, Zenon
<1>4. ASSUME Said(routes[i], verb, <<>>)
      PROVE  Shape(Door!Under(<<u, v, w>>, subject, routes)[i], verb, u, v, w, "-")
  <2>1. PICK base, p : base = <<u, v, w>> /\ p = <<>>
    OBVIOUS
  <2>2. Said(routes[i], verb, p)
    BY <1>4, <2>1
  <2>3. PICK r : r = Door!Under(base, subject, routes)[i]
    OBVIOUS
  <2>4. r.verb = verb /\ r.path = base \o p
    BY <2>2, <2>3, SaidUnder
  <2>5. QED  BY <2>1, <2>3, <2>4, ShapeOfPaths, Zenon
<1>5. ASSUME Said(routes[i], verb, <<b>>)
      PROVE  Shape(Door!Under(<<u>>, subject, routes)[i], verb, u, b, "-", "-")
  <2>1. PICK base, p : base = <<u>> /\ p = <<b>>
    OBVIOUS
  <2>2. Said(routes[i], verb, p)
    BY <1>5, <2>1
  <2>3. PICK r : r = Door!Under(base, subject, routes)[i]
    OBVIOUS
  <2>4. r.verb = verb /\ r.path = base \o p
    BY <2>2, <2>3, SaidUnder
  <2>5. QED  BY <2>1, <2>3, <2>4, ShapeOfPaths, Zenon
<1>6. ASSUME Said(routes[i], verb, <<b>>)
      PROVE  Shape(Door!Under(<<u, v>>, subject, routes)[i], verb, u, v, b, "-")
  <2>1. PICK base, p : base = <<u, v>> /\ p = <<b>>
    OBVIOUS
  <2>2. Said(routes[i], verb, p)
    BY <1>6, <2>1
  <2>3. PICK r : r = Door!Under(base, subject, routes)[i]
    OBVIOUS
  <2>4. r.verb = verb /\ r.path = base \o p
    BY <2>2, <2>3, SaidUnder
  <2>5. QED  BY <2>1, <2>3, <2>4, ShapeOfPaths, Zenon
<1>7. ASSUME Said(routes[i], verb, <<b>>)
      PROVE  Shape(Door!Under(<<u, v, w>>, subject, routes)[i], verb, u, v, w, b)
  <2>1. PICK base, p : base = <<u, v, w>> /\ p = <<b>>
    OBVIOUS
  <2>2. Said(routes[i], verb, p)
    BY <1>7, <2>1
  <2>3. PICK r : r = Door!Under(base, subject, routes)[i]
    OBVIOUS
  <2>4. r.verb = verb /\ r.path = base \o p
    BY <2>2, <2>3, SaidUnder
  <2>5. QED  BY <2>1, <2>3, <2>4, ShapeOfPaths, Zenon
<1>8. ASSUME Said(routes[i], verb, <<b, c>>)
      PROVE  Shape(Door!Under(<<u>>, subject, routes)[i], verb, u, b, c, "-")
  <2>1. PICK base, p : base = <<u>> /\ p = <<b, c>>
    OBVIOUS
  <2>2. Said(routes[i], verb, p)
    BY <1>8, <2>1
  <2>3. PICK r : r = Door!Under(base, subject, routes)[i]
    OBVIOUS
  <2>4. r.verb = verb /\ r.path = base \o p
    BY <2>2, <2>3, SaidUnder
  <2>5. QED  BY <2>1, <2>3, <2>4, ShapeOfPaths, Zenon
<1>9. ASSUME Said(routes[i], verb, <<b, c>>)
      PROVE  Shape(Door!Under(<<u, v>>, subject, routes)[i], verb, u, v, b, c)
  <2>1. PICK base, p : base = <<u, v>> /\ p = <<b, c>>
    OBVIOUS
  <2>2. Said(routes[i], verb, p)
    BY <1>9, <2>1
  <2>3. PICK r : r = Door!Under(base, subject, routes)[i]
    OBVIOUS
  <2>4. r.verb = verb /\ r.path = base \o p
    BY <2>2, <2>3, SaidUnder
  <2>5. QED  BY <2>1, <2>3, <2>4, ShapeOfPaths, Zenon
<1>10. ASSUME Said(routes[i], verb, <<b, c, d>>)
      PROVE  Shape(Door!Under(<<u>>, subject, routes)[i], verb, u, b, c, d)
  <2>1. PICK base, p : base = <<u>> /\ p = <<b, c, d>>
    OBVIOUS
  <2>2. Said(routes[i], verb, p)
    BY <1>10, <2>1
  <2>3. PICK r : r = Door!Under(base, subject, routes)[i]
    OBVIOUS
  <2>4. r.verb = verb /\ r.path = base \o p
    BY <2>2, <2>3, SaidUnder
  <2>5. QED  BY <2>1, <2>3, <2>4, ShapeOfPaths, Zenon
<1>11. QED  BY <1>1, <1>2, <1>3, <1>4, <1>5, <1>6, <1>7, <1>8, <1>9, <1>10

LEMMA SaidCallback == Said(Door!Route("get", <<"callback">>, "visitor", TRUE), "get", <<"callback">>)
BY DEF Said, Door!Route

LEMMA JoinAt ==
  ASSUME NEW s \in Seq(Good), NEW t \in Seq(Good)
  PROVE  /\ DOMAIN (s \o t) = 1 .. Len(s) + Len(t) /\ \A i \in 1 .. Len(s) : (s \o t)[i] = s[i]
         /\ \A i \in Len(s) + 1 .. Len(s) + Len(t) : (s \o t)[i] = t[i - Len(s)]
OBVIOUS

\* What the controllers declare, as verbs and segments.
LEMMA HealthRoutesTable ==
  /\ DOMAIN Door!HealthRoutes = 1 .. 1
  /\ Shape(Door!HealthRoutes[1], "get", "health", "-", "-", "-")
<1>1. PICK d : d = <<
        Door!Get(<<>>, "visitor")>>
  OBVIOUS
<1>2. Door!HealthRoutes = Door!Under(<<"health">>, "", d)
  BY <1>1 DEF Door!HealthRoutes
<1>3. DOMAIN d = 1 .. 1 /\ Said(d[1], "get", <<>>)
  BY <1>1, SaidRoutes, SaidAlso
<1>4. DOMAIN Door!HealthRoutes = 1 .. 1
  BY <1>2, <1>3 DEF Door!Under
<1>5. 1 \in DOMAIN d
  BY <1>3
<1>6. QED  BY <1>2, <1>3, <1>4, <1>5, ShapeUnder, Zenon

LEMMA SigningInTable ==
  /\ DOMAIN Door!SigningIn = 1 .. 8
  /\ Shape(Door!SigningIn[1], "post", "auth", "register", "-", "-")
  /\ Shape(Door!SigningIn[2], "post", "auth", "verify-email", "-", "-")
  /\ Shape(Door!SigningIn[3], "post", "auth", "resend-verification-code", "-", "-")
  /\ Shape(Door!SigningIn[4], "post", "auth", "login", "-", "-")
  /\ Shape(Door!SigningIn[5], "post", "auth", "two-factor", "verify", "-")
  /\ Shape(Door!SigningIn[6], "post", "auth", "refresh", "-", "-")
  /\ Shape(Door!SigningIn[7], "post", "auth", "forgot-password", "-", "-")
  /\ Shape(Door!SigningIn[8], "post", "auth", "reset-password", "-", "-")
<1>1. PICK d : d = <<
        Door!Post(<<"register">>, "visitor"), Door!Post(<<"verify-email">>, "visitor"),
        Door!Post(<<"resend-verification-code">>, "visitor"), Door!Post(<<"login">>, "visitor"),
        Door!Post(<<"two-factor", "verify">>, "token"), Door!Post(<<"refresh">>, "visitor"),
        Door!Post(<<"forgot-password">>, "visitor"), Door!Post(<<"reset-password">>, "visitor")>>
  OBVIOUS
<1>2. Door!SigningIn = Door!Under(<<"auth">>, "", d)
  BY <1>1 DEF Door!SigningIn
<1>3. DOMAIN d = 1 .. 8 /\ Said(d[1], "post", <<"register">>) /\ Said(d[2], "post", <<"verify-email">>)
      /\ Said(d[3], "post", <<"resend-verification-code">>) /\ Said(d[4], "post", <<"login">>)
      /\ Said(d[5], "post", <<"two-factor", "verify">>) /\ Said(d[6], "post", <<"refresh">>)
      /\ Said(d[7], "post", <<"forgot-password">>) /\ Said(d[8], "post", <<"reset-password">>)
  BY <1>1, SaidRoutes, SaidAlso
<1>4. DOMAIN Door!SigningIn = 1 .. 8
  BY <1>2, <1>3 DEF Door!Under
<1>5. 1 \in DOMAIN d /\ 2 \in DOMAIN d /\ 3 \in DOMAIN d /\ 4 \in DOMAIN d /\ 5 \in DOMAIN d /\ 6 \in DOMAIN d /\
            7 \in DOMAIN d /\ 8 \in DOMAIN d
  BY <1>3
<1>6. QED  BY <1>2, <1>3, <1>4, <1>5, ShapeUnder, Zenon

LEMMA OwnAccountTable ==
  /\ DOMAIN Door!OwnAccount = 1 .. 6
  /\ Shape(Door!OwnAccount[1], "post", "auth", "change-password", "-", "-")
  /\ Shape(Door!OwnAccount[2], "post", "auth", "logout", "-", "-")
  /\ Shape(Door!OwnAccount[3], "post", "auth", "logout-all", "-", "-")
  /\ Shape(Door!OwnAccount[4], "get", "auth", "me", "-", "-")
  /\ Shape(Door!OwnAccount[5], "patch", "auth", "me", "-", "-")
  /\ Shape(Door!OwnAccount[6], "post", "auth", "me", "profile-photo", "-")
<1>1. PICK d : d = <<
        Door!Post(<<"change-password">>, "twoFactor"), Door!Post(<<"logout">>, "visitor"),
        Door!Post(<<"logout-all">>, "token"), Door!Get(<<"me">>, "token"), Door!Patch(<<"me">>, "twoFactor"),
        Door!Post(<<"me", "profile-photo">>, "twoFactor")>>
  OBVIOUS
<1>2. Door!OwnAccount = Door!Under(<<"auth">>, "", d)
  BY <1>1 DEF Door!OwnAccount
<1>3. DOMAIN d = 1 .. 6 /\ Said(d[1], "post", <<"change-password">>) /\ Said(d[2], "post", <<"logout">>)
      /\ Said(d[3], "post", <<"logout-all">>) /\ Said(d[4], "get", <<"me">>) /\ Said(d[5], "patch", <<"me">>)
      /\ Said(d[6], "post", <<"me", "profile-photo">>)
  BY <1>1, SaidRoutes, SaidAlso
<1>4. DOMAIN Door!OwnAccount = 1 .. 6
  BY <1>2, <1>3 DEF Door!Under
<1>5. 1 \in DOMAIN d /\ 2 \in DOMAIN d /\ 3 \in DOMAIN d /\ 4 \in DOMAIN d /\ 5 \in DOMAIN d /\ 6 \in DOMAIN d
  BY <1>3
<1>6. QED  BY <1>2, <1>3, <1>4, <1>5, ShapeUnder, Zenon

LEMMA TwoFactorRoutesTable ==
  /\ DOMAIN Door!TwoFactorRoutes = 1 .. 4
  /\ Shape(Door!TwoFactorRoutes[1], "post", "auth", "two-factor", "setup", "-")
  /\ Shape(Door!TwoFactorRoutes[2], "post", "auth", "two-factor", "enable", "-")
  /\ Shape(Door!TwoFactorRoutes[3], "post", "auth", "two-factor", "disable", "-")
  /\ Shape(Door!TwoFactorRoutes[4], "post", "auth", "two-factor", "backup-codes", "regenerate")
<1>1. PICK d : d = <<
        Door!Post(<<"setup">>, "fresh"), Door!Post(<<"enable">>, "fresh"), Door!Post(<<"disable">>, "fresh"),
        Door!Post(<<"backup-codes", "regenerate">>, "fresh")>>
  OBVIOUS
<1>2. Door!TwoFactorRoutes = Door!Under(<<"auth", "two-factor">>, "", d)
  BY <1>1 DEF Door!TwoFactorRoutes
<1>3. DOMAIN d = 1 .. 4 /\ Said(d[1], "post", <<"setup">>) /\ Said(d[2], "post", <<"enable">>)
      /\ Said(d[3], "post", <<"disable">>) /\ Said(d[4], "post", <<"backup-codes", "regenerate">>)
  BY <1>1, SaidRoutes, SaidAlso
<1>4. DOMAIN Door!TwoFactorRoutes = 1 .. 4
  BY <1>2, <1>3 DEF Door!Under
<1>5. 1 \in DOMAIN d /\ 2 \in DOMAIN d /\ 3 \in DOMAIN d /\ 4 \in DOMAIN d
  BY <1>3
<1>6. QED  BY <1>2, <1>3, <1>4, <1>5, ShapeUnder, Zenon

LEMMA SessionRoutesTable ==
  /\ DOMAIN Door!SessionRoutes = 1 .. 5
  /\ Shape(Door!SessionRoutes[1], "get", "auth", "sessions", "-", "-")
  /\ Shape(Door!SessionRoutes[2], "delete", "auth", "sessions", ":", "-")
  /\ Shape(Door!SessionRoutes[3], "get", "auth", "trusted-devices", "-", "-")
  /\ Shape(Door!SessionRoutes[4], "delete", "auth", "trusted-devices", ":", "-")
  /\ Shape(Door!SessionRoutes[5], "delete", "auth", "trusted-devices", "-", "-")
<1>1. PICK d : d = <<
        Door!Get(<<"sessions">>, "twoFactor"), Door!Remove(<<"sessions", ":">>, "twoFactor"),
        Door!Get(<<"trusted-devices">>, "twoFactor"), Door!Remove(<<"trusted-devices", ":">>, "twoFactor"),
        Door!Remove(<<"trusted-devices">>, "twoFactor")>>
  OBVIOUS
<1>2. Door!SessionRoutes = Door!Under(<<"auth">>, "", d)
  BY <1>1 DEF Door!SessionRoutes
<1>3. DOMAIN d = 1 .. 5 /\ Said(d[1], "get", <<"sessions">>) /\ Said(d[2], "delete", <<"sessions", ":">>)
      /\ Said(d[3], "get", <<"trusted-devices">>) /\ Said(d[4], "delete", <<"trusted-devices", ":">>)
      /\ Said(d[5], "delete", <<"trusted-devices">>)
  BY <1>1, SaidRoutes, SaidAlso
<1>4. DOMAIN Door!SessionRoutes = 1 .. 5
  BY <1>2, <1>3 DEF Door!Under
<1>5. 1 \in DOMAIN d /\ 2 \in DOMAIN d /\ 3 \in DOMAIN d /\ 4 \in DOMAIN d /\ 5 \in DOMAIN d
  BY <1>3
<1>6. QED  BY <1>2, <1>3, <1>4, <1>5, ShapeUnder, Zenon

LEMMA SocialAuthRoutesTable ==
  /\ DOMAIN Door!SocialAuthRoutes = 1 .. 3
  /\ Shape(Door!SocialAuthRoutes[1], "get", "auth", "google", "redirect", "-")
  /\ Shape(Door!SocialAuthRoutes[2], "get", "auth", "google", "callback", "-")
  /\ Shape(Door!SocialAuthRoutes[3], "delete", "auth", "google", "-", "-")
<1>1. PICK d : d = <<
        Door!Get(<<"redirect">>, "visitor"), Door!Route("get", <<"callback">>, "visitor", TRUE),
        Door!Remove(<<>>, "fresh")>>
  OBVIOUS
<1>2. Door!SocialAuthRoutes = Door!Under(<<"auth", "google">>, "", d)
  BY <1>1 DEF Door!SocialAuthRoutes
<1>a. d[2] = Door!Route("get", <<"callback">>, "visitor", TRUE)
  BY <1>1
<1>b. Said(d[2], "get", <<"callback">>)
  BY <1>a, SaidCallback
<1>3. DOMAIN d = 1 .. 3 /\ Said(d[1], "get", <<"redirect">>) /\ Said(d[3], "delete", <<>>)
  BY <1>1, SaidRoutes, SaidAlso
<1>4. DOMAIN Door!SocialAuthRoutes = 1 .. 3
  BY <1>2, <1>3 DEF Door!Under
<1>5. 1 \in DOMAIN d /\ 2 \in DOMAIN d /\ 3 \in DOMAIN d
  BY <1>3
<1>6. QED  BY <1>2, <1>b, <1>3, <1>4, <1>5, ShapeUnder, Zenon

LEMMA CompanyDataRoutesTable ==
  /\ DOMAIN Door!CompanyDataRoutes = 1 .. 7
  /\ Shape(Door!CompanyDataRoutes[1], "get", "company-data", "public", "-", "-")
  /\ Shape(Door!CompanyDataRoutes[2], "get", "company-data", "-", "-", "-")
  /\ Shape(Door!CompanyDataRoutes[3], "get", "company-data", "me", "-", "-")
  /\ Shape(Door!CompanyDataRoutes[4], "get", "company-data", ":", "-", "-")
  /\ Shape(Door!CompanyDataRoutes[5], "patch", "company-data", ":", "-", "-")
  /\ Shape(Door!CompanyDataRoutes[6], "post", "company-data", ":", "signature", "-")
  /\ Shape(Door!CompanyDataRoutes[7], "delete", "company-data", ":", "signature", "-")
<1>1. PICK d : d = <<
        Door!Get(<<"public">>, "visitor")>>
  OBVIOUS
<1>2. PICK s \in Seq(Good) : s = Door!Under(<<"company-data">>, "", d)
  BY <1>1, OpenRoutesAreGood, CompanyRoutesAreGood
<1>3. DOMAIN d = 1 .. 1 /\ Said(d[1], "get", <<"public">>)
  BY <1>1, SaidRoutes, SaidAlso
<1>4. DOMAIN s = 1 .. 1 /\ Len(s) = 1
  BY <1>2, <1>3 DEF Door!Under
<1>5. 1 \in DOMAIN d
  BY <1>3
<1>6. /\ Shape(s[1], "get", "company-data", "public", "-", "-")
  BY <1>2, <1>3, <1>5, ShapeUnder, Zenon
<1>7. PICK e : e = <<
        Door!Get(<<>>, "read"), Door!Get(<<"me">>, "read"), Door!Get(<<":">>, "read"),
        Door!Patch(<<":">>, "update"), Door!Post(<<":", "signature">>, "update"),
        Door!Remove(<<":", "signature">>, "update")>>
  OBVIOUS
<1>8. PICK t \in Seq(Good) : t = Door!Under(<<"company-data">>, "COMPANY", e)
  BY <1>7, OpenRoutesAreGood, CompanyRoutesAreGood
<1>9. DOMAIN e = 1 .. 6 /\ Said(e[1], "get", <<>>) /\ Said(e[2], "get", <<"me">>) /\ Said(e[3], "get", <<":">>)
      /\ Said(e[4], "patch", <<":">>) /\ Said(e[5], "post", <<":", "signature">>)
      /\ Said(e[6], "delete", <<":", "signature">>)
  BY <1>7, SaidRoutes, SaidAlso
<1>10. DOMAIN t = 1 .. 6 /\ Len(t) = 6
  BY <1>8, <1>9 DEF Door!Under
<1>11. 1 \in DOMAIN e /\ 2 \in DOMAIN e /\ 3 \in DOMAIN e /\ 4 \in DOMAIN e /\ 5 \in DOMAIN e /\ 6 \in DOMAIN e
  BY <1>9
<1>12. /\ Shape(t[1], "get", "company-data", "-", "-", "-")
      /\ Shape(t[2], "get", "company-data", "me", "-", "-")
      /\ Shape(t[3], "get", "company-data", ":", "-", "-")
      /\ Shape(t[4], "patch", "company-data", ":", "-", "-")
      /\ Shape(t[5], "post", "company-data", ":", "signature", "-")
      /\ Shape(t[6], "delete", "company-data", ":", "signature", "-")
  BY <1>8, <1>9, <1>11, ShapeUnder, Zenon
<1>13. Door!CompanyDataRoutes = s \o t
  BY <1>1, <1>2, <1>7, <1>8 DEF Door!CompanyDataRoutes
<1>14. /\ DOMAIN (s \o t) = 1 .. Len(s) + Len(t) /\ \A i \in 1 .. Len(s) : (s \o t)[i] = s[i]
      /\ \A i \in Len(s) + 1 .. Len(s) + Len(t) : (s \o t)[i] = t[i - Len(s)]
  BY JoinAt
<1>15. /\ DOMAIN (s \o t) = 1 .. 7
      /\ (s \o t)[1] = s[1] /\ (s \o t)[2] = t[1] /\ (s \o t)[3] = t[2] /\ (s \o t)[4] = t[3]
      /\ (s \o t)[5] = t[4] /\ (s \o t)[6] = t[5] /\ (s \o t)[7] = t[6]
  BY <1>14, <1>4, <1>10
<1>16. QED  BY <1>6, <1>12, <1>13, <1>15

LEMMA BlogCategoryListsTable ==
  /\ DOMAIN Door!BlogCategoryLists = 1 .. 3
  /\ Shape(Door!BlogCategoryLists[1], "post", "blog-categories", "-", "-", "-")
  /\ Shape(Door!BlogCategoryLists[2], "get", "blog-categories", "trash", "-", "-")
  /\ Shape(Door!BlogCategoryLists[3], "get", "blog-categories", "-", "-", "-")
<1>1. PICK d : d = <<
        Door!Post(<<>>, "create"), Door!Get(<<"trash">>, "restore"), Door!Get(<<>>, "read")>>
  OBVIOUS
<1>2. Door!BlogCategoryLists = Door!Under(<<"blog-categories">>, "BLOG_CATEGORY", d)
  BY <1>1 DEF Door!BlogCategoryLists
<1>3. DOMAIN d = 1 .. 3 /\ Said(d[1], "post", <<>>) /\ Said(d[2], "get", <<"trash">>) /\ Said(d[3], "get", <<>>)
  BY <1>1, SaidRoutes, SaidAlso
<1>4. DOMAIN Door!BlogCategoryLists = 1 .. 3
  BY <1>2, <1>3 DEF Door!Under
<1>5. 1 \in DOMAIN d /\ 2 \in DOMAIN d /\ 3 \in DOMAIN d
  BY <1>3
<1>6. QED  BY <1>2, <1>3, <1>4, <1>5, ShapeUnder, Zenon

LEMMA BlogCategoryReadingTable ==
  /\ DOMAIN Door!BlogCategoryReading = 1 .. 4
  /\ Shape(Door!BlogCategoryReading[1], "get", "blog-categories", "export", "-", "-")
  /\ Shape(Door!BlogCategoryReading[2], "get", "blog-categories", ":", "-", "-")
  /\ Shape(Door!BlogCategoryReading[3], "patch", "blog-categories", ":", "-", "-")
  /\ Shape(Door!BlogCategoryReading[4], "delete", "blog-categories", ":", "-", "-")
<1>1. PICK d : d = <<
        Door!Get(<<"export">>, "read"), Door!Get(<<":">>, "read"), Door!Patch(<<":">>, "update"),
        Door!Remove(<<":">>, "delete")>>
  OBVIOUS
<1>2. Door!BlogCategoryReading = Door!Under(<<"blog-categories">>, "BLOG_CATEGORY", d)
  BY <1>1 DEF Door!BlogCategoryReading
<1>3. DOMAIN d = 1 .. 4 /\ Said(d[1], "get", <<"export">>) /\ Said(d[2], "get", <<":">>) /\ Said(d[3], "patch",
            <<":">>)
      /\ Said(d[4], "delete", <<":">>)
  BY <1>1, SaidRoutes, SaidAlso
<1>4. DOMAIN Door!BlogCategoryReading = 1 .. 4
  BY <1>2, <1>3 DEF Door!Under
<1>5. 1 \in DOMAIN d /\ 2 \in DOMAIN d /\ 3 \in DOMAIN d /\ 4 \in DOMAIN d
  BY <1>3
<1>6. QED  BY <1>2, <1>3, <1>4, <1>5, ShapeUnder, Zenon

LEMMA BlogCategoryChangesTable ==
  /\ DOMAIN Door!BlogCategoryChanges = 1 .. 5
  /\ Shape(Door!BlogCategoryChanges[1], "post", "blog-categories", ":", "restore", "-")
  /\ Shape(Door!BlogCategoryChanges[2], "post", "blog-categories", "bulk-delete", "-", "-")
  /\ Shape(Door!BlogCategoryChanges[3], "post", "blog-categories", "bulk-restore", "-", "-")
  /\ Shape(Door!BlogCategoryChanges[4], "post", "blog-categories", ":", "image", "-")
  /\ Shape(Door!BlogCategoryChanges[5], "delete", "blog-categories", ":", "image", "-")
<1>1. PICK d : d = <<
        Door!Post(<<":", "restore">>, "restore"), Door!Post(<<"bulk-delete">>, "delete"),
        Door!Post(<<"bulk-restore">>, "restore"), Door!Post(<<":", "image">>, "update"),
        Door!Remove(<<":", "image">>, "update")>>
  OBVIOUS
<1>2. Door!BlogCategoryChanges = Door!Under(<<"blog-categories">>, "BLOG_CATEGORY", d)
  BY <1>1 DEF Door!BlogCategoryChanges
<1>3. DOMAIN d = 1 .. 5 /\ Said(d[1], "post", <<":", "restore">>) /\ Said(d[2], "post", <<"bulk-delete">>)
      /\ Said(d[3], "post", <<"bulk-restore">>) /\ Said(d[4], "post", <<":", "image">>)
      /\ Said(d[5], "delete", <<":", "image">>)
  BY <1>1, SaidRoutes, SaidAlso
<1>4. DOMAIN Door!BlogCategoryChanges = 1 .. 5
  BY <1>2, <1>3 DEF Door!Under
<1>5. 1 \in DOMAIN d /\ 2 \in DOMAIN d /\ 3 \in DOMAIN d /\ 4 \in DOMAIN d /\ 5 \in DOMAIN d
  BY <1>3
<1>6. QED  BY <1>2, <1>3, <1>4, <1>5, ShapeUnder, Zenon

LEMMA UserCreationTable ==
  /\ DOMAIN Door!UserCreation = 1 .. 4
  /\ Shape(Door!UserCreation[1], "post", "users", "-", "-", "-")
  /\ Shape(Door!UserCreation[2], "post", "users", "setup-password", "-", "-")
  /\ Shape(Door!UserCreation[3], "post", "users", "request-password-change", "-", "-")
  /\ Shape(Door!UserCreation[4], "post", "users", "change-password", "-", "-")
<1>1. PICK d : d = <<
        Door!Also(Door!Post(<<>>, "create"), "manage")>>
  OBVIOUS
<1>2. PICK s \in Seq(Good) : s = Door!Under(<<"users">>, "USER", d)
  BY <1>1, OpenRoutesAreGood, UserRoutesAreGood
<1>3. DOMAIN d = 1 .. 1 /\ Said(d[1], "post", <<>>)
  BY <1>1, SaidRoutes, SaidAlso
<1>4. DOMAIN s = 1 .. 1 /\ Len(s) = 1
  BY <1>2, <1>3 DEF Door!Under
<1>5. 1 \in DOMAIN d
  BY <1>3
<1>6. /\ Shape(s[1], "post", "users", "-", "-", "-")
  BY <1>2, <1>3, <1>5, ShapeUnder, Zenon
<1>7. PICK e : e = <<
        Door!Post(<<"setup-password">>, "visitor"), Door!Post(<<"request-password-change">>, "visitor"),
        Door!Post(<<"change-password">>, "visitor")>>
  OBVIOUS
<1>8. PICK t \in Seq(Good) : t = Door!Under(<<"users">>, "", e)
  BY <1>7, OpenRoutesAreGood, UserRoutesAreGood
<1>9. DOMAIN e = 1 .. 3 /\ Said(e[1], "post", <<"setup-password">>) /\ Said(e[2], "post",
            <<"request-password-change">>)
      /\ Said(e[3], "post", <<"change-password">>)
  BY <1>7, SaidRoutes, SaidAlso
<1>10. DOMAIN t = 1 .. 3 /\ Len(t) = 3
  BY <1>8, <1>9 DEF Door!Under
<1>11. 1 \in DOMAIN e /\ 2 \in DOMAIN e /\ 3 \in DOMAIN e
  BY <1>9
<1>12. /\ Shape(t[1], "post", "users", "setup-password", "-", "-")
      /\ Shape(t[2], "post", "users", "request-password-change", "-", "-")
      /\ Shape(t[3], "post", "users", "change-password", "-", "-")
  BY <1>8, <1>9, <1>11, ShapeUnder, Zenon
<1>13. Door!UserCreation = s \o t
  BY <1>1, <1>2, <1>7, <1>8 DEF Door!UserCreation
<1>14. /\ DOMAIN (s \o t) = 1 .. Len(s) + Len(t) /\ \A i \in 1 .. Len(s) : (s \o t)[i] = s[i]
      /\ \A i \in Len(s) + 1 .. Len(s) + Len(t) : (s \o t)[i] = t[i - Len(s)]
  BY JoinAt
<1>15. /\ DOMAIN (s \o t) = 1 .. 4
      /\ (s \o t)[1] = s[1] /\ (s \o t)[2] = t[1] /\ (s \o t)[3] = t[2] /\ (s \o t)[4] = t[3]
  BY <1>14, <1>4, <1>10
<1>16. QED  BY <1>6, <1>12, <1>13, <1>15

LEMMA UserListsTable ==
  /\ DOMAIN Door!UserLists = 1 .. 2
  /\ Shape(Door!UserLists[1], "get", "users", "-", "-", "-")
  /\ Shape(Door!UserLists[2], "get", "users", "export", "-", "-")
<1>1. PICK d : d = <<
        Door!Also(Door!Get(<<>>, "read"), "restore"), Door!Also(Door!Get(<<"export">>, "read"), "restore")>>
  OBVIOUS
<1>2. Door!UserLists = Door!Under(<<"users">>, "USER", d)
  BY <1>1 DEF Door!UserLists
<1>3. DOMAIN d = 1 .. 2 /\ Said(d[1], "get", <<>>) /\ Said(d[2], "get", <<"export">>)
  BY <1>1, SaidRoutes, SaidAlso
<1>4. DOMAIN Door!UserLists = 1 .. 2
  BY <1>2, <1>3 DEF Door!Under
<1>5. 1 \in DOMAIN d /\ 2 \in DOMAIN d
  BY <1>3
<1>6. QED  BY <1>2, <1>3, <1>4, <1>5, ShapeUnder, Zenon

LEMMA UserReadingTable ==
  /\ DOMAIN Door!UserReading = 1 .. 3
  /\ Shape(Door!UserReading[1], "get", "users", "check", "email", "-")
  /\ Shape(Door!UserReading[2], "get", "users", "check", "username", "-")
  /\ Shape(Door!UserReading[3], "get", "users", ":", "-", "-")
<1>1. PICK d : d = <<
        Door!Get(<<"check", "email">>, "read"), Door!Get(<<"check", "username">>, "read"),
        Door!Get(<<":">>, "read")>>
  OBVIOUS
<1>2. Door!UserReading = Door!Under(<<"users">>, "USER", d)
  BY <1>1 DEF Door!UserReading
<1>3. DOMAIN d = 1 .. 3 /\ Said(d[1], "get", <<"check", "email">>) /\ Said(d[2], "get", <<"check", "username">>)
      /\ Said(d[3], "get", <<":">>)
  BY <1>1, SaidRoutes, SaidAlso
<1>4. DOMAIN Door!UserReading = 1 .. 3
  BY <1>2, <1>3 DEF Door!Under
<1>5. 1 \in DOMAIN d /\ 2 \in DOMAIN d /\ 3 \in DOMAIN d
  BY <1>3
<1>6. QED  BY <1>2, <1>3, <1>4, <1>5, ShapeUnder, Zenon

LEMMA UserChangesTable ==
  /\ DOMAIN Door!UserChanges = 1 .. 4
  /\ Shape(Door!UserChanges[1], "patch", "users", ":", "-", "-")
  /\ Shape(Door!UserChanges[2], "delete", "users", ":", "-", "-")
  /\ Shape(Door!UserChanges[3], "post", "users", "bulk-delete", "-", "-")
  /\ Shape(Door!UserChanges[4], "post", "users", "bulk-restore", "-", "-")
<1>1. PICK d : d = <<
        Door!Also(Door!Patch(<<":">>, "update"), "manage"), Door!Remove(<<":">>, "delete"),
        Door!Post(<<"bulk-delete">>, "delete"), Door!Post(<<"bulk-restore">>, "restore")>>
  OBVIOUS
<1>2. Door!UserChanges = Door!Under(<<"users">>, "USER", d)
  BY <1>1 DEF Door!UserChanges
<1>3. DOMAIN d = 1 .. 4 /\ Said(d[1], "patch", <<":">>) /\ Said(d[2], "delete", <<":">>) /\ Said(d[3], "post",
            <<"bulk-delete">>)
      /\ Said(d[4], "post", <<"bulk-restore">>)
  BY <1>1, SaidRoutes, SaidAlso
<1>4. DOMAIN Door!UserChanges = 1 .. 4
  BY <1>2, <1>3 DEF Door!Under
<1>5. 1 \in DOMAIN d /\ 2 \in DOMAIN d /\ 3 \in DOMAIN d /\ 4 \in DOMAIN d
  BY <1>3
<1>6. QED  BY <1>2, <1>3, <1>4, <1>5, ShapeUnder, Zenon

LEMMA AppointmentReadingTable ==
  /\ DOMAIN Door!AppointmentReading = 1 .. 2
  /\ Shape(Door!AppointmentReading[1], "post", "appointments", "-", "-", "-")
  /\ Shape(Door!AppointmentReading[2], "get", "appointments", "-", "-", "-")
<1>1. PICK d : d = <<
        Door!Post(<<>>, "create"), Door!Also(Door!Get(<<>>, "read"), "restore")>>
  OBVIOUS
<1>2. Door!AppointmentReading = Door!Under(<<"appointments">>, "APPOINTMENT", d)
  BY <1>1 DEF Door!AppointmentReading
<1>3. DOMAIN d = 1 .. 2 /\ Said(d[1], "post", <<>>) /\ Said(d[2], "get", <<>>)
  BY <1>1, SaidRoutes, SaidAlso
<1>4. DOMAIN Door!AppointmentReading = 1 .. 2
  BY <1>2, <1>3 DEF Door!Under
<1>5. 1 \in DOMAIN d /\ 2 \in DOMAIN d
  BY <1>3
<1>6. QED  BY <1>2, <1>3, <1>4, <1>5, ShapeUnder, Zenon

LEMMA AppointmentExportTable ==
  /\ DOMAIN Door!AppointmentExport = 1 .. 2
  /\ Shape(Door!AppointmentExport[1], "get", "appointments", "export", "-", "-")
  /\ Shape(Door!AppointmentExport[2], "get", "appointments", ":", "-", "-")
<1>1. PICK d : d = <<
        Door!Also(Door!Get(<<"export">>, "read"), "restore"), Door!Also(Door!Get(<<":">>, "read"), "restore")>>
  OBVIOUS
<1>2. Door!AppointmentExport = Door!Under(<<"appointments">>, "APPOINTMENT", d)
  BY <1>1 DEF Door!AppointmentExport
<1>3. DOMAIN d = 1 .. 2 /\ Said(d[1], "get", <<"export">>) /\ Said(d[2], "get", <<":">>)
  BY <1>1, SaidRoutes, SaidAlso
<1>4. DOMAIN Door!AppointmentExport = 1 .. 2
  BY <1>2, <1>3 DEF Door!Under
<1>5. 1 \in DOMAIN d /\ 2 \in DOMAIN d
  BY <1>3
<1>6. QED  BY <1>2, <1>3, <1>4, <1>5, ShapeUnder, Zenon

LEMMA AppointmentChangesTable ==
  /\ DOMAIN Door!AppointmentChanges = 1 .. 6
  /\ Shape(Door!AppointmentChanges[1], "patch", "appointments", ":", "-", "-")
  /\ Shape(Door!AppointmentChanges[2], "patch", "appointments", ":", "read", "-")
  /\ Shape(Door!AppointmentChanges[3], "patch", "appointments", ":", "restore", "-")
  /\ Shape(Door!AppointmentChanges[4], "post", "appointments", "bulk-delete", "-", "-")
  /\ Shape(Door!AppointmentChanges[5], "post", "appointments", "bulk-restore", "-", "-")
  /\ Shape(Door!AppointmentChanges[6], "delete", "appointments", ":", "-", "-")
<1>1. PICK d : d = <<
        Door!Patch(<<":">>, "update"), Door!Patch(<<":", "read">>, "update"),
        Door!Patch(<<":", "restore">>, "restore"), Door!Post(<<"bulk-delete">>, "delete"),
        Door!Post(<<"bulk-restore">>, "restore"), Door!Remove(<<":">>, "delete")>>
  OBVIOUS
<1>2. Door!AppointmentChanges = Door!Under(<<"appointments">>, "APPOINTMENT", d)
  BY <1>1 DEF Door!AppointmentChanges
<1>3. DOMAIN d = 1 .. 6 /\ Said(d[1], "patch", <<":">>) /\ Said(d[2], "patch", <<":", "read">>)
      /\ Said(d[3], "patch", <<":", "restore">>) /\ Said(d[4], "post", <<"bulk-delete">>)
      /\ Said(d[5], "post", <<"bulk-restore">>) /\ Said(d[6], "delete", <<":">>)
  BY <1>1, SaidRoutes, SaidAlso
<1>4. DOMAIN Door!AppointmentChanges = 1 .. 6
  BY <1>2, <1>3 DEF Door!Under
<1>5. 1 \in DOMAIN d /\ 2 \in DOMAIN d /\ 3 \in DOMAIN d /\ 4 \in DOMAIN d /\ 5 \in DOMAIN d /\ 6 \in DOMAIN d
  BY <1>3
<1>6. QED  BY <1>2, <1>3, <1>4, <1>5, ShapeUnder, Zenon

LEMMA PublicAppointmentRoutesTable ==
  /\ DOMAIN Door!PublicAppointmentRoutes = 1 .. 1
  /\ Shape(Door!PublicAppointmentRoutes[1], "post", "public", "appointments", "-", "-")
<1>1. PICK d : d = <<
        Door!Post(<<>>, "visitor")>>
  OBVIOUS
<1>2. Door!PublicAppointmentRoutes = Door!Under(<<"public", "appointments">>, "", d)
  BY <1>1 DEF Door!PublicAppointmentRoutes
<1>3. DOMAIN d = 1 .. 1 /\ Said(d[1], "post", <<>>)
  BY <1>1, SaidRoutes, SaidAlso
<1>4. DOMAIN Door!PublicAppointmentRoutes = 1 .. 1
  BY <1>2, <1>3 DEF Door!Under
<1>5. 1 \in DOMAIN d
  BY <1>3
<1>6. QED  BY <1>2, <1>3, <1>4, <1>5, ShapeUnder, Zenon

LEMMA ContactListsTable ==
  /\ DOMAIN Door!ContactLists = 1 .. 2
  /\ Shape(Door!ContactLists[1], "post", "contact-support", "-", "-", "-")
  /\ Shape(Door!ContactLists[2], "get", "contact-support", "-", "-", "-")
<1>1. PICK d : d = <<
        Door!Post(<<>>, "create"), Door!Also(Door!Get(<<>>, "read"), "restore")>>
  OBVIOUS
<1>2. Door!ContactLists = Door!Under(<<"contact-support">>, "CONTACT", d)
  BY <1>1 DEF Door!ContactLists
<1>3. DOMAIN d = 1 .. 2 /\ Said(d[1], "post", <<>>) /\ Said(d[2], "get", <<>>)
  BY <1>1, SaidRoutes, SaidAlso
<1>4. DOMAIN Door!ContactLists = 1 .. 2
  BY <1>2, <1>3 DEF Door!Under
<1>5. 1 \in DOMAIN d /\ 2 \in DOMAIN d
  BY <1>3
<1>6. QED  BY <1>2, <1>3, <1>4, <1>5, ShapeUnder, Zenon

LEMMA ContactReadingTable ==
  /\ DOMAIN Door!ContactReading = 1 .. 2
  /\ Shape(Door!ContactReading[1], "get", "contact-support", "export", "-", "-")
  /\ Shape(Door!ContactReading[2], "get", "contact-support", ":", "-", "-")
<1>1. PICK d : d = <<
        Door!Also(Door!Get(<<"export">>, "read"), "restore"), Door!Also(Door!Get(<<":">>, "read"), "restore")>>
  OBVIOUS
<1>2. Door!ContactReading = Door!Under(<<"contact-support">>, "CONTACT", d)
  BY <1>1 DEF Door!ContactReading
<1>3. DOMAIN d = 1 .. 2 /\ Said(d[1], "get", <<"export">>) /\ Said(d[2], "get", <<":">>)
  BY <1>1, SaidRoutes, SaidAlso
<1>4. DOMAIN Door!ContactReading = 1 .. 2
  BY <1>2, <1>3 DEF Door!Under
<1>5. 1 \in DOMAIN d /\ 2 \in DOMAIN d
  BY <1>3
<1>6. QED  BY <1>2, <1>3, <1>4, <1>5, ShapeUnder, Zenon

LEMMA ContactChangesTable ==
  /\ DOMAIN Door!ContactChanges = 1 .. 5
  /\ Shape(Door!ContactChanges[1], "patch", "contact-support", ":", "read", "-")
  /\ Shape(Door!ContactChanges[2], "patch", "contact-support", ":", "restore", "-")
  /\ Shape(Door!ContactChanges[3], "post", "contact-support", "bulk-delete", "-", "-")
  /\ Shape(Door!ContactChanges[4], "post", "contact-support", "bulk-restore", "-", "-")
  /\ Shape(Door!ContactChanges[5], "delete", "contact-support", ":", "-", "-")
<1>1. PICK d : d = <<
        Door!Patch(<<":", "read">>, "update"), Door!Patch(<<":", "restore">>, "restore"),
        Door!Post(<<"bulk-delete">>, "delete"), Door!Post(<<"bulk-restore">>, "restore"),
        Door!Remove(<<":">>, "delete")>>
  OBVIOUS
<1>2. Door!ContactChanges = Door!Under(<<"contact-support">>, "CONTACT", d)
  BY <1>1 DEF Door!ContactChanges
<1>3. DOMAIN d = 1 .. 5 /\ Said(d[1], "patch", <<":", "read">>) /\ Said(d[2], "patch", <<":", "restore">>)
      /\ Said(d[3], "post", <<"bulk-delete">>) /\ Said(d[4], "post", <<"bulk-restore">>)
      /\ Said(d[5], "delete", <<":">>)
  BY <1>1, SaidRoutes, SaidAlso
<1>4. DOMAIN Door!ContactChanges = 1 .. 5
  BY <1>2, <1>3 DEF Door!Under
<1>5. 1 \in DOMAIN d /\ 2 \in DOMAIN d /\ 3 \in DOMAIN d /\ 4 \in DOMAIN d /\ 5 \in DOMAIN d
  BY <1>3
<1>6. QED  BY <1>2, <1>3, <1>4, <1>5, ShapeUnder, Zenon

LEMMA PublicContactRoutesTable ==
  /\ DOMAIN Door!PublicContactRoutes = 1 .. 1
  /\ Shape(Door!PublicContactRoutes[1], "post", "public", "contact-support", "-", "-")
<1>1. PICK d : d = <<
        Door!Post(<<>>, "visitor")>>
  OBVIOUS
<1>2. Door!PublicContactRoutes = Door!Under(<<"public", "contact-support">>, "", d)
  BY <1>1 DEF Door!PublicContactRoutes
<1>3. DOMAIN d = 1 .. 1 /\ Said(d[1], "post", <<>>)
  BY <1>1, SaidRoutes, SaidAlso
<1>4. DOMAIN Door!PublicContactRoutes = 1 .. 1
  BY <1>2, <1>3 DEF Door!Under
<1>5. 1 \in DOMAIN d
  BY <1>3
<1>6. QED  BY <1>2, <1>3, <1>4, <1>5, ShapeUnder, Zenon

LEMMA RoleReadingTable ==
  /\ DOMAIN Door!RoleReading = 1 .. 5
  /\ Shape(Door!RoleReading[1], "post", "roles", "-", "-", "-")
  /\ Shape(Door!RoleReading[2], "get", "roles", "trash", "-", "-")
  /\ Shape(Door!RoleReading[3], "get", "roles", "-", "-", "-")
  /\ Shape(Door!RoleReading[4], "get", "roles", "export", "-", "-")
  /\ Shape(Door!RoleReading[5], "get", "roles", ":", "-", "-")
<1>1. PICK d : d = <<
        Door!Post(<<>>, "create"), Door!Get(<<"trash">>, "restore"),
        Door!Also(Door!Get(<<>>, "read"), "restore"), Door!Also(Door!Get(<<"export">>, "read"), "restore"),
        Door!Get(<<":">>, "read")>>
  OBVIOUS
<1>2. Door!RoleReading = Door!Under(<<"roles">>, "ROLE", d)
  BY <1>1 DEF Door!RoleReading
<1>3. DOMAIN d = 1 .. 5 /\ Said(d[1], "post", <<>>) /\ Said(d[2], "get", <<"trash">>) /\ Said(d[3], "get", <<>>)
      /\ Said(d[4], "get", <<"export">>) /\ Said(d[5], "get", <<":">>)
  BY <1>1, SaidRoutes, SaidAlso
<1>4. DOMAIN Door!RoleReading = 1 .. 5
  BY <1>2, <1>3 DEF Door!Under
<1>5. 1 \in DOMAIN d /\ 2 \in DOMAIN d /\ 3 \in DOMAIN d /\ 4 \in DOMAIN d /\ 5 \in DOMAIN d
  BY <1>3
<1>6. QED  BY <1>2, <1>3, <1>4, <1>5, ShapeUnder, Zenon

LEMMA RoleChangesTable ==
  /\ DOMAIN Door!RoleChanges = 1 .. 7
  /\ Shape(Door!RoleChanges[1], "patch", "roles", ":", "-", "-")
  /\ Shape(Door!RoleChanges[2], "delete", "roles", ":", "-", "-")
  /\ Shape(Door!RoleChanges[3], "post", "roles", ":", "restore", "-")
  /\ Shape(Door!RoleChanges[4], "post", "roles", ":", "permissions", "-")
  /\ Shape(Door!RoleChanges[5], "delete", "roles", ":", "permissions", ":")
  /\ Shape(Door!RoleChanges[6], "post", "roles", "bulk-delete", "-", "-")
  /\ Shape(Door!RoleChanges[7], "post", "roles", "bulk-restore", "-", "-")
<1>1. PICK d : d = <<
        Door!Patch(<<":">>, "update"), Door!Remove(<<":">>, "delete"), Door!Post(<<":", "restore">>, "restore"),
        Door!Post(<<":", "permissions">>, "update"), Door!Remove(<<":", "permissions", ":">>, "update"),
        Door!Post(<<"bulk-delete">>, "delete"), Door!Post(<<"bulk-restore">>, "restore")>>
  OBVIOUS
<1>2. Door!RoleChanges = Door!Under(<<"roles">>, "ROLE", d)
  BY <1>1 DEF Door!RoleChanges
<1>3. DOMAIN d = 1 .. 7 /\ Said(d[1], "patch", <<":">>) /\ Said(d[2], "delete", <<":">>) /\ Said(d[3], "post",
            <<":", "restore">>)
      /\ Said(d[4], "post", <<":", "permissions">>) /\ Said(d[5], "delete", <<":", "permissions", ":">>)
      /\ Said(d[6], "post", <<"bulk-delete">>) /\ Said(d[7], "post", <<"bulk-restore">>)
  BY <1>1, SaidRoutes, SaidAlso
<1>4. DOMAIN Door!RoleChanges = 1 .. 7
  BY <1>2, <1>3 DEF Door!Under
<1>5. 1 \in DOMAIN d /\ 2 \in DOMAIN d /\ 3 \in DOMAIN d /\ 4 \in DOMAIN d /\ 5 \in DOMAIN d /\ 6 \in DOMAIN d /\
            7 \in DOMAIN d
  BY <1>3
<1>6. QED  BY <1>2, <1>3, <1>4, <1>5, ShapeUnder, Zenon

LEMMA PermissionRoutesTable ==
  /\ DOMAIN Door!PermissionRoutes = 1 .. 1
  /\ Shape(Door!PermissionRoutes[1], "get", "permissions", "-", "-", "-")
<1>1. PICK d : d = <<
        Door!Get(<<>>, "read")>>
  OBVIOUS
<1>2. Door!PermissionRoutes = Door!Under(<<"permissions">>, "PERMISSION", d)
  BY <1>1 DEF Door!PermissionRoutes
<1>3. DOMAIN d = 1 .. 1 /\ Said(d[1], "get", <<>>)
  BY <1>1, SaidRoutes, SaidAlso
<1>4. DOMAIN Door!PermissionRoutes = 1 .. 1
  BY <1>2, <1>3 DEF Door!Under
<1>5. 1 \in DOMAIN d
  BY <1>3
<1>6. QED  BY <1>2, <1>3, <1>4, <1>5, ShapeUnder, Zenon

LEMMA UserPermissionRoutesTable ==
  /\ DOMAIN Door!UserPermissionRoutes = 1 .. 3
  /\ Shape(Door!UserPermissionRoutes[1], "get", "users", ":", "permissions", "-")
  /\ Shape(Door!UserPermissionRoutes[2], "post", "users", ":", "permissions", "-")
  /\ Shape(Door!UserPermissionRoutes[3], "delete", "users", ":", "permissions", ":")
<1>1. PICK d : d = <<
        Door!Get(<<>>, "read"), Door!Post(<<>>, "update"), Door!Remove(<<":">>, "update")>>
  OBVIOUS
<1>2. Door!UserPermissionRoutes = Door!Under(<<"users", ":", "permissions">>, "USER", d)
  BY <1>1 DEF Door!UserPermissionRoutes
<1>3. DOMAIN d = 1 .. 3 /\ Said(d[1], "get", <<>>) /\ Said(d[2], "post", <<>>) /\ Said(d[3], "delete", <<":">>)
  BY <1>1, SaidRoutes, SaidAlso
<1>4. DOMAIN Door!UserPermissionRoutes = 1 .. 3
  BY <1>2, <1>3 DEF Door!Under
<1>5. 1 \in DOMAIN d /\ 2 \in DOMAIN d /\ 3 \in DOMAIN d
  BY <1>3
<1>6. QED  BY <1>2, <1>3, <1>4, <1>5, ShapeUnder, Zenon

LEMMA BackupListingTable ==
  /\ DOMAIN Door!BackupListing = 1 .. 3
  /\ Shape(Door!BackupListing[1], "post", "backups", "run", "-", "-")
  /\ Shape(Door!BackupListing[2], "get", "backups", "-", "-", "-")
  /\ Shape(Door!BackupListing[3], "get", "backups", "export", "-", "-")
<1>1. PICK d : d = <<
        Door!Post(<<"run">>, "create"), Door!Get(<<>>, "read"), Door!Get(<<"export">>, "read")>>
  OBVIOUS
<1>2. Door!BackupListing = Door!Under(<<"backups">>, "DATABASE_BACKUP", d)
  BY <1>1 DEF Door!BackupListing
<1>3. DOMAIN d = 1 .. 3 /\ Said(d[1], "post", <<"run">>) /\ Said(d[2], "get", <<>>) /\ Said(d[3], "get", <<"export">>)
  BY <1>1, SaidRoutes, SaidAlso
<1>4. DOMAIN Door!BackupListing = 1 .. 3
  BY <1>2, <1>3 DEF Door!Under
<1>5. 1 \in DOMAIN d /\ 2 \in DOMAIN d /\ 3 \in DOMAIN d
  BY <1>3
<1>6. QED  BY <1>2, <1>3, <1>4, <1>5, ShapeUnder, Zenon

LEMMA BackupFilesTable ==
  /\ DOMAIN Door!BackupFiles = 1 .. 3
  /\ Shape(Door!BackupFiles[1], "get", "backups", ":", "download", "-")
  /\ Shape(Door!BackupFiles[2], "get", "backups", ":", "-", "-")
  /\ Shape(Door!BackupFiles[3], "delete", "backups", ":", "-", "-")
<1>1. PICK d : d = <<
        Door!Get(<<":", "download">>, "read"), Door!Get(<<":">>, "read"), Door!Remove(<<":">>, "delete")>>
  OBVIOUS
<1>2. Door!BackupFiles = Door!Under(<<"backups">>, "DATABASE_BACKUP", d)
  BY <1>1 DEF Door!BackupFiles
<1>3. DOMAIN d = 1 .. 3 /\ Said(d[1], "get", <<":", "download">>) /\ Said(d[2], "get", <<":">>) /\ Said(d[3],
            "delete", <<":">>)
  BY <1>1, SaidRoutes, SaidAlso
<1>4. DOMAIN Door!BackupFiles = 1 .. 3
  BY <1>2, <1>3 DEF Door!Under
<1>5. 1 \in DOMAIN d /\ 2 \in DOMAIN d /\ 3 \in DOMAIN d
  BY <1>3
<1>6. QED  BY <1>2, <1>3, <1>4, <1>5, ShapeUnder, Zenon

LEMMA PostWritingTable ==
  /\ DOMAIN Door!PostWriting = 1 .. 2
  /\ Shape(Door!PostWriting[1], "post", "posts", "-", "-", "-")
  /\ Shape(Door!PostWriting[2], "post", "posts", "ai", "generate-preview", "-")
<1>1. PICK d : d = <<
        Door!Post(<<>>, "create"), Door!Post(<<"ai", "generate-preview">>, "create")>>
  OBVIOUS
<1>2. Door!PostWriting = Door!Under(<<"posts">>, "CONTENT", d)
  BY <1>1 DEF Door!PostWriting
<1>3. DOMAIN d = 1 .. 2 /\ Said(d[1], "post", <<>>) /\ Said(d[2], "post", <<"ai", "generate-preview">>)
  BY <1>1, SaidRoutes, SaidAlso
<1>4. DOMAIN Door!PostWriting = 1 .. 2
  BY <1>2, <1>3 DEF Door!Under
<1>5. 1 \in DOMAIN d /\ 2 \in DOMAIN d
  BY <1>3
<1>6. QED  BY <1>2, <1>3, <1>4, <1>5, ShapeUnder, Zenon

LEMMA SocialIdeasTable ==
  /\ DOMAIN Door!SocialIdeas = 1 .. 3
  /\ Shape(Door!SocialIdeas[1], "post", "posts", "social", "generate-ideas", "-")
  /\ Shape(Door!SocialIdeas[2], "post", "posts", "social", "generate-post", "-")
  /\ Shape(Door!SocialIdeas[3], "post", "posts", "social", ":", "download-zip")
<1>1. PICK d : d = <<
        Door!Post(<<"generate-ideas">>, "create"), Door!Post(<<"generate-post">>, "create"),
        Door!Ask(<<":", "download-zip">>, "read")>>
  OBVIOUS
<1>2. Door!SocialIdeas = Door!Under(<<"posts", "social">>, "CONTENT", d)
  BY <1>1 DEF Door!SocialIdeas
<1>3. DOMAIN d = 1 .. 3 /\ Said(d[1], "post", <<"generate-ideas">>) /\ Said(d[2], "post", <<"generate-post">>)
      /\ Said(d[3], "post", <<":", "download-zip">>)
  BY <1>1, SaidRoutes, SaidAlso
<1>4. DOMAIN Door!SocialIdeas = 1 .. 3
  BY <1>2, <1>3 DEF Door!Under
<1>5. 1 \in DOMAIN d /\ 2 \in DOMAIN d /\ 3 \in DOMAIN d
  BY <1>3
<1>6. QED  BY <1>2, <1>3, <1>4, <1>5, ShapeUnder, Zenon

LEMMA PostReadingTable ==
  /\ DOMAIN Door!PostReading = 1 .. 2
  /\ Shape(Door!PostReading[1], "get", "posts", "-", "-", "-")
  /\ Shape(Door!PostReading[2], "get", "posts", "export", "-", "-")
<1>1. PICK d : d = <<
        Door!Also(Door!Get(<<>>, "read"), "restore"), Door!Also(Door!Get(<<"export">>, "read"), "restore")>>
  OBVIOUS
<1>2. Door!PostReading = Door!Under(<<"posts">>, "CONTENT", d)
  BY <1>1 DEF Door!PostReading
<1>3. DOMAIN d = 1 .. 2 /\ Said(d[1], "get", <<>>) /\ Said(d[2], "get", <<"export">>)
  BY <1>1, SaidRoutes, SaidAlso
<1>4. DOMAIN Door!PostReading = 1 .. 2
  BY <1>2, <1>3 DEF Door!Under
<1>5. 1 \in DOMAIN d /\ 2 \in DOMAIN d
  BY <1>3
<1>6. QED  BY <1>2, <1>3, <1>4, <1>5, ShapeUnder, Zenon

LEMMA PostChangesTable ==
  /\ DOMAIN Door!PostChanges = 1 .. 6
  /\ Shape(Door!PostChanges[1], "get", "posts", ":", "-", "-")
  /\ Shape(Door!PostChanges[2], "patch", "posts", ":", "-", "-")
  /\ Shape(Door!PostChanges[3], "patch", "posts", ":", "restore", "-")
  /\ Shape(Door!PostChanges[4], "post", "posts", "bulk-delete", "-", "-")
  /\ Shape(Door!PostChanges[5], "post", "posts", "bulk-restore", "-", "-")
  /\ Shape(Door!PostChanges[6], "delete", "posts", ":", "-", "-")
<1>1. PICK d : d = <<
        Door!Get(<<":">>, "read"), Door!Patch(<<":">>, "update"), Door!Patch(<<":", "restore">>, "restore"),
        Door!Post(<<"bulk-delete">>, "delete"), Door!Post(<<"bulk-restore">>, "restore"),
        Door!Remove(<<":">>, "delete")>>
  OBVIOUS
<1>2. Door!PostChanges = Door!Under(<<"posts">>, "CONTENT", d)
  BY <1>1 DEF Door!PostChanges
<1>3. DOMAIN d = 1 .. 6 /\ Said(d[1], "get", <<":">>) /\ Said(d[2], "patch", <<":">>) /\ Said(d[3], "patch", <<":",
            "restore">>)
      /\ Said(d[4], "post", <<"bulk-delete">>) /\ Said(d[5], "post", <<"bulk-restore">>)
      /\ Said(d[6], "delete", <<":">>)
  BY <1>1, SaidRoutes, SaidAlso
<1>4. DOMAIN Door!PostChanges = 1 .. 6
  BY <1>2, <1>3 DEF Door!Under
<1>5. 1 \in DOMAIN d /\ 2 \in DOMAIN d /\ 3 \in DOMAIN d /\ 4 \in DOMAIN d /\ 5 \in DOMAIN d /\ 6 \in DOMAIN d
  BY <1>3
<1>6. QED  BY <1>2, <1>3, <1>4, <1>5, ShapeUnder, Zenon

LEMMA SocialMediaGenerationTable ==
  /\ DOMAIN Door!SocialMediaGeneration = 1 .. 4
  /\ Shape(Door!SocialMediaGeneration[1], "post", "social-media", "generate-topics", "-", "-")
  /\ Shape(Door!SocialMediaGeneration[2], "post", "social-media", "generate-content", "-", "-")
  /\ Shape(Door!SocialMediaGeneration[3], "get", "social-media", "-", "-", "-")
  /\ Shape(Door!SocialMediaGeneration[4], "get", "social-media", ":", "-", "-")
<1>1. PICK d : d = <<
        Door!Ask(<<"generate-topics">>, "create"), Door!Post(<<"generate-content">>, "create"),
        Door!Get(<<>>, "read"), Door!Get(<<":">>, "read")>>
  OBVIOUS
<1>2. Door!SocialMediaGeneration = Door!Under(<<"social-media">>, "SOCIAL_MEDIA", d)
  BY <1>1 DEF Door!SocialMediaGeneration
<1>3. DOMAIN d = 1 .. 4 /\ Said(d[1], "post", <<"generate-topics">>) /\ Said(d[2], "post", <<"generate-content">>)
      /\ Said(d[3], "get", <<>>) /\ Said(d[4], "get", <<":">>)
  BY <1>1, SaidRoutes, SaidAlso
<1>4. DOMAIN Door!SocialMediaGeneration = 1 .. 4
  BY <1>2, <1>3 DEF Door!Under
<1>5. 1 \in DOMAIN d /\ 2 \in DOMAIN d /\ 3 \in DOMAIN d /\ 4 \in DOMAIN d
  BY <1>3
<1>6. QED  BY <1>2, <1>3, <1>4, <1>5, ShapeUnder, Zenon

LEMMA SocialMediaChangesTable ==
  /\ DOMAIN Door!SocialMediaChanges = 1 .. 4
  /\ Shape(Door!SocialMediaChanges[1], "delete", "social-media", ":", "-", "-")
  /\ Shape(Door!SocialMediaChanges[2], "post", "social-media", "bulk-delete", "-", "-")
  /\ Shape(Door!SocialMediaChanges[3], "post", "social-media", "export", "-", "-")
  /\ Shape(Door!SocialMediaChanges[4], "post", "social-media", ":", "download-zip", "-")
<1>1. PICK d : d = <<
        Door!Remove(<<":">>, "delete"), Door!Post(<<"bulk-delete">>, "delete"), Door!Ask(<<"export">>, "export"),
        Door!Ask(<<":", "download-zip">>, "read")>>
  OBVIOUS
<1>2. Door!SocialMediaChanges = Door!Under(<<"social-media">>, "SOCIAL_MEDIA", d)
  BY <1>1 DEF Door!SocialMediaChanges
<1>3. DOMAIN d = 1 .. 4 /\ Said(d[1], "delete", <<":">>) /\ Said(d[2], "post", <<"bulk-delete">>)
      /\ Said(d[3], "post", <<"export">>) /\ Said(d[4], "post", <<":", "download-zip">>)
  BY <1>1, SaidRoutes, SaidAlso
<1>4. DOMAIN Door!SocialMediaChanges = 1 .. 4
  BY <1>2, <1>3 DEF Door!Under
<1>5. 1 \in DOMAIN d /\ 2 \in DOMAIN d /\ 3 \in DOMAIN d /\ 4 \in DOMAIN d
  BY <1>3
<1>6. QED  BY <1>2, <1>3, <1>4, <1>5, ShapeUnder, Zenon

LEMMA CampaignRequestsTable ==
  /\ DOMAIN Door!CampaignRequests = 1 .. 3
  /\ Shape(Door!CampaignRequests[1], "post", "campaigns", "generate-topics", "-", "-")
  /\ Shape(Door!CampaignRequests[2], "post", "campaigns", "generate-campaign", "-", "-")
  /\ Shape(Door!CampaignRequests[3], "post", "campaigns", "export", "-", "-")
<1>1. PICK d : d = <<
        Door!Ask(<<"generate-topics">>, "export"), Door!Post(<<"generate-campaign">>, "export"),
        Door!Post(<<"export">>, "export")>>
  OBVIOUS
<1>2. Door!CampaignRequests = Door!Under(<<"campaigns">>, "CAMPAIGN", d)
  BY <1>1 DEF Door!CampaignRequests
<1>3. DOMAIN d = 1 .. 3 /\ Said(d[1], "post", <<"generate-topics">>) /\ Said(d[2], "post", <<"generate-campaign">>)
      /\ Said(d[3], "post", <<"export">>)
  BY <1>1, SaidRoutes, SaidAlso
<1>4. DOMAIN Door!CampaignRequests = 1 .. 3
  BY <1>2, <1>3 DEF Door!Under
<1>5. 1 \in DOMAIN d /\ 2 \in DOMAIN d /\ 3 \in DOMAIN d
  BY <1>3
<1>6. QED  BY <1>2, <1>3, <1>4, <1>5, ShapeUnder, Zenon

LEMMA CampaignReadingTable ==
  /\ DOMAIN Door!CampaignReading = 1 .. 4
  /\ Shape(Door!CampaignReading[1], "get", "campaigns", "export", ":", "-")
  /\ Shape(Door!CampaignReading[2], "get", "campaigns", "exports", "-", "-")
  /\ Shape(Door!CampaignReading[3], "post", "campaigns", "exports", "export", "-")
  /\ Shape(Door!CampaignReading[4], "get", "campaigns", "-", "-", "-")
<1>1. PICK d : d = <<
        Door!Get(<<"export", ":">>, "read"), Door!Get(<<"exports">>, "read"),
        Door!Ask(<<"exports", "export">>, "export"), Door!Get(<<>>, "read")>>
  OBVIOUS
<1>2. Door!CampaignReading = Door!Under(<<"campaigns">>, "CAMPAIGN", d)
  BY <1>1 DEF Door!CampaignReading
<1>3. DOMAIN d = 1 .. 4 /\ Said(d[1], "get", <<"export", ":">>) /\ Said(d[2], "get", <<"exports">>)
      /\ Said(d[3], "post", <<"exports", "export">>) /\ Said(d[4], "get", <<>>)
  BY <1>1, SaidRoutes, SaidAlso
<1>4. DOMAIN Door!CampaignReading = 1 .. 4
  BY <1>2, <1>3 DEF Door!Under
<1>5. 1 \in DOMAIN d /\ 2 \in DOMAIN d /\ 3 \in DOMAIN d /\ 4 \in DOMAIN d
  BY <1>3
<1>6. QED  BY <1>2, <1>3, <1>4, <1>5, ShapeUnder, Zenon

LEMMA CampaignChangesTable ==
  /\ DOMAIN Door!CampaignChanges = 1 .. 3
  /\ Shape(Door!CampaignChanges[1], "get", "campaigns", ":", "-", "-")
  /\ Shape(Door!CampaignChanges[2], "delete", "campaigns", ":", "-", "-")
  /\ Shape(Door!CampaignChanges[3], "post", "campaigns", "bulk-delete", "-", "-")
<1>1. PICK d : d = <<
        Door!Get(<<":">>, "read"), Door!Remove(<<":">>, "delete"), Door!Post(<<"bulk-delete">>, "delete")>>
  OBVIOUS
<1>2. Door!CampaignChanges = Door!Under(<<"campaigns">>, "CAMPAIGN", d)
  BY <1>1 DEF Door!CampaignChanges
<1>3. DOMAIN d = 1 .. 3 /\ Said(d[1], "get", <<":">>) /\ Said(d[2], "delete", <<":">>) /\ Said(d[3], "post",
            <<"bulk-delete">>)
  BY <1>1, SaidRoutes, SaidAlso
<1>4. DOMAIN Door!CampaignChanges = 1 .. 3
  BY <1>2, <1>3 DEF Door!Under
<1>5. 1 \in DOMAIN d /\ 2 \in DOMAIN d /\ 3 \in DOMAIN d
  BY <1>3
<1>6. QED  BY <1>2, <1>3, <1>4, <1>5, ShapeUnder, Zenon

LEMMA ActivityLogRoutesTable ==
  /\ DOMAIN Door!ActivityLogRoutes = 1 .. 3
  /\ Shape(Door!ActivityLogRoutes[1], "get", "activity-logs", "-", "-", "-")
  /\ Shape(Door!ActivityLogRoutes[2], "get", "activity-logs", ":", "-", "-")
  /\ Shape(Door!ActivityLogRoutes[3], "delete", "activity-logs", ":", "-", "-")
<1>1. PICK d : d = <<
        Door!Get(<<>>, "manage"), Door!Get(<<":">>, "manage"), Door!Remove(<<":">>, "manage")>>
  OBVIOUS
<1>2. Door!ActivityLogRoutes = Door!Under(<<"activity-logs">>, "ACTIVITY_LOG", d)
  BY <1>1 DEF Door!ActivityLogRoutes
<1>3. DOMAIN d = 1 .. 3 /\ Said(d[1], "get", <<>>) /\ Said(d[2], "get", <<":">>) /\ Said(d[3], "delete", <<":">>)
  BY <1>1, SaidRoutes, SaidAlso
<1>4. DOMAIN Door!ActivityLogRoutes = 1 .. 3
  BY <1>2, <1>3 DEF Door!Under
<1>5. 1 \in DOMAIN d /\ 2 \in DOMAIN d /\ 3 \in DOMAIN d
  BY <1>3
<1>6. QED  BY <1>2, <1>3, <1>4, <1>5, ShapeUnder, Zenon

LEMMA CallReadingTable ==
  /\ DOMAIN Door!CallReading = 1 .. 2
  /\ Shape(Door!CallReading[1], "get", "retell", "calls", "-", "-")
  /\ Shape(Door!CallReading[2], "get", "retell", "calls", "export", "-")
<1>1. PICK d : d = <<
        Door!Also(Door!Get(<<>>, "read"), "restore"), Door!Also(Door!Get(<<"export">>, "export"), "restore")>>
  OBVIOUS
<1>2. Door!CallReading = Door!Under(<<"retell", "calls">>, "CALL_RECORD", d)
  BY <1>1 DEF Door!CallReading
<1>3. DOMAIN d = 1 .. 2 /\ Said(d[1], "get", <<>>) /\ Said(d[2], "get", <<"export">>)
  BY <1>1, SaidRoutes, SaidAlso
<1>4. DOMAIN Door!CallReading = 1 .. 2
  BY <1>2, <1>3 DEF Door!Under
<1>5. 1 \in DOMAIN d /\ 2 \in DOMAIN d
  BY <1>3
<1>6. QED  BY <1>2, <1>3, <1>4, <1>5, ShapeUnder, Zenon

LEMMA CallChangesTable ==
  /\ DOMAIN Door!CallChanges = 1 .. 7
  /\ Shape(Door!CallChanges[1], "post", "retell", "calls", "sync", "-")
  /\ Shape(Door!CallChanges[2], "post", "retell", "calls", "bulk-delete", "-")
  /\ Shape(Door!CallChanges[3], "post", "retell", "calls", "bulk-restore", "-")
  /\ Shape(Door!CallChanges[4], "get", "retell", "calls", ":", "-")
  /\ Shape(Door!CallChanges[5], "patch", "retell", "calls", ":", "read")
  /\ Shape(Door!CallChanges[6], "post", "retell", "calls", ":", "restore")
  /\ Shape(Door!CallChanges[7], "delete", "retell", "calls", ":", "-")
<1>1. PICK d : d = <<
        Door!Post(<<"sync">>, "update"), Door!Post(<<"bulk-delete">>, "delete"),
        Door!Post(<<"bulk-restore">>, "restore"), Door!Get(<<":">>, "read"),
        Door!Patch(<<":", "read">>, "update"), Door!Post(<<":", "restore">>, "restore"),
        Door!Remove(<<":">>, "delete")>>
  OBVIOUS
<1>2. Door!CallChanges = Door!Under(<<"retell", "calls">>, "CALL_RECORD", d)
  BY <1>1 DEF Door!CallChanges
<1>3. DOMAIN d = 1 .. 7 /\ Said(d[1], "post", <<"sync">>) /\ Said(d[2], "post", <<"bulk-delete">>)
      /\ Said(d[3], "post", <<"bulk-restore">>) /\ Said(d[4], "get", <<":">>)
      /\ Said(d[5], "patch", <<":", "read">>) /\ Said(d[6], "post", <<":", "restore">>)
      /\ Said(d[7], "delete", <<":">>)
  BY <1>1, SaidRoutes, SaidAlso
<1>4. DOMAIN Door!CallChanges = 1 .. 7
  BY <1>2, <1>3 DEF Door!Under
<1>5. 1 \in DOMAIN d /\ 2 \in DOMAIN d /\ 3 \in DOMAIN d /\ 4 \in DOMAIN d /\ 5 \in DOMAIN d /\ 6 \in DOMAIN d /\
            7 \in DOMAIN d
  BY <1>3
<1>6. QED  BY <1>2, <1>3, <1>4, <1>5, ShapeUnder, Zenon

LEMMA RetellWebhookRoutesTable ==
  /\ DOMAIN Door!RetellWebhookRoutes = 1 .. 1
  /\ Shape(Door!RetellWebhookRoutes[1], "post", "retell", "webhook", "-", "-")
<1>1. PICK d : d = <<
        Door!Post(<<>>, "visitor")>>
  OBVIOUS
<1>2. Door!RetellWebhookRoutes = Door!Under(<<"retell", "webhook">>, "", d)
  BY <1>1 DEF Door!RetellWebhookRoutes
<1>3. DOMAIN d = 1 .. 1 /\ Said(d[1], "post", <<>>)
  BY <1>1, SaidRoutes, SaidAlso
<1>4. DOMAIN Door!RetellWebhookRoutes = 1 .. 1
  BY <1>2, <1>3 DEF Door!Under
<1>5. 1 \in DOMAIN d
  BY <1>3
<1>6. QED  BY <1>2, <1>3, <1>4, <1>5, ShapeUnder, Zenon

LEMMA AvailabilityRuleRoutesTable ==
  /\ DOMAIN Door!AvailabilityRuleRoutes = 1 .. 2
  /\ Shape(Door!AvailabilityRuleRoutes[1], "get", "availability", "rules", "-", "-")
  /\ Shape(Door!AvailabilityRuleRoutes[2], "put", "availability", "rules", ":", "-")
<1>1. PICK d : d = <<
        Door!Get(<<"rules">>, "read"), Door!Put(<<"rules", ":">>, "update")>>
  OBVIOUS
<1>2. Door!AvailabilityRuleRoutes = Door!Under(<<"availability">>, "AVAILABILITY_RULE", d)
  BY <1>1 DEF Door!AvailabilityRuleRoutes
<1>3. DOMAIN d = 1 .. 2 /\ Said(d[1], "get", <<"rules">>) /\ Said(d[2], "put", <<"rules", ":">>)
  BY <1>1, SaidRoutes, SaidAlso
<1>4. DOMAIN Door!AvailabilityRuleRoutes = 1 .. 2
  BY <1>2, <1>3 DEF Door!Under
<1>5. 1 \in DOMAIN d /\ 2 \in DOMAIN d
  BY <1>3
<1>6. QED  BY <1>2, <1>3, <1>4, <1>5, ShapeUnder, Zenon

LEMMA AvailabilityExceptionRoutesTable ==
  /\ DOMAIN Door!AvailabilityExceptionRoutes = 1 .. 7
  /\ Shape(Door!AvailabilityExceptionRoutes[1], "get", "availability", "exceptions", "trash", "-")
  /\ Shape(Door!AvailabilityExceptionRoutes[2], "get", "availability", "exceptions", "export", "-")
  /\ Shape(Door!AvailabilityExceptionRoutes[3], "get", "availability", "exceptions", "-", "-")
  /\ Shape(Door!AvailabilityExceptionRoutes[4], "post", "availability", "exceptions", "-", "-")
  /\ Shape(Door!AvailabilityExceptionRoutes[5], "patch", "availability", "exceptions", ":", "-")
  /\ Shape(Door!AvailabilityExceptionRoutes[6], "delete", "availability", "exceptions", ":", "-")
  /\ Shape(Door!AvailabilityExceptionRoutes[7], "post", "availability", "exceptions", ":", "restore")
<1>1. PICK d : d = <<
        Door!Get(<<"trash">>, "restore"), Door!Get(<<"export">>, "export"), Door!Get(<<>>, "read"),
        Door!Post(<<>>, "create"), Door!Patch(<<":">>, "update"), Door!Remove(<<":">>, "delete"),
        Door!Post(<<":", "restore">>, "restore")>>
  OBVIOUS
<1>2. Door!AvailabilityExceptionRoutes = Door!Under(<<"availability", "exceptions">>, "AVAILABILITY_EXCEPTION", d)
  BY <1>1 DEF Door!AvailabilityExceptionRoutes
<1>3. DOMAIN d = 1 .. 7 /\ Said(d[1], "get", <<"trash">>) /\ Said(d[2], "get", <<"export">>) /\ Said(d[3], "get",
            <<>>)
      /\ Said(d[4], "post", <<>>) /\ Said(d[5], "patch", <<":">>) /\ Said(d[6], "delete", <<":">>)
      /\ Said(d[7], "post", <<":", "restore">>)
  BY <1>1, SaidRoutes, SaidAlso
<1>4. DOMAIN Door!AvailabilityExceptionRoutes = 1 .. 7
  BY <1>2, <1>3 DEF Door!Under
<1>5. 1 \in DOMAIN d /\ 2 \in DOMAIN d /\ 3 \in DOMAIN d /\ 4 \in DOMAIN d /\ 5 \in DOMAIN d /\ 6 \in DOMAIN d /\
            7 \in DOMAIN d
  BY <1>3
<1>6. QED  BY <1>2, <1>3, <1>4, <1>5, ShapeUnder, Zenon

LEMMA PublicAvailabilityRoutesTable ==
  /\ DOMAIN Door!PublicAvailabilityRoutes = 1 .. 2
  /\ Shape(Door!PublicAvailabilityRoutes[1], "get", "public", "availability", "calendar", "-")
  /\ Shape(Door!PublicAvailabilityRoutes[2], "get", "public", "availability", "time-slots", "-")
<1>1. PICK d : d = <<
        Door!Get(<<"calendar">>, "visitor"), Door!Get(<<"time-slots">>, "visitor")>>
  OBVIOUS
<1>2. Door!PublicAvailabilityRoutes = Door!Under(<<"public", "availability">>, "", d)
  BY <1>1 DEF Door!PublicAvailabilityRoutes
<1>3. DOMAIN d = 1 .. 2 /\ Said(d[1], "get", <<"calendar">>) /\ Said(d[2], "get", <<"time-slots">>)
  BY <1>1, SaidRoutes, SaidAlso
<1>4. DOMAIN Door!PublicAvailabilityRoutes = 1 .. 2
  BY <1>2, <1>3 DEF Door!Under
<1>5. 1 \in DOMAIN d /\ 2 \in DOMAIN d
  BY <1>3
<1>6. QED  BY <1>2, <1>3, <1>4, <1>5, ShapeUnder, Zenon

LEMMA AppRoutesTable ==
  /\ DOMAIN Door!AppRoutes = 1 .. 1
  /\ Shape(Door!AppRoutes[1], "get", "-", "-", "-", "-")
<1>1. PICK d : d = <<
        Door!Get(<<>>, "visitor")>>
  OBVIOUS
<1>2. Door!AppRoutes = Door!Under(<<>>, "", d)
  BY <1>1 DEF Door!AppRoutes
<1>3. DOMAIN d = 1 .. 1 /\ Said(d[1], "get", <<>>)
  BY <1>1, SaidRoutes, SaidAlso
<1>4. DOMAIN Door!AppRoutes = 1 .. 1
  BY <1>2, <1>3 DEF Door!Under
<1>5. 1 \in DOMAIN d
  BY <1>3
<1>6. QED  BY <1>2, <1>3, <1>4, <1>5, ShapeUnder, Zenon

\* What a request for s may look like to r: the router takes r for it only if they clash.
Fit(a, b) == a = b \/ (a = ":" /\ b # "-")
Clash(r, s) == /\ r.verb = s.verb /\ Fit(Seg(r, 1), Seg(s, 1)) /\ Fit(Seg(r, 2), Seg(s, 2))
               /\ Fit(Seg(r, 3), Seg(s, 3)) /\ Fit(Seg(r, 4), Seg(s, 4))

LEMMA TakesClash ==
  ASSUME NEW r \in RouteType, NEW s \in RouteType, Takes(r, s)
  PROVE  Clash(r, s)
BY TakenFits DEF Fit, Clash

\* The controllers by the words that their paths begin with, in the order of their registration.
Area(r) ==
  CASE Seg(r, 1) = "health" -> 1
    [] Seg(r, 1) = "auth" -> 2
    [] Seg(r, 1) = "company-data" -> 3
    [] Seg(r, 1) = "blog-categories" -> 4
    [] Seg(r, 1) = "users" /\ Seg(r, 3) \in {"-", "email", "username"} -> 5
    [] Seg(r, 1) = "appointments" -> 6
    [] Seg(r, 1) = "public" /\ Seg(r, 2) = "appointments" -> 7
    [] Seg(r, 1) = "contact-support" -> 8
    [] Seg(r, 1) = "public" /\ Seg(r, 2) = "contact-support" -> 9
    [] Seg(r, 1) = "roles" -> 10
    [] Seg(r, 1) = "permissions" -> 11
    [] Seg(r, 1) = "users" /\ Seg(r, 3) = "permissions" -> 12
    [] Seg(r, 1) = "backups" -> 13
    [] Seg(r, 1) = "posts" -> 14
    [] Seg(r, 1) = "social-media" -> 15
    [] Seg(r, 1) = "campaigns" -> 16
    [] Seg(r, 1) = "activity-logs" -> 17
    [] Seg(r, 1) = "retell" -> 18
    [] Seg(r, 1) = "availability" -> 19
    [] Seg(r, 1) = "public" /\ Seg(r, 2) = "availability" -> 20
    [] Seg(r, 1) = "-" -> 21
    [] OTHER -> 0

LEMMA ClashesAreNear ==
  ASSUME NEW r, NEW s, Clash(r, s), Area(r) # 0
  PROVE  Area(s) = Area(r)
BY DEF Clash, Fit, Area

\* No route of s clashes with a later one of s; nor one of s with one of t.
Ordered(s)  == \A i, j \in DOMAIN s : i < j => ~Clash(s[i], s[j])
Quiet(s, t) == \A i \in DOMAIN s, j \in DOMAIN t : ~Clash(s[i], t[j])

\* Such routes of one area, and of all areas up to one.
Block(s, g) == s \in Seq(Good) /\ Ordered(s) /\ \A i \in DOMAIN s : Area(s[i]) = g
Upto(s, g)  == s \in Seq(Good) /\ Ordered(s) /\ \A i \in DOMAIN s : Area(s[i]) \in 1 .. g

LEMMA OrderedJoins ==
  ASSUME NEW s \in Seq(Good), NEW t \in Seq(Good), Ordered(s), Ordered(t), Quiet(s, t)
  PROVE  Ordered(s \o t)
<1>1. PICK m \in Nat, n \in Nat : m = Len(s) /\ n = Len(t)
  OBVIOUS
<1>2. PICK u : u = s \o t
  OBVIOUS
<1>3. DOMAIN u = 1 .. m + n /\ DOMAIN s = 1 .. m /\ DOMAIN t = 1 .. n
  BY <1>1, <1>2
<1>4. (\A i \in 1 .. m : u[i] = s[i]) /\ (\A i \in m + 1 .. m + n : u[i] = t[i - m] /\ i - m \in 1 .. n)
  BY <1>1, <1>2
<1>5. ASSUME NEW i \in 1 .. m + n, NEW j \in 1 .. m + n, i < j
      PROVE  ~Clash(u[i], u[j])
  <2>1. CASE i \in 1 .. m /\ j \in 1 .. m
    BY <1>3, <1>4, <1>5, <2>1 DEF Ordered
  <2>2. CASE i \in 1 .. m /\ j \in m + 1 .. m + n
    BY <1>3, <1>4, <1>5, <2>2 DEF Quiet
  <2>3. CASE i \in m + 1 .. m + n /\ j \in m + 1 .. m + n
    <3>1. i - m \in 1 .. n /\ j - m \in 1 .. n /\ i - m < j - m
      BY <1>4, <1>5, <2>3
    <3>2. u[i] = t[i - m] /\ u[j] = t[j - m]
      BY <1>4, <2>3
    <3>3. QED  BY <1>3, <3>1, <3>2 DEF Ordered
  <2>4. QED  BY <1>5, <2>1, <2>2, <2>3
<1>6. QED  BY <1>2, <1>3, <1>5 DEF Ordered

LEMMA PartsOfJoin ==
  ASSUME NEW s \in Seq(Good), NEW t \in Seq(Good), NEW i \in DOMAIN (s \o t)
  PROVE  (\E j \in DOMAIN s : (s \o t)[i] = s[j]) \/ (\E j \in DOMAIN t : (s \o t)[i] = t[j])
<1>1. PICK m \in Nat, n \in Nat : m = Len(s) /\ n = Len(t)
  OBVIOUS
<1>2. DOMAIN (s \o t) = 1 .. m + n /\ DOMAIN s = 1 .. m /\ DOMAIN t = 1 .. n
  BY <1>1
<1>3. (i \in 1 .. m => (s \o t)[i] = s[i]) /\ (i \notin 1 .. m => (s \o t)[i] = t[i - m] /\ i - m \in 1 .. n)
  BY <1>1, <1>2
<1>4. QED  BY <1>2, <1>3

LEMMA BlocksJoin ==
  ASSUME NEW s, NEW t, NEW g, Block(s, g), Block(t, g), Quiet(s, t)
  PROVE  Block(s \o t, g)
<1>1. s \o t \in Seq(Good)
  BY ConcatenationsAreGood DEF Block
<1>2. QED  BY <1>1, OrderedJoins, PartsOfJoin DEF Block

LEMMA QuietJoins ==
  ASSUME NEW s \in Seq(Good), NEW t \in Seq(Good), NEW u, Quiet(s, u), Quiet(t, u)
  PROVE  Quiet(s \o t, u)
BY PartsOfJoin DEF Quiet

LEMMA AreasJoin ==
  ASSUME NEW s, NEW t, NEW f \in Nat, NEW g, g = f + 1, Upto(s, f), Block(t, g)
  PROVE  Upto(s \o t, g)
<1>1. s \o t \in Seq(Good)
  BY ConcatenationsAreGood DEF Block, Upto
<1>2. Quiet(s, t)
  <2>1. ASSUME NEW i \in DOMAIN s, NEW j \in DOMAIN t, Clash(s[i], t[j])
        PROVE  FALSE
    <3>1. Area(s[i]) \in 1 .. f /\ Area(t[j]) = g
      BY DEF Upto, Block
    <3>2. Area(t[j]) = Area(s[i])
      BY <2>1, <3>1, ClashesAreNear
    <3>3. QED  BY <3>1, <3>2
  <2>2. QED  BY <2>1 DEF Quiet
<1>3. Ordered(s \o t)
  BY <1>2, OrderedJoins DEF Block, Upto
<1>4. ASSUME NEW i \in DOMAIN (s \o t)
      PROVE  Area((s \o t)[i]) \in 1 .. g
  <2>1. Area((s \o t)[i]) = g \/ Area((s \o t)[i]) \in 1 .. f
    BY PartsOfJoin DEF Block, Upto
  <2>2. QED  BY <2>1
<1>5. QED  BY <1>1, <1>3, <1>4 DEF Upto

LEMMA AreasOfShapes ==
  ASSUME NEW r, NEW verb, NEW b, NEW c, NEW d
  PROVE  /\ Shape(r, verb, "health", b, c, d) => Area(r) = 1
         /\ Shape(r, verb, "auth", b, c, d) => Area(r) = 2
         /\ Shape(r, verb, "company-data", b, c, d) => Area(r) = 3
         /\ Shape(r, verb, "blog-categories", b, c, d) => Area(r) = 4
         /\ Shape(r, verb, "users", b, "-", d) => Area(r) = 5
         /\ Shape(r, verb, "users", b, "email", d) => Area(r) = 5
         /\ Shape(r, verb, "users", b, "username", d) => Area(r) = 5
         /\ Shape(r, verb, "appointments", b, c, d) => Area(r) = 6
         /\ Shape(r, verb, "public", "appointments", c, d) => Area(r) = 7
         /\ Shape(r, verb, "contact-support", b, c, d) => Area(r) = 8
         /\ Shape(r, verb, "public", "contact-support", c, d) => Area(r) = 9
         /\ Shape(r, verb, "roles", b, c, d) => Area(r) = 10
         /\ Shape(r, verb, "permissions", b, c, d) => Area(r) = 11
         /\ Shape(r, verb, "users", b, "permissions", d) => Area(r) = 12
         /\ Shape(r, verb, "backups", b, c, d) => Area(r) = 13
         /\ Shape(r, verb, "posts", b, c, d) => Area(r) = 14
         /\ Shape(r, verb, "social-media", b, c, d) => Area(r) = 15
         /\ Shape(r, verb, "campaigns", b, c, d) => Area(r) = 16
         /\ Shape(r, verb, "activity-logs", b, c, d) => Area(r) = 17
         /\ Shape(r, verb, "retell", b, c, d) => Area(r) = 18
         /\ Shape(r, verb, "availability", b, c, d) => Area(r) = 19
         /\ Shape(r, verb, "public", "availability", c, d) => Area(r) = 20
         /\ Shape(r, verb, "-", b, c, d) => Area(r) = 21
BY DEF Shape, Area

\* A sequence joined to a block of two is joined to its parts one after the other.
LEMMA JoinsToTwo ==
  ASSUME NEW r \in Seq(Good), NEW s \in Seq(Good), NEW t \in Seq(Good)
  PROVE  r \o (s \o t) = r \o s \o t
BY ConcatAssociative

LEMMA HealthBlock == Block(Door!HealthRoutes, 1)
<1>1. Ordered(Door!HealthRoutes)
  BY HealthRoutesTable DEF Shape, Ordered, Clash, Fit
<1>2. \A i \in DOMAIN Door!HealthRoutes : Area(Door!HealthRoutes[i]) = 1
  BY HealthRoutesTable, AreasOfShapes
<1>3. QED  BY <1>1, <1>2, ControllersAreGood DEF Block

LEMMA AuthBlock == Block(Door!SigningIn \o Door!OwnAccount \o Door!TwoFactorRoutes \o Door!SessionRoutes \o
      Door!SocialAuthRoutes, 2)
<1>1. Block(Door!SigningIn, 2)
  <2>1. Ordered(Door!SigningIn)
    BY SigningInTable DEF Shape, Ordered, Clash, Fit
  <2>2. \A i \in DOMAIN Door!SigningIn : Area(Door!SigningIn[i]) = 2
    BY SigningInTable, AreasOfShapes
  <2>3. QED  BY <2>1, <2>2, ControllersAreGood DEF Block
<1>2. Block(Door!OwnAccount, 2)
  <2>1. Ordered(Door!OwnAccount)
    BY OwnAccountTable DEF Shape, Ordered, Clash, Fit
  <2>2. \A i \in DOMAIN Door!OwnAccount : Area(Door!OwnAccount[i]) = 2
    BY OwnAccountTable, AreasOfShapes
  <2>3. QED  BY <2>1, <2>2, ControllersAreGood DEF Block
<1>3. Block(Door!TwoFactorRoutes, 2)
  <2>1. Ordered(Door!TwoFactorRoutes)
    BY TwoFactorRoutesTable DEF Shape, Ordered, Clash, Fit
  <2>2. \A i \in DOMAIN Door!TwoFactorRoutes : Area(Door!TwoFactorRoutes[i]) = 2
    BY TwoFactorRoutesTable, AreasOfShapes
  <2>3. QED  BY <2>1, <2>2, ControllersAreGood DEF Block
<1>4. Block(Door!SessionRoutes, 2)
  <2>1. Ordered(Door!SessionRoutes)
    BY SessionRoutesTable DEF Shape, Ordered, Clash, Fit
  <2>2. \A i \in DOMAIN Door!SessionRoutes : Area(Door!SessionRoutes[i]) = 2
    BY SessionRoutesTable, AreasOfShapes
  <2>3. QED  BY <2>1, <2>2, ControllersAreGood DEF Block
<1>5. Block(Door!SocialAuthRoutes, 2)
  <2>1. Ordered(Door!SocialAuthRoutes)
    BY SocialAuthRoutesTable DEF Shape, Ordered, Clash, Fit
  <2>2. \A i \in DOMAIN Door!SocialAuthRoutes : Area(Door!SocialAuthRoutes[i]) = 2
    BY SocialAuthRoutesTable, AreasOfShapes
  <2>3. QED  BY <2>1, <2>2, ControllersAreGood DEF Block
<1>6. Quiet(Door!SigningIn, Door!OwnAccount)
  BY SigningInTable, OwnAccountTable DEF Shape, Quiet, Clash, Fit
<1>7. Quiet(Door!SigningIn, Door!TwoFactorRoutes)
  BY SigningInTable, TwoFactorRoutesTable DEF Shape, Quiet, Clash, Fit
<1>8. Quiet(Door!SigningIn, Door!SessionRoutes)
  BY SigningInTable, SessionRoutesTable DEF Shape, Quiet, Clash, Fit
<1>9. Quiet(Door!SigningIn, Door!SocialAuthRoutes)
  BY SigningInTable, SocialAuthRoutesTable DEF Shape, Quiet, Clash, Fit
<1>10. Quiet(Door!OwnAccount, Door!TwoFactorRoutes)
  BY OwnAccountTable, TwoFactorRoutesTable DEF Shape, Quiet, Clash, Fit
<1>11. Quiet(Door!OwnAccount, Door!SessionRoutes)
  BY OwnAccountTable, SessionRoutesTable DEF Shape, Quiet, Clash, Fit
<1>12. Quiet(Door!OwnAccount, Door!SocialAuthRoutes)
  BY OwnAccountTable, SocialAuthRoutesTable DEF Shape, Quiet, Clash, Fit
<1>13. Quiet(Door!TwoFactorRoutes, Door!SessionRoutes)
  BY TwoFactorRoutesTable, SessionRoutesTable DEF Shape, Quiet, Clash, Fit
<1>14. Quiet(Door!TwoFactorRoutes, Door!SocialAuthRoutes)
  BY TwoFactorRoutesTable, SocialAuthRoutesTable DEF Shape, Quiet, Clash, Fit
<1>15. Quiet(Door!SessionRoutes, Door!SocialAuthRoutes)
  BY SessionRoutesTable, SocialAuthRoutesTable DEF Shape, Quiet, Clash, Fit
<1>16. PICK s1 : s1 = Door!SigningIn \o Door!OwnAccount
  OBVIOUS
<1>17. Block(s1, 2)
  BY <1>16, <1>1, <1>2, <1>6, BlocksJoin
<1>18. Quiet(s1, Door!TwoFactorRoutes) /\ Quiet(s1, Door!SessionRoutes) /\ Quiet(s1, Door!SocialAuthRoutes)
  BY <1>16, <1>1, <1>2, <1>7, <1>10, <1>8, <1>11, <1>9, <1>12, QuietJoins DEF Block
<1>19. PICK s2 : s2 = s1 \o Door!TwoFactorRoutes
  OBVIOUS
<1>20. Block(s2, 2)
  BY <1>19, <1>17, <1>3, <1>18, BlocksJoin
<1>21. Quiet(s2, Door!SessionRoutes) /\ Quiet(s2, Door!SocialAuthRoutes)
  BY <1>19, <1>17, <1>3, <1>18, <1>13, <1>18, <1>14, QuietJoins DEF Block
<1>22. PICK s3 : s3 = s2 \o Door!SessionRoutes
  OBVIOUS
<1>23. Block(s3, 2)
  BY <1>22, <1>20, <1>4, <1>21, BlocksJoin
<1>24. Quiet(s3, Door!SocialAuthRoutes)
  BY <1>22, <1>20, <1>4, <1>21, <1>15, QuietJoins DEF Block
<1>25. QED  BY <1>16, <1>19, <1>22, <1>23, <1>5, <1>24, BlocksJoin

LEMMA CompanyDataBlock == Block(Door!CompanyDataRoutes, 3)
<1>1. Ordered(Door!CompanyDataRoutes)
  BY CompanyDataRoutesTable DEF Shape, Ordered, Clash, Fit
<1>2. \A i \in DOMAIN Door!CompanyDataRoutes : Area(Door!CompanyDataRoutes[i]) = 3
  BY CompanyDataRoutesTable, AreasOfShapes
<1>3. QED  BY <1>1, <1>2, ControllersAreGood DEF Block

LEMMA BlogCategoriesBlock == Block(Door!BlogCategoryLists \o Door!BlogCategoryReading \o Door!BlogCategoryChanges, 4)
<1>1. Block(Door!BlogCategoryLists, 4)
  <2>1. Ordered(Door!BlogCategoryLists)
    BY BlogCategoryListsTable DEF Shape, Ordered, Clash, Fit
  <2>2. \A i \in DOMAIN Door!BlogCategoryLists : Area(Door!BlogCategoryLists[i]) = 4
    BY BlogCategoryListsTable, AreasOfShapes
  <2>3. QED  BY <2>1, <2>2, ControllersAreGood DEF Block
<1>2. Block(Door!BlogCategoryReading, 4)
  <2>1. Ordered(Door!BlogCategoryReading)
    BY BlogCategoryReadingTable DEF Shape, Ordered, Clash, Fit
  <2>2. \A i \in DOMAIN Door!BlogCategoryReading : Area(Door!BlogCategoryReading[i]) = 4
    BY BlogCategoryReadingTable, AreasOfShapes
  <2>3. QED  BY <2>1, <2>2, ControllersAreGood DEF Block
<1>3. Block(Door!BlogCategoryChanges, 4)
  <2>1. Ordered(Door!BlogCategoryChanges)
    BY BlogCategoryChangesTable DEF Shape, Ordered, Clash, Fit
  <2>2. \A i \in DOMAIN Door!BlogCategoryChanges : Area(Door!BlogCategoryChanges[i]) = 4
    BY BlogCategoryChangesTable, AreasOfShapes
  <2>3. QED  BY <2>1, <2>2, ControllersAreGood DEF Block
<1>4. Quiet(Door!BlogCategoryLists, Door!BlogCategoryReading)
  BY BlogCategoryListsTable, BlogCategoryReadingTable DEF Shape, Quiet, Clash, Fit
<1>5. Quiet(Door!BlogCategoryLists, Door!BlogCategoryChanges)
  BY BlogCategoryListsTable, BlogCategoryChangesTable DEF Shape, Quiet, Clash, Fit
<1>6. Quiet(Door!BlogCategoryReading, Door!BlogCategoryChanges)
  BY BlogCategoryReadingTable, BlogCategoryChangesTable DEF Shape, Quiet, Clash, Fit
<1>7. PICK s1 : s1 = Door!BlogCategoryLists \o Door!BlogCategoryReading
  OBVIOUS
<1>8. Block(s1, 4)
  BY <1>7, <1>1, <1>2, <1>4, BlocksJoin
<1>9. Quiet(s1, Door!BlogCategoryChanges)
  BY <1>7, <1>1, <1>2, <1>5, <1>6, QuietJoins DEF Block
<1>10. QED  BY <1>7, <1>8, <1>3, <1>9, BlocksJoin

LEMMA UsersBlock == Block(Door!UserCreation \o Door!UserLists \o Door!UserReading \o Door!UserChanges, 5)
<1>1. Block(Door!UserCreation, 5)
  <2>1. Ordered(Door!UserCreation)
    BY UserCreationTable DEF Shape, Ordered, Clash, Fit
  <2>2. \A i \in DOMAIN Door!UserCreation : Area(Door!UserCreation[i]) = 5
    BY UserCreationTable DEF Shape, Area
  <2>3. QED  BY <2>1, <2>2, ControllersAreGood DEF Block
<1>2. Block(Door!UserLists, 5)
  <2>1. Ordered(Door!UserLists)
    BY UserListsTable DEF Shape, Ordered, Clash, Fit
  <2>2. \A i \in DOMAIN Door!UserLists : Area(Door!UserLists[i]) = 5
    BY UserListsTable DEF Shape, Area
  <2>3. QED  BY <2>1, <2>2, ControllersAreGood DEF Block
<1>3. Block(Door!UserReading, 5)
  <2>1. Ordered(Door!UserReading)
    BY UserReadingTable DEF Shape, Ordered, Clash, Fit
  <2>2. \A i \in DOMAIN Door!UserReading : Area(Door!UserReading[i]) = 5
    BY UserReadingTable DEF Shape, Area
  <2>3. QED  BY <2>1, <2>2, ControllersAreGood DEF Block
<1>4. Block(Door!UserChanges, 5)
  <2>1. Ordered(Door!UserChanges)
    BY UserChangesTable DEF Shape, Ordered, Clash, Fit
  <2>2. \A i \in DOMAIN Door!UserChanges : Area(Door!UserChanges[i]) = 5
    BY UserChangesTable DEF Shape, Area
  <2>3. QED  BY <2>1, <2>2, ControllersAreGood DEF Block
<1>5. Quiet(Door!UserCreation, Door!UserLists)
  BY UserCreationTable, UserListsTable DEF Shape, Quiet, Clash, Fit
<1>6. Quiet(Door!UserCreation, Door!UserReading)
  BY UserCreationTable, UserReadingTable DEF Shape, Quiet, Clash, Fit
<1>7. Quiet(Door!UserCreation, Door!UserChanges)
  BY UserCreationTable, UserChangesTable DEF Shape, Quiet, Clash, Fit
<1>8. Quiet(Door!UserLists, Door!UserReading)
  BY UserListsTable, UserReadingTable DEF Shape, Quiet, Clash, Fit
<1>9. Quiet(Door!UserLists, Door!UserChanges)
  BY UserListsTable, UserChangesTable DEF Shape, Quiet, Clash, Fit
<1>10. Quiet(Door!UserReading, Door!UserChanges)
  BY UserReadingTable, UserChangesTable DEF Shape, Quiet, Clash, Fit
<1>11. PICK s1 : s1 = Door!UserCreation \o Door!UserLists
  OBVIOUS
<1>12. Block(s1, 5)
  BY <1>11, <1>1, <1>2, <1>5, BlocksJoin
<1>13. Quiet(s1, Door!UserReading) /\ Quiet(s1, Door!UserChanges)
  BY <1>11, <1>1, <1>2, <1>6, <1>8, <1>7, <1>9, QuietJoins DEF Block
<1>14. PICK s2 : s2 = s1 \o Door!UserReading
  OBVIOUS
<1>15. Block(s2, 5)
  BY <1>14, <1>12, <1>3, <1>13, BlocksJoin
<1>16. Quiet(s2, Door!UserChanges)
  BY <1>14, <1>12, <1>3, <1>13, <1>10, QuietJoins DEF Block
<1>17. QED  BY <1>11, <1>14, <1>15, <1>4, <1>16, BlocksJoin

LEMMA AppointmentsBlock == Block(Door!AppointmentReading \o Door!AppointmentExport \o Door!AppointmentChanges, 6)
<1>1. Block(Door!AppointmentReading, 6)
  <2>1. Ordered(Door!AppointmentReading)
    BY AppointmentReadingTable DEF Shape, Ordered, Clash, Fit
  <2>2. \A i \in DOMAIN Door!AppointmentReading : Area(Door!AppointmentReading[i]) = 6
    BY AppointmentReadingTable, AreasOfShapes
  <2>3. QED  BY <2>1, <2>2, ControllersAreGood DEF Block
<1>2. Block(Door!AppointmentExport, 6)
  <2>1. Ordered(Door!AppointmentExport)
    BY AppointmentExportTable DEF Shape, Ordered, Clash, Fit
  <2>2. \A i \in DOMAIN Door!AppointmentExport : Area(Door!AppointmentExport[i]) = 6
    BY AppointmentExportTable, AreasOfShapes
  <2>3. QED  BY <2>1, <2>2, ControllersAreGood DEF Block
<1>3. Block(Door!AppointmentChanges, 6)
  <2>1. Ordered(Door!AppointmentChanges)
    BY AppointmentChangesTable DEF Shape, Ordered, Clash, Fit
  <2>2. \A i \in DOMAIN Door!AppointmentChanges : Area(Door!AppointmentChanges[i]) = 6
    BY AppointmentChangesTable, AreasOfShapes
  <2>3. QED  BY <2>1, <2>2, ControllersAreGood DEF Block
<1>4. Quiet(Door!AppointmentReading, Door!AppointmentExport)
  BY AppointmentReadingTable, AppointmentExportTable DEF Shape, Quiet, Clash, Fit
<1>5. Quiet(Door!AppointmentReading, Door!AppointmentChanges)
  BY AppointmentReadingTable, AppointmentChangesTable DEF Shape, Quiet, Clash, Fit
<1>6. Quiet(Door!AppointmentExport, Door!AppointmentChanges)
  BY AppointmentExportTable, AppointmentChangesTable DEF Shape, Quiet, Clash, Fit
<1>7. PICK s1 : s1 = Door!AppointmentReading \o Door!AppointmentExport
  OBVIOUS
<1>8. Block(s1, 6)
  BY <1>7, <1>1, <1>2, <1>4, BlocksJoin
<1>9. Quiet(s1, Door!AppointmentChanges)
  BY <1>7, <1>1, <1>2, <1>5, <1>6, QuietJoins DEF Block
<1>10. QED  BY <1>7, <1>8, <1>3, <1>9, BlocksJoin

LEMMA PublicAppointmentsBlock == Block(Door!PublicAppointmentRoutes, 7)
<1>1. Ordered(Door!PublicAppointmentRoutes)
  BY PublicAppointmentRoutesTable DEF Shape, Ordered, Clash, Fit
<1>2. \A i \in DOMAIN Door!PublicAppointmentRoutes : Area(Door!PublicAppointmentRoutes[i]) = 7
  BY PublicAppointmentRoutesTable DEF Shape, Area
<1>3. QED  BY <1>1, <1>2, ControllersAreGood DEF Block

LEMMA ContactSupportBlock == Block(Door!ContactLists \o Door!ContactReading \o Door!ContactChanges, 8)
<1>1. Block(Door!ContactLists, 8)
  <2>1. Ordered(Door!ContactLists)
    BY ContactListsTable DEF Shape, Ordered, Clash, Fit
  <2>2. \A i \in DOMAIN Door!ContactLists : Area(Door!ContactLists[i]) = 8
    BY ContactListsTable, AreasOfShapes
  <2>3. QED  BY <2>1, <2>2, ControllersAreGood DEF Block
<1>2. Block(Door!ContactReading, 8)
  <2>1. Ordered(Door!ContactReading)
    BY ContactReadingTable DEF Shape, Ordered, Clash, Fit
  <2>2. \A i \in DOMAIN Door!ContactReading : Area(Door!ContactReading[i]) = 8
    BY ContactReadingTable, AreasOfShapes
  <2>3. QED  BY <2>1, <2>2, ControllersAreGood DEF Block
<1>3. Block(Door!ContactChanges, 8)
  <2>1. Ordered(Door!ContactChanges)
    BY ContactChangesTable DEF Shape, Ordered, Clash, Fit
  <2>2. \A i \in DOMAIN Door!ContactChanges : Area(Door!ContactChanges[i]) = 8
    BY ContactChangesTable, AreasOfShapes
  <2>3. QED  BY <2>1, <2>2, ControllersAreGood DEF Block
<1>4. Quiet(Door!ContactLists, Door!ContactReading)
  BY ContactListsTable, ContactReadingTable DEF Shape, Quiet, Clash, Fit
<1>5. Quiet(Door!ContactLists, Door!ContactChanges)
  BY ContactListsTable, ContactChangesTable DEF Shape, Quiet, Clash, Fit
<1>6. Quiet(Door!ContactReading, Door!ContactChanges)
  BY ContactReadingTable, ContactChangesTable DEF Shape, Quiet, Clash, Fit
<1>7. PICK s1 : s1 = Door!ContactLists \o Door!ContactReading
  OBVIOUS
<1>8. Block(s1, 8)
  BY <1>7, <1>1, <1>2, <1>4, BlocksJoin
<1>9. Quiet(s1, Door!ContactChanges)
  BY <1>7, <1>1, <1>2, <1>5, <1>6, QuietJoins DEF Block
<1>10. QED  BY <1>7, <1>8, <1>3, <1>9, BlocksJoin

LEMMA PublicContactSupportBlock == Block(Door!PublicContactRoutes, 9)
<1>1. Ordered(Door!PublicContactRoutes)
  BY PublicContactRoutesTable DEF Shape, Ordered, Clash, Fit
<1>2. \A i \in DOMAIN Door!PublicContactRoutes : Area(Door!PublicContactRoutes[i]) = 9
  BY PublicContactRoutesTable DEF Shape, Area
<1>3. QED  BY <1>1, <1>2, ControllersAreGood DEF Block

LEMMA RolesBlock == Block(Door!RoleReading \o Door!RoleChanges, 10)
<1>1. Block(Door!RoleReading, 10)
  <2>1. Ordered(Door!RoleReading)
    BY RoleReadingTable DEF Shape, Ordered, Clash, Fit
  <2>2. \A i \in DOMAIN Door!RoleReading : Area(Door!RoleReading[i]) = 10
    BY RoleReadingTable, AreasOfShapes
  <2>3. QED  BY <2>1, <2>2, ControllersAreGood DEF Block
<1>2. Block(Door!RoleChanges, 10)
  <2>1. Ordered(Door!RoleChanges)
    BY RoleChangesTable DEF Shape, Ordered, Clash, Fit
  <2>2. \A i \in DOMAIN Door!RoleChanges : Area(Door!RoleChanges[i]) = 10
    BY RoleChangesTable, AreasOfShapes
  <2>3. QED  BY <2>1, <2>2, ControllersAreGood DEF Block
<1>3. Quiet(Door!RoleReading, Door!RoleChanges)
  BY RoleReadingTable, RoleChangesTable DEF Shape, Quiet, Clash, Fit
<1>4. QED  BY <1>1, <1>2, <1>3, BlocksJoin

LEMMA PermissionsBlock == Block(Door!PermissionRoutes, 11)
<1>1. Ordered(Door!PermissionRoutes)
  BY PermissionRoutesTable DEF Shape, Ordered, Clash, Fit
<1>2. \A i \in DOMAIN Door!PermissionRoutes : Area(Door!PermissionRoutes[i]) = 11
  BY PermissionRoutesTable, AreasOfShapes
<1>3. QED  BY <1>1, <1>2, ControllersAreGood DEF Block

LEMMA UsersPermissionsBlock == Block(Door!UserPermissionRoutes, 12)
<1>1. Ordered(Door!UserPermissionRoutes)
  BY UserPermissionRoutesTable DEF Shape, Ordered, Clash, Fit
<1>2. \A i \in DOMAIN Door!UserPermissionRoutes : Area(Door!UserPermissionRoutes[i]) = 12
  BY UserPermissionRoutesTable DEF Shape, Area
<1>3. QED  BY <1>1, <1>2, ControllersAreGood DEF Block

LEMMA BackupsBlock == Block(Door!BackupListing \o Door!BackupFiles, 13)
<1>1. Block(Door!BackupListing, 13)
  <2>1. Ordered(Door!BackupListing)
    BY BackupListingTable DEF Shape, Ordered, Clash, Fit
  <2>2. \A i \in DOMAIN Door!BackupListing : Area(Door!BackupListing[i]) = 13
    BY BackupListingTable, AreasOfShapes
  <2>3. QED  BY <2>1, <2>2, ControllersAreGood DEF Block
<1>2. Block(Door!BackupFiles, 13)
  <2>1. Ordered(Door!BackupFiles)
    BY BackupFilesTable DEF Shape, Ordered, Clash, Fit
  <2>2. \A i \in DOMAIN Door!BackupFiles : Area(Door!BackupFiles[i]) = 13
    BY BackupFilesTable, AreasOfShapes
  <2>3. QED  BY <2>1, <2>2, ControllersAreGood DEF Block
<1>3. Quiet(Door!BackupListing, Door!BackupFiles)
  BY BackupListingTable, BackupFilesTable DEF Shape, Quiet, Clash, Fit
<1>4. QED  BY <1>1, <1>2, <1>3, BlocksJoin

LEMMA PostsBlock == Block(Door!PostWriting \o Door!SocialIdeas \o Door!PostReading \o Door!PostChanges, 14)
<1>1. Block(Door!PostWriting, 14)
  <2>1. Ordered(Door!PostWriting)
    BY PostWritingTable DEF Shape, Ordered, Clash, Fit
  <2>2. \A i \in DOMAIN Door!PostWriting : Area(Door!PostWriting[i]) = 14
    BY PostWritingTable, AreasOfShapes
  <2>3. QED  BY <2>1, <2>2, ControllersAreGood DEF Block
<1>2. Block(Door!SocialIdeas, 14)
  <2>1. Ordered(Door!SocialIdeas)
    BY SocialIdeasTable DEF Shape, Ordered, Clash, Fit
  <2>2. \A i \in DOMAIN Door!SocialIdeas : Area(Door!SocialIdeas[i]) = 14
    BY SocialIdeasTable, AreasOfShapes
  <2>3. QED  BY <2>1, <2>2, ControllersAreGood DEF Block
<1>3. Block(Door!PostReading, 14)
  <2>1. Ordered(Door!PostReading)
    BY PostReadingTable DEF Shape, Ordered, Clash, Fit
  <2>2. \A i \in DOMAIN Door!PostReading : Area(Door!PostReading[i]) = 14
    BY PostReadingTable, AreasOfShapes
  <2>3. QED  BY <2>1, <2>2, ControllersAreGood DEF Block
<1>4. Block(Door!PostChanges, 14)
  <2>1. Ordered(Door!PostChanges)
    BY PostChangesTable DEF Shape, Ordered, Clash, Fit
  <2>2. \A i \in DOMAIN Door!PostChanges : Area(Door!PostChanges[i]) = 14
    BY PostChangesTable, AreasOfShapes
  <2>3. QED  BY <2>1, <2>2, ControllersAreGood DEF Block
<1>5. Quiet(Door!PostWriting, Door!SocialIdeas)
  BY PostWritingTable, SocialIdeasTable DEF Shape, Quiet, Clash, Fit
<1>6. Quiet(Door!PostWriting, Door!PostReading)
  BY PostWritingTable, PostReadingTable DEF Shape, Quiet, Clash, Fit
<1>7. Quiet(Door!PostWriting, Door!PostChanges)
  BY PostWritingTable, PostChangesTable DEF Shape, Quiet, Clash, Fit
<1>8. Quiet(Door!SocialIdeas, Door!PostReading)
  BY SocialIdeasTable, PostReadingTable DEF Shape, Quiet, Clash, Fit
<1>9. Quiet(Door!SocialIdeas, Door!PostChanges)
  BY SocialIdeasTable, PostChangesTable DEF Shape, Quiet, Clash, Fit
<1>10. Quiet(Door!PostReading, Door!PostChanges)
  BY PostReadingTable, PostChangesTable DEF Shape, Quiet, Clash, Fit
<1>11. PICK s1 : s1 = Door!PostWriting \o Door!SocialIdeas
  OBVIOUS
<1>12. Block(s1, 14)
  BY <1>11, <1>1, <1>2, <1>5, BlocksJoin
<1>13. Quiet(s1, Door!PostReading) /\ Quiet(s1, Door!PostChanges)
  BY <1>11, <1>1, <1>2, <1>6, <1>8, <1>7, <1>9, QuietJoins DEF Block
<1>14. PICK s2 : s2 = s1 \o Door!PostReading
  OBVIOUS
<1>15. Block(s2, 14)
  BY <1>14, <1>12, <1>3, <1>13, BlocksJoin
<1>16. Quiet(s2, Door!PostChanges)
  BY <1>14, <1>12, <1>3, <1>13, <1>10, QuietJoins DEF Block
<1>17. QED  BY <1>11, <1>14, <1>15, <1>4, <1>16, BlocksJoin

LEMMA SocialMediaBlock == Block(Door!SocialMediaGeneration \o Door!SocialMediaChanges, 15)
<1>1. Block(Door!SocialMediaGeneration, 15)
  <2>1. Ordered(Door!SocialMediaGeneration)
    BY SocialMediaGenerationTable DEF Shape, Ordered, Clash, Fit
  <2>2. \A i \in DOMAIN Door!SocialMediaGeneration : Area(Door!SocialMediaGeneration[i]) = 15
    BY SocialMediaGenerationTable, AreasOfShapes
  <2>3. QED  BY <2>1, <2>2, ControllersAreGood DEF Block
<1>2. Block(Door!SocialMediaChanges, 15)
  <2>1. Ordered(Door!SocialMediaChanges)
    BY SocialMediaChangesTable DEF Shape, Ordered, Clash, Fit
  <2>2. \A i \in DOMAIN Door!SocialMediaChanges : Area(Door!SocialMediaChanges[i]) = 15
    BY SocialMediaChangesTable, AreasOfShapes
  <2>3. QED  BY <2>1, <2>2, ControllersAreGood DEF Block
<1>3. Quiet(Door!SocialMediaGeneration, Door!SocialMediaChanges)
  BY SocialMediaGenerationTable, SocialMediaChangesTable DEF Shape, Quiet, Clash, Fit
<1>4. QED  BY <1>1, <1>2, <1>3, BlocksJoin

LEMMA CampaignsBlock == Block(Door!CampaignRequests \o Door!CampaignReading \o Door!CampaignChanges, 16)
<1>1. Block(Door!CampaignRequests, 16)
  <2>1. Ordered(Door!CampaignRequests)
    BY CampaignRequestsTable DEF Shape, Ordered, Clash, Fit
  <2>2. \A i \in DOMAIN Door!CampaignRequests : Area(Door!CampaignRequests[i]) = 16
    BY CampaignRequestsTable, AreasOfShapes
  <2>3. QED  BY <2>1, <2>2, ControllersAreGood DEF Block
<1>2. Block(Door!CampaignReading, 16)
  <2>1. Ordered(Door!CampaignReading)
    BY CampaignReadingTable DEF Shape, Ordered, Clash, Fit
  <2>2. \A i \in DOMAIN Door!CampaignReading : Area(Door!CampaignReading[i]) = 16
    BY CampaignReadingTable, AreasOfShapes
  <2>3. QED  BY <2>1, <2>2, ControllersAreGood DEF Block
<1>3. Block(Door!CampaignChanges, 16)
  <2>1. Ordered(Door!CampaignChanges)
    BY CampaignChangesTable DEF Shape, Ordered, Clash, Fit
  <2>2. \A i \in DOMAIN Door!CampaignChanges : Area(Door!CampaignChanges[i]) = 16
    BY CampaignChangesTable, AreasOfShapes
  <2>3. QED  BY <2>1, <2>2, ControllersAreGood DEF Block
<1>4. Quiet(Door!CampaignRequests, Door!CampaignReading)
  BY CampaignRequestsTable, CampaignReadingTable DEF Shape, Quiet, Clash, Fit
<1>5. Quiet(Door!CampaignRequests, Door!CampaignChanges)
  BY CampaignRequestsTable, CampaignChangesTable DEF Shape, Quiet, Clash, Fit
<1>6. Quiet(Door!CampaignReading, Door!CampaignChanges)
  BY CampaignReadingTable, CampaignChangesTable DEF Shape, Quiet, Clash, Fit
<1>7. PICK s1 : s1 = Door!CampaignRequests \o Door!CampaignReading
  OBVIOUS
<1>8. Block(s1, 16)
  BY <1>7, <1>1, <1>2, <1>4, BlocksJoin
<1>9. Quiet(s1, Door!CampaignChanges)
  BY <1>7, <1>1, <1>2, <1>5, <1>6, QuietJoins DEF Block
<1>10. QED  BY <1>7, <1>8, <1>3, <1>9, BlocksJoin

LEMMA ActivityLogsBlock == Block(Door!ActivityLogRoutes, 17)
<1>1. Ordered(Door!ActivityLogRoutes)
  BY ActivityLogRoutesTable DEF Shape, Ordered, Clash, Fit
<1>2. \A i \in DOMAIN Door!ActivityLogRoutes : Area(Door!ActivityLogRoutes[i]) = 17
  BY ActivityLogRoutesTable, AreasOfShapes
<1>3. QED  BY <1>1, <1>2, ControllersAreGood DEF Block

LEMMA RetellBlock == Block(Door!CallReading \o Door!CallChanges \o Door!RetellWebhookRoutes, 18)
<1>1. Block(Door!CallReading, 18)
  <2>1. Ordered(Door!CallReading)
    BY CallReadingTable DEF Shape, Ordered, Clash, Fit
  <2>2. \A i \in DOMAIN Door!CallReading : Area(Door!CallReading[i]) = 18
    BY CallReadingTable, AreasOfShapes
  <2>3. QED  BY <2>1, <2>2, ControllersAreGood DEF Block
<1>2. Block(Door!CallChanges, 18)
  <2>1. Ordered(Door!CallChanges)
    BY CallChangesTable DEF Shape, Ordered, Clash, Fit
  <2>2. \A i \in DOMAIN Door!CallChanges : Area(Door!CallChanges[i]) = 18
    BY CallChangesTable, AreasOfShapes
  <2>3. QED  BY <2>1, <2>2, ControllersAreGood DEF Block
<1>3. Block(Door!RetellWebhookRoutes, 18)
  <2>1. Ordered(Door!RetellWebhookRoutes)
    BY RetellWebhookRoutesTable DEF Shape, Ordered, Clash, Fit
  <2>2. \A i \in DOMAIN Door!RetellWebhookRoutes : Area(Door!RetellWebhookRoutes[i]) = 18
    BY RetellWebhookRoutesTable, AreasOfShapes
  <2>3. QED  BY <2>1, <2>2, ControllersAreGood DEF Block
<1>4. Quiet(Door!CallReading, Door!CallChanges)
  BY CallReadingTable, CallChangesTable DEF Shape, Quiet, Clash, Fit
<1>5. Quiet(Door!CallReading, Door!RetellWebhookRoutes)
  BY CallReadingTable, RetellWebhookRoutesTable DEF Shape, Quiet, Clash, Fit
<1>6. Quiet(Door!CallChanges, Door!RetellWebhookRoutes)
  BY CallChangesTable, RetellWebhookRoutesTable DEF Shape, Quiet, Clash, Fit
<1>7. PICK s1 : s1 = Door!CallReading \o Door!CallChanges
  OBVIOUS
<1>8. Block(s1, 18)
  BY <1>7, <1>1, <1>2, <1>4, BlocksJoin
<1>9. Quiet(s1, Door!RetellWebhookRoutes)
  BY <1>7, <1>1, <1>2, <1>5, <1>6, QuietJoins DEF Block
<1>10. QED  BY <1>7, <1>8, <1>3, <1>9, BlocksJoin

LEMMA AvailabilityBlock == Block(Door!AvailabilityRuleRoutes \o Door!AvailabilityExceptionRoutes, 19)
<1>1. Block(Door!AvailabilityRuleRoutes, 19)
  <2>1. Ordered(Door!AvailabilityRuleRoutes)
    BY AvailabilityRuleRoutesTable DEF Shape, Ordered, Clash, Fit
  <2>2. \A i \in DOMAIN Door!AvailabilityRuleRoutes : Area(Door!AvailabilityRuleRoutes[i]) = 19
    BY AvailabilityRuleRoutesTable, AreasOfShapes
  <2>3. QED  BY <2>1, <2>2, ControllersAreGood DEF Block
<1>2. Block(Door!AvailabilityExceptionRoutes, 19)
  <2>1. Ordered(Door!AvailabilityExceptionRoutes)
    BY AvailabilityExceptionRoutesTable DEF Shape, Ordered, Clash, Fit
  <2>2. \A i \in DOMAIN Door!AvailabilityExceptionRoutes : Area(Door!AvailabilityExceptionRoutes[i]) = 19
    BY AvailabilityExceptionRoutesTable, AreasOfShapes
  <2>3. QED  BY <2>1, <2>2, ControllersAreGood DEF Block
<1>3. Quiet(Door!AvailabilityRuleRoutes, Door!AvailabilityExceptionRoutes)
  BY AvailabilityRuleRoutesTable, AvailabilityExceptionRoutesTable DEF Shape, Quiet, Clash, Fit
<1>4. QED  BY <1>1, <1>2, <1>3, BlocksJoin

LEMMA PublicAvailabilityBlock == Block(Door!PublicAvailabilityRoutes, 20)
<1>1. Ordered(Door!PublicAvailabilityRoutes)
  BY PublicAvailabilityRoutesTable DEF Shape, Ordered, Clash, Fit
<1>2. \A i \in DOMAIN Door!PublicAvailabilityRoutes : Area(Door!PublicAvailabilityRoutes[i]) = 20
  BY PublicAvailabilityRoutesTable DEF Shape, Area
<1>3. QED  BY <1>1, <1>2, ControllersAreGood DEF Block

LEMMA AppBlock == Block(Door!AppRoutes, 21)
<1>1. Ordered(Door!AppRoutes)
  BY AppRoutesTable DEF Shape, Ordered, Clash, Fit
<1>2. \A i \in DOMAIN Door!AppRoutes : Area(Door!AppRoutes[i]) = 21
  BY AppRoutesTable, AreasOfShapes
<1>3. QED  BY <1>1, <1>2, ControllersAreGood DEF Block

\* No route of the application clashes with a later one.
LEMMA RoutesAreOrdered == Ordered(Door!AllRoutes)
<1>1. PICK r1 : r1 = Door!HealthRoutes /\ Upto(r1, 1)
  BY HealthBlock DEF Block, Upto
<1>2. PICK r2 : r2 = r1 \o Door!SigningIn \o Door!OwnAccount \o Door!TwoFactorRoutes \o Door!SessionRoutes \o
            Door!SocialAuthRoutes /\ Upto(r2, 2)
  <2>1. Upto(r1 \o (Door!SigningIn \o Door!OwnAccount \o Door!TwoFactorRoutes \o Door!SessionRoutes \o
              Door!SocialAuthRoutes), 2)
    BY <1>1, AuthBlock, AreasJoin
  <2>2. r1 \in Seq(Good)
    BY <1>1 DEF Upto
  <2>3. Door!SigningIn \in Seq(Good) /\ Door!OwnAccount \in Seq(Good)
    BY ControllersAreGood
  <2>4. PICK x : x = Door!SigningIn \o Door!OwnAccount
    OBVIOUS
  <2>5. x \in Seq(Good)
    BY <2>3, <2>4
  <2>6. r1 \o (Door!SigningIn \o Door!OwnAccount) = r1 \o Door!SigningIn \o Door!OwnAccount
    BY <2>2, <2>3, JoinsToTwo
  <2>7. Door!TwoFactorRoutes \in Seq(Good)
    BY ControllersAreGood
  <2>8. r1 \o (x \o Door!TwoFactorRoutes) = (r1 \o x) \o Door!TwoFactorRoutes
    BY <2>2, <2>5, <2>7, JoinsToTwo
  <2>9. PICK y0 : y0 = x \o Door!TwoFactorRoutes
    OBVIOUS
  <2>10. y0 \in Seq(Good)
    BY <2>5, <2>7, <2>9
  <2>11. Door!SessionRoutes \in Seq(Good)
    BY ControllersAreGood
  <2>12. r1 \o (y0 \o Door!SessionRoutes) = (r1 \o y0) \o Door!SessionRoutes
    BY <2>2, <2>10, <2>11, JoinsToTwo
  <2>13. PICK y1 : y1 = y0 \o Door!SessionRoutes
    OBVIOUS
  <2>14. y1 \in Seq(Good)
    BY <2>10, <2>11, <2>13
  <2>15. Door!SocialAuthRoutes \in Seq(Good)
    BY ControllersAreGood
  <2>16. r1 \o (y1 \o Door!SocialAuthRoutes) = (r1 \o y1) \o Door!SocialAuthRoutes
    BY <2>2, <2>14, <2>15, JoinsToTwo
  <2>17. QED  BY <2>1, <2>4, <2>6, <2>8, <2>9, <2>12, <2>13, <2>16
<1>3. PICK r3 : r3 = r2 \o Door!CompanyDataRoutes /\ Upto(r3, 3)
  <2>1. Upto(r2 \o Door!CompanyDataRoutes, 3)
    BY <1>2, CompanyDataBlock, AreasJoin
  <2>2. QED  BY <2>1
<1>4. PICK r4 : r4 = r3 \o Door!BlogCategoryLists \o Door!BlogCategoryReading \o Door!BlogCategoryChanges /\
            Upto(r4, 4)
  <2>1. Upto(r3 \o (Door!BlogCategoryLists \o Door!BlogCategoryReading \o Door!BlogCategoryChanges), 4)
    BY <1>3, BlogCategoriesBlock, AreasJoin
  <2>2. r3 \in Seq(Good)
    BY <1>3 DEF Upto
  <2>3. Door!BlogCategoryLists \in Seq(Good) /\ Door!BlogCategoryReading \in Seq(Good)
    BY ControllersAreGood
  <2>4. PICK x : x = Door!BlogCategoryLists \o Door!BlogCategoryReading
    OBVIOUS
  <2>5. x \in Seq(Good)
    BY <2>3, <2>4
  <2>6. r3 \o (Door!BlogCategoryLists \o Door!BlogCategoryReading) = r3 \o Door!BlogCategoryLists \o
              Door!BlogCategoryReading
    BY <2>2, <2>3, JoinsToTwo
  <2>7. Door!BlogCategoryChanges \in Seq(Good)
    BY ControllersAreGood
  <2>8. r3 \o (x \o Door!BlogCategoryChanges) = (r3 \o x) \o Door!BlogCategoryChanges
    BY <2>2, <2>5, <2>7, JoinsToTwo
  <2>9. QED  BY <2>1, <2>4, <2>6, <2>8
<1>5. PICK r5 : r5 = r4 \o Door!UserCreation \o Door!UserLists \o Door!UserReading \o Door!UserChanges /\ Upto(r5, 5)
  <2>1. Upto(r4 \o (Door!UserCreation \o Door!UserLists \o Door!UserReading \o Door!UserChanges), 5)
    BY <1>4, UsersBlock, AreasJoin
  <2>2. r4 \in Seq(Good)
    BY <1>4 DEF Upto
  <2>3. Door!UserCreation \in Seq(Good) /\ Door!UserLists \in Seq(Good)
    BY ControllersAreGood
  <2>4. PICK x : x = Door!UserCreation \o Door!UserLists
    OBVIOUS
  <2>5. x \in Seq(Good)
    BY <2>3, <2>4
  <2>6. r4 \o (Door!UserCreation \o Door!UserLists) = r4 \o Door!UserCreation \o Door!UserLists
    BY <2>2, <2>3, JoinsToTwo
  <2>7. Door!UserReading \in Seq(Good)
    BY ControllersAreGood
  <2>8. r4 \o (x \o Door!UserReading) = (r4 \o x) \o Door!UserReading
    BY <2>2, <2>5, <2>7, JoinsToTwo
  <2>9. PICK y0 : y0 = x \o Door!UserReading
    OBVIOUS
  <2>10. y0 \in Seq(Good)
    BY <2>5, <2>7, <2>9
  <2>11. Door!UserChanges \in Seq(Good)
    BY ControllersAreGood
  <2>12. r4 \o (y0 \o Door!UserChanges) = (r4 \o y0) \o Door!UserChanges
    BY <2>2, <2>10, <2>11, JoinsToTwo
  <2>13. QED  BY <2>1, <2>4, <2>6, <2>8, <2>9, <2>12
<1>6. PICK r6 : r6 = r5 \o Door!AppointmentReading \o Door!AppointmentExport \o Door!AppointmentChanges /\ Upto(r6, 6)
  <2>1. Upto(r5 \o (Door!AppointmentReading \o Door!AppointmentExport \o Door!AppointmentChanges), 6)
    BY <1>5, AppointmentsBlock, AreasJoin
  <2>2. r5 \in Seq(Good)
    BY <1>5 DEF Upto
  <2>3. Door!AppointmentReading \in Seq(Good) /\ Door!AppointmentExport \in Seq(Good)
    BY ControllersAreGood
  <2>4. PICK x : x = Door!AppointmentReading \o Door!AppointmentExport
    OBVIOUS
  <2>5. x \in Seq(Good)
    BY <2>3, <2>4
  <2>6. r5 \o (Door!AppointmentReading \o Door!AppointmentExport) = r5 \o Door!AppointmentReading \o
              Door!AppointmentExport
    BY <2>2, <2>3, JoinsToTwo
  <2>7. Door!AppointmentChanges \in Seq(Good)
    BY ControllersAreGood
  <2>8. r5 \o (x \o Door!AppointmentChanges) = (r5 \o x) \o Door!AppointmentChanges
    BY <2>2, <2>5, <2>7, JoinsToTwo
  <2>9. QED  BY <2>1, <2>4, <2>6, <2>8
<1>7. PICK r7 : r7 = r6 \o Door!PublicAppointmentRoutes /\ Upto(r7, 7)
  <2>1. Upto(r6 \o Door!PublicAppointmentRoutes, 7)
    BY <1>6, PublicAppointmentsBlock, AreasJoin
  <2>2. QED  BY <2>1
<1>8. PICK r8 : r8 = r7 \o Door!ContactLists \o Door!ContactReading \o Door!ContactChanges /\ Upto(r8, 8)
  <2>1. Upto(r7 \o (Door!ContactLists \o Door!ContactReading \o Door!ContactChanges), 8)
    BY <1>7, ContactSupportBlock, AreasJoin
  <2>2. r7 \in Seq(Good)
    BY <1>7 DEF Upto
  <2>3. Door!ContactLists \in Seq(Good) /\ Door!ContactReading \in Seq(Good)
    BY ControllersAreGood
  <2>4. PICK x : x = Door!ContactLists \o Door!ContactReading
    OBVIOUS
  <2>5. x \in Seq(Good)
    BY <2>3, <2>4
  <2>6. r7 \o (Door!ContactLists \o Door!ContactReading) = r7 \o Door!ContactLists \o Door!ContactReading
    BY <2>2, <2>3, JoinsToTwo
  <2>7. Door!ContactChanges \in Seq(Good)
    BY ControllersAreGood
  <2>8. r7 \o (x \o Door!ContactChanges) = (r7 \o x) \o Door!ContactChanges
    BY <2>2, <2>5, <2>7, JoinsToTwo
  <2>9. QED  BY <2>1, <2>4, <2>6, <2>8
<1>9. PICK r9 : r9 = r8 \o Door!PublicContactRoutes /\ Upto(r9, 9)
  <2>1. Upto(r8 \o Door!PublicContactRoutes, 9)
    BY <1>8, PublicContactSupportBlock, AreasJoin
  <2>2. QED  BY <2>1
<1>10. PICK r10 : r10 = r9 \o Door!RoleReading \o Door!RoleChanges /\ Upto(r10, 10)
  <2>1. Upto(r9 \o (Door!RoleReading \o Door!RoleChanges), 10)
    BY <1>9, RolesBlock, AreasJoin
  <2>2. r9 \in Seq(Good)
    BY <1>9 DEF Upto
  <2>3. Door!RoleReading \in Seq(Good) /\ Door!RoleChanges \in Seq(Good)
    BY ControllersAreGood
  <2>4. r9 \o (Door!RoleReading \o Door!RoleChanges) = r9 \o Door!RoleReading \o Door!RoleChanges
    BY <2>2, <2>3, JoinsToTwo
  <2>5. QED  BY <2>1, <2>4
<1>11. PICK r11 : r11 = r10 \o Door!PermissionRoutes /\ Upto(r11, 11)
  <2>1. Upto(r10 \o Door!PermissionRoutes, 11)
    BY <1>10, PermissionsBlock, AreasJoin
  <2>2. QED  BY <2>1
<1>12. PICK r12 : r12 = r11 \o Door!UserPermissionRoutes /\ Upto(r12, 12)
  <2>1. Upto(r11 \o Door!UserPermissionRoutes, 12)
    BY <1>11, UsersPermissionsBlock, AreasJoin
  <2>2. QED  BY <2>1
<1>13. PICK r13 : r13 = r12 \o Door!BackupListing \o Door!BackupFiles /\ Upto(r13, 13)
  <2>1. Upto(r12 \o (Door!BackupListing \o Door!BackupFiles), 13)
    BY <1>12, BackupsBlock, AreasJoin
  <2>2. r12 \in Seq(Good)
    BY <1>12 DEF Upto
  <2>3. Door!BackupListing \in Seq(Good) /\ Door!BackupFiles \in Seq(Good)
    BY ControllersAreGood
  <2>4. r12 \o (Door!BackupListing \o Door!BackupFiles) = r12 \o Door!BackupListing \o Door!BackupFiles
    BY <2>2, <2>3, JoinsToTwo
  <2>5. QED  BY <2>1, <2>4
<1>14. PICK r14 : r14 = r13 \o Door!PostWriting \o Door!SocialIdeas \o Door!PostReading \o Door!PostChanges /\
             Upto(r14, 14)
  <2>1. Upto(r13 \o (Door!PostWriting \o Door!SocialIdeas \o Door!PostReading \o Door!PostChanges), 14)
    BY <1>13, PostsBlock, AreasJoin
  <2>2. r13 \in Seq(Good)
    BY <1>13 DEF Upto
  <2>3. Door!PostWriting \in Seq(Good) /\ Door!SocialIdeas \in Seq(Good)
    BY ControllersAreGood
  <2>4. PICK x : x = Door!PostWriting \o Door!SocialIdeas
    OBVIOUS
  <2>5. x \in Seq(Good)
    BY <2>3, <2>4
  <2>6. r13 \o (Door!PostWriting \o Door!SocialIdeas) = r13 \o Door!PostWriting \o Door!SocialIdeas
    BY <2>2, <2>3, JoinsToTwo
  <2>7. Door!PostReading \in Seq(Good)
    BY ControllersAreGood
  <2>8. r13 \o (x \o Door!PostReading) = (r13 \o x) \o Door!PostReading
    BY <2>2, <2>5, <2>7, JoinsToTwo
  <2>9. PICK y0 : y0 = x \o Door!PostReading
    OBVIOUS
  <2>10. y0 \in Seq(Good)
    BY <2>5, <2>7, <2>9
  <2>11. Door!PostChanges \in Seq(Good)
    BY ControllersAreGood
  <2>12. r13 \o (y0 \o Door!PostChanges) = (r13 \o y0) \o Door!PostChanges
    BY <2>2, <2>10, <2>11, JoinsToTwo
  <2>13. QED  BY <2>1, <2>4, <2>6, <2>8, <2>9, <2>12
<1>15. PICK r15 : r15 = r14 \o Door!SocialMediaGeneration \o Door!SocialMediaChanges /\ Upto(r15, 15)
  <2>1. Upto(r14 \o (Door!SocialMediaGeneration \o Door!SocialMediaChanges), 15)
    BY <1>14, SocialMediaBlock, AreasJoin
  <2>2. r14 \in Seq(Good)
    BY <1>14 DEF Upto
  <2>3. Door!SocialMediaGeneration \in Seq(Good) /\ Door!SocialMediaChanges \in Seq(Good)
    BY ControllersAreGood
  <2>4. r14 \o (Door!SocialMediaGeneration \o Door!SocialMediaChanges) = r14 \o Door!SocialMediaGeneration \o
              Door!SocialMediaChanges
    BY <2>2, <2>3, JoinsToTwo
  <2>5. QED  BY <2>1, <2>4
<1>16. PICK r16 : r16 = r15 \o Door!CampaignRequests \o Door!CampaignReading \o Door!CampaignChanges /\ Upto(r16, 16)
  <2>1. Upto(r15 \o (Door!CampaignRequests \o Door!CampaignReading \o Door!CampaignChanges), 16)
    BY <1>15, CampaignsBlock, AreasJoin
  <2>2. r15 \in Seq(Good)
    BY <1>15 DEF Upto
  <2>3. Door!CampaignRequests \in Seq(Good) /\ Door!CampaignReading \in Seq(Good)
    BY ControllersAreGood
  <2>4. PICK x : x = Door!CampaignRequests \o Door!CampaignReading
    OBVIOUS
  <2>5. x \in Seq(Good)
    BY <2>3, <2>4
  <2>6. r15 \o (Door!CampaignRequests \o Door!CampaignReading) = r15 \o Door!CampaignRequests \o Door!CampaignReading
    BY <2>2, <2>3, JoinsToTwo
  <2>7. Door!CampaignChanges \in Seq(Good)
    BY ControllersAreGood
  <2>8. r15 \o (x \o Door!CampaignChanges) = (r15 \o x) \o Door!CampaignChanges
    BY <2>2, <2>5, <2>7, JoinsToTwo
  <2>9. QED  BY <2>1, <2>4, <2>6, <2>8
<1>17. PICK r17 : r17 = r16 \o Door!ActivityLogRoutes /\ Upto(r17, 17)
  <2>1. Upto(r16 \o Door!ActivityLogRoutes, 17)
    BY <1>16, ActivityLogsBlock, AreasJoin
  <2>2. QED  BY <2>1
<1>18. PICK r18 : r18 = r17 \o Door!CallReading \o Door!CallChanges \o Door!RetellWebhookRoutes /\ Upto(r18, 18)
  <2>1. Upto(r17 \o (Door!CallReading \o Door!CallChanges \o Door!RetellWebhookRoutes), 18)
    BY <1>17, RetellBlock, AreasJoin
  <2>2. r17 \in Seq(Good)
    BY <1>17 DEF Upto
  <2>3. Door!CallReading \in Seq(Good) /\ Door!CallChanges \in Seq(Good)
    BY ControllersAreGood
  <2>4. PICK x : x = Door!CallReading \o Door!CallChanges
    OBVIOUS
  <2>5. x \in Seq(Good)
    BY <2>3, <2>4
  <2>6. r17 \o (Door!CallReading \o Door!CallChanges) = r17 \o Door!CallReading \o Door!CallChanges
    BY <2>2, <2>3, JoinsToTwo
  <2>7. Door!RetellWebhookRoutes \in Seq(Good)
    BY ControllersAreGood
  <2>8. r17 \o (x \o Door!RetellWebhookRoutes) = (r17 \o x) \o Door!RetellWebhookRoutes
    BY <2>2, <2>5, <2>7, JoinsToTwo
  <2>9. QED  BY <2>1, <2>4, <2>6, <2>8
<1>19. PICK r19 : r19 = r18 \o Door!AvailabilityRuleRoutes \o Door!AvailabilityExceptionRoutes /\ Upto(r19, 19)
  <2>1. Upto(r18 \o (Door!AvailabilityRuleRoutes \o Door!AvailabilityExceptionRoutes), 19)
    BY <1>18, AvailabilityBlock, AreasJoin
  <2>2. r18 \in Seq(Good)
    BY <1>18 DEF Upto
  <2>3. Door!AvailabilityRuleRoutes \in Seq(Good) /\ Door!AvailabilityExceptionRoutes \in Seq(Good)
    BY ControllersAreGood
  <2>4. r18 \o (Door!AvailabilityRuleRoutes \o Door!AvailabilityExceptionRoutes) = r18 \o
              Door!AvailabilityRuleRoutes \o Door!AvailabilityExceptionRoutes
    BY <2>2, <2>3, JoinsToTwo
  <2>5. QED  BY <2>1, <2>4
<1>20. PICK r20 : r20 = r19 \o Door!PublicAvailabilityRoutes /\ Upto(r20, 20)
  <2>1. Upto(r19 \o Door!PublicAvailabilityRoutes, 20)
    BY <1>19, PublicAvailabilityBlock, AreasJoin
  <2>2. QED  BY <2>1
<1>21. PICK r21 : r21 = r20 \o Door!AppRoutes /\ Upto(r21, 21)
  <2>1. Upto(r20 \o Door!AppRoutes, 21)
    BY <1>20, AppBlock, AreasJoin
  <2>2. QED  BY <2>1
<1>22. Door!AllRoutes = r21
  BY <1>1, <1>2, <1>3, <1>4, <1>5, <1>6, <1>7, <1>8, <1>9, <1>10, <1>11, <1>12, <1>13, <1>14, <1>15, <1>16, <1>17,
     <1>18, <1>19, <1>20, <1>21 DEF Door!AllRoutes
<1>23. QED  BY <1>21, <1>22 DEF Upto

\* The path of a route finds that route, not an earlier one.
LEMMA RouteIsFound ==
  ASSUME NEW i \in DOMAIN Door!AllRoutes
  PROVE  LET want == Door!AllRoutes[i] IN Door!RouteOf(want.verb, Door!PathOf(want)) = i
<1>1. PICK want \in RouteType : want = Door!AllRoutes[i]
  BY EveryRouteIsGood DEF Good
<1>2. PICK p \in Seq(Words) : p = want.path
  BY DEF RouteType
<1>3. PICK q : q = Door!PathOf(want)
  OBVIOUS
<1>4. q = [k \in DOMAIN p |-> IF p[k] = ":" THEN "7f3a" ELSE p[k]]
  BY <1>2, <1>3 DEF Door!PathOf
<1>5. Door!Matches(q, want)
  <2>1. q \in Seq(Words \union {"7f3a"}) /\ Len(q) = Len(p) /\ DOMAIN q = DOMAIN p
    <3>1. PICK n \in Nat : n = Len(p) /\ DOMAIN p = 1 .. n
      OBVIOUS
    <3>2. q \in [1 .. n -> Words \union {"7f3a"}]
      BY <1>4, <3>1
    <3>3. QED  BY <3>1, <3>2
  <2>2. \A k \in DOMAIN q : p[k] \in {":", q[k]}
    BY <1>4, <2>1
  <2>3. QED  BY <1>2, <2>1, <2>2 DEF Door!Matches
<1>6. PICK n \in Nat : DOMAIN Door!AllRoutes = 1 .. n
  BY EveryRouteIsGood
<1>7. PICK T : T = {j \in 1 .. n : Door!AllRoutes[j].verb = want.verb /\ Door!Matches(q, Door!AllRoutes[j])}
  OBVIOUS
<1>8. i \in T
  BY <1>1, <1>5, <1>6, <1>7
<1>9. ASSUME NEW j \in T, j < i
      PROVE  FALSE
  <2>1. PICK r \in RouteType : r = Door!AllRoutes[j]
    BY <1>6, <1>7, EveryRouteIsGood DEF Good
  <2>2. Takes(r, want)
    BY <1>3, <1>7, <2>1 DEF Takes
  <2>3. Clash(r, want)
    BY <2>2, TakesClash
  <2>4. QED  BY <1>1, <1>6, <1>7, <1>9, <2>1, <2>3, RoutesAreOrdered DEF Ordered
<1>10. ASSUME NEW j \in T, \A k \in 1 .. (j - 1) : k \notin T
       PROVE  j = i
  BY <1>6, <1>7, <1>8, <1>9, <1>10
<1>11. \A k \in 1 .. (i - 1) : k \in 1 .. n /\ k \notin T
  BY <1>6, <1>9
<1>12. Door!RouteOf(want.verb, q) = CHOOSE j \in DOMAIN Door!AllRoutes : j \in T /\ \A k \in 1 .. (j - 1) : k \notin T
  <2>1. \A j \in DOMAIN Door!AllRoutes :
           (/\ Door!AllRoutes[j].verb = want.verb /\ Door!Matches(q, Door!AllRoutes[j])
            /\ \A k \in 1 .. (j - 1) : ~(Door!AllRoutes[k].verb = want.verb /\ Door!Matches(q, Door!AllRoutes[k])))
             <=> (j \in T /\ \A k \in 1 .. (j - 1) : k \notin T)
    BY <1>6, <1>7
  <2>2. QED  BY <2>1 DEF Door!RouteOf
<1>13. Door!RouteOf(want.verb, q) = i
  BY <1>8, <1>10, <1>11, <1>12
<1>14. QED  BY <1>1, <1>3, <1>13

LEMMA EveryDemandIsSeeded ==
  ASSUME perm = Parts
  PROVE  Door!DemandsAreSeeded
<1>1. Seedable \subseteq (UNION {Door!Seeds[g] : g \in perm})
                           \union {<<"AVAILABILITY_EXCEPTION", "export">>, <<"USER", "manage">>}
  <2>1. ASSUME NEW p \in Door!AllPermissions
        PROVE  \E g \in perm : Door!Ability(p) \in Door!Seeds[g]
    <3>1. PICK g \in Parts : p \in Door!Permissions[g]
      BY <2>1, PartsOfTheSeed DEF Door!AllPermissions
    <3>2. Door!Seeds[g] = {Door!Ability(x) : x \in Door!Permissions[g]}
      BY PartsOfTheSeed DEF Door!Seeds
    <3>3. QED  BY <3>1, <3>2
  <2>2. PICK two : two = {<<"AVAILABILITY_EXCEPTION", "export">>, <<"USER", "manage">>}
    OBVIOUS
  <2>3. PICK U : U = UNION {Door!Seeds[g] : g \in perm}
    OBVIOUS
  <2>4. \A x \in Seedable : x \in two \/ \E p \in Door!AllPermissions : x = Door!Ability(p)
    BY <2>2 DEF Seedable
  <2>5. \A p \in Door!AllPermissions : Door!Ability(p) \in U
    BY <2>1, <2>3
  <2>6. Seedable \subseteq U \union two
    BY <2>4, <2>5
  <2>7. QED  BY <2>2, <2>3, <2>6
<1>2. ASSUME NEW i \in DOMAIN Door!AllRoutes
      PROVE  Door!Demands(Door!AllRoutes[i]) \subseteq Seedable
  <2>1. PICK r \in Good : r = Door!AllRoutes[i]
    BY <1>2, EveryRouteIsGood
  <2>2. QED  BY <2>1 DEF Good, Door!Demands
<1>3. Door!AllDemands \subseteq Seedable
  BY <1>2 DEF Door!AllDemands
<1>4. QED  BY <1>1, <1>3 DEF Door!DemandsAreSeeded

----------------------------------------------------------------------------
(* Gate: the inductive invariant.                                          *)

\* A part of the seed comes after the ones before.
SeedOrder ==
  /\ seed = "business" => "office" \in perm
  /\ seed = "later" => {"office", "business"} \subseteq perm
  /\ seed = "grants" => perm = Parts
  /\ seed \in {"users", "rest"} \/ seeded => perm = Parts /\ wired

GateInv == Door!GateTypeOK /\ SeedOrder /\ Door!RoutesAnswerTheirPaths

Repeats ==
  seed' = "failed" /\ seed # "failed" =>
    (seed = "users" /\ account = "moved") \/ (seed = "rest" /\ category = "deleted")
Reads   ==
  call.pc = "none" /\ call'.pc = "served" /\ call'.role = "viewer" /\ ~(\E e \in attached : e[1] = "viewer") =>
    ~Door!AllRoutes[call'.got].changes \/ Door!AllRoutes[call'.got].action \in Door!Levels

\* What a viewer was seeded with, and keeps unless somebody gives the role more.
LEMMA ViewersMayRead ==
  ASSUME ~(\E e \in attached : e[1] = "viewer")
  PROVE  \A a \in Door!Allowed("viewer") : a[2] = "read"
<1>1. Door!GrantsOf("viewer") = Door!ViewerGrants
  BY DEF Door!GrantsOf
<1>2. \A p \in Door!ViewerGrants : Door!Ability(p)[2] = "read"
  BY DEF Door!ViewerGrants, Door!Ability
<1>3. Door!Granted["viewer"] = {Door!Ability(p) : p \in Door!GrantsOf("viewer")}
  BY DEF Door!Granted, Door!Roles
<1>4. {Door!Ability(e[2]) : e \in {x \in attached : x[1] = "viewer"}} = {}
  OBVIOUS
<1>5. Door!Allowed("viewer") \subseteq Door!Granted["viewer"]
  BY <1>4 DEF Door!Allowed
<1>6. QED  BY <1>1, <1>2, <1>3, <1>5

\* A request gets to the route whose path it has, and is let in when its guards let it pass.
LEMMA RequestIsJudged ==
  ASSUME NEW r \in Callers, NEW i \in DOMAIN Door!AllRoutes, NEW level \in Door!Levels, NEW option \in BOOLEAN,
         Door!Request(r, i, level, option)
  PROVE  /\ call'.pc \in {"served", "refused"}
         /\ call'.want \in DOMAIN Door!AllRoutes /\ call'.got = call'.want
         /\ call'.pc = "served" => Door!Passes(call', Door!AllRoutes[call'.got])
         /\ UNCHANGED <<perm, wired, attached, detached, seed, account, category, seeded, edits>>
<1>1. PICK want : want = Door!AllRoutes[i]
  OBVIOUS
<1>2. PICK got : got = Door!RouteOf(want.verb, Door!PathOf(want)) /\ got = i
  BY <1>1, RouteIsFound
<1>3. PICK asker : asker = [pc |-> "served", role |-> IF level = "visitor" THEN "none" ELSE r, level |-> level,
                            want |-> i, got |-> got, option |-> option]
  OBVIOUS
<1>4. call' = (IF Door!Passes(asker, Door!AllRoutes[got]) THEN asker ELSE [asker EXCEPT !.pc = "refused"])
  BY <1>1, <1>2, <1>3 DEF Door!Request
<1>5. UNCHANGED <<perm, wired, attached, detached, seed, account, category, seeded, edits>>
  BY DEF Door!Request
<1>6. CASE Door!Passes(asker, Door!AllRoutes[got])
  <2>1. call' = asker
    BY <1>4, <1>6
  <2>2. asker.pc = "served" /\ asker.want = i /\ asker.got = got
    BY <1>3
  <2>3. QED  BY <1>2, <1>5, <1>6, <2>1, <2>2
<1>7. CASE ~Door!Passes(asker, Door!AllRoutes[got])
  <2>1. call' = [asker EXCEPT !.pc = "refused"]
    BY <1>4, <1>7
  <2>2. call'.pc = "refused" /\ call'.want = i /\ call'.got = got
    BY <1>3, <2>1
  <2>3. QED  BY <1>2, <1>5, <2>2
<1>8. QED  BY <1>6, <1>7

LEMMA RequestKeeps ==
  ASSUME GateInv, NEW r \in Callers, NEW i \in DOMAIN Door!AllRoutes, NEW level \in Door!Levels,
         NEW option \in BOOLEAN, Door!Request(r, i, level, option)
  PROVE  GateInv' /\ Repeats /\ Reads
<1>1. GateInv'
  BY RequestIsJudged DEF GateInv, Door!GateTypeOK, Door!RoutesAnswerTheirPaths, SeedOrder
<1>2. Repeats
  BY RequestIsJudged DEF Repeats
<1>3. ASSUME call'.pc = "served", call'.role = "viewer", ~(\E e \in attached : e[1] = "viewer"),
             Door!AllRoutes[call'.got].action \notin Door!Levels
      PROVE  ~Door!AllRoutes[call'.got].changes
  <2>1. PICK route \in Good : route = Door!AllRoutes[call'.got]
    BY RequestIsJudged, EveryRouteIsGood
  <2>2. PICK asker : asker = call'
    OBVIOUS
  <2>3. Door!Passes(asker, route)
    BY <1>3, <2>1, <2>2, RequestIsJudged
  <2>4. PICK asked : asked = {route.action} \union (IF asker.option THEN route.extra ELSE {})
    OBVIOUS
  <2>5. {route.subject} \X asked \subseteq Door!Allowed("viewer")
    BY <1>3, <2>1, <2>2, <2>3, <2>4 DEF Door!Passes
  <2>6. <<route.subject, route.action>> \in Door!Allowed("viewer")
    BY <2>4, <2>5
  <2>7. route.action = "read"
    BY <1>3, <2>6, ViewersMayRead
  <2>8. QED  BY <1>3, <2>1, <2>7 DEF Good
<1>4. Reads
  BY <1>3 DEF Reads
<1>5. QED  BY <1>1, <1>2, <1>4

LEMMA GateStep ==
  ASSUME GateInv, Door!Next
  PROVE  GateInv' /\ Repeats /\ Reads
<1> USE DEF GateInv, Door!GateTypeOK, Door!RoutesAnswerTheirPaths, SeedOrder, Repeats
<1>1. \/ \E r \in Callers, i \in DOMAIN Door!AllRoutes, level \in Door!Levels, option \in BOOLEAN :
           Door!Request(r, i, level, option)
      \/ Door!Leave \/ UNCHANGED call
  BY DEF Door!Next, Door!SomeRequest, Door!SeedAgain, Door!SeedPermissions, Door!SeedGrants, Door!SeedUsers,
         Door!SeedRest, Door!SeedStops, Door!Edit, Door!MoveCategory, Door!MoveAccount
<1>2. CASE \E r \in Callers, i \in DOMAIN Door!AllRoutes, level \in Door!Levels, option \in BOOLEAN :
             Door!Request(r, i, level, option)
  BY <1>2, RequestKeeps
<1>3. CASE Door!Leave
  <2>1. Door!NoCall.pc = "none" /\ Door!NoCall.want = 1 /\ Door!NoCall.got = 1
    BY DEF Door!NoCall
  <2>2. call' = Door!NoCall /\ UNCHANGED <<perm, wired, attached, detached, seed, account, category, seeded, edits>>
    BY <1>3 DEF Door!Leave
  <2>3. QED  BY <2>1, <2>2, ThereAreRoutes DEF Reads
<1>4. CASE UNCHANGED call
  <2>1. Reads
    BY <1>4 DEF Reads
  <2>2. CASE Door!SeedAgain
    BY <2>1, <2>2 DEF Door!SeedAgain
  <2>3. CASE Door!SeedPermissions
    <3>1. PICK step \in {<<"begin", "office", "business">>, <<"business", "business", "later">>,
                         <<"later", "later", "grants">>} :
            /\ seed = step[1] /\ perm' = perm \union {step[2]} /\ seed' = step[3]
            /\ UNCHANGED <<wired, attached, detached, account, category, seeded, edits, call>>
      BY <2>3 DEF Door!SeedPermissions
    <3>2. CASE step = <<"begin", "office", "business">>
      BY <2>1, <3>1, <3>2, PartsOfTheSeed DEF Parts
    <3>3. CASE step = <<"business", "business", "later">>
      BY <2>1, <3>1, <3>3, PartsOfTheSeed DEF Parts
    <3>4. CASE step = <<"later", "later", "grants">>
      BY <2>1, <3>1, <3>4, PartsOfTheSeed DEF Parts
    <3>5. QED  BY <3>1, <3>2, <3>3, <3>4
  <2>4. CASE Door!SeedGrants
    BY <2>1, <2>4, PartsOfTheSeed, NothingIsMisnamed DEF Door!SeedGrants
  <2>5. CASE Door!SeedRest
    BY <2>1, <2>5 DEF Door!SeedRest
  <2>6. CASE Door!SeedStops
    BY <2>1, <2>6 DEF Door!SeedStops
  <2>10. CASE Door!SeedUsers
    BY <2>1, <2>10 DEF Door!SeedUsers
  <2>7. ASSUME NEW r \in Callers, NEW p \in Edits, Door!Edit(r, p)
        PROVE  GateInv' /\ Repeats
    <3>1. edits' \in 0 .. MaxEdits
      BY <2>7, BackofficeAssumption DEF Door!Edit, Door!GateAssumption
    <3>2. attached' \union detached' \subseteq Callers \X Edits
      BY <2>7 DEF Door!Edit
    <3>3. QED  BY <1>4, <2>7, <3>1, <3>2 DEF Door!Edit
  <2>8. CASE Door!MoveCategory
    <3>1. edits' \in 0 .. MaxEdits
      BY <2>8, BackofficeAssumption DEF Door!MoveCategory, Door!GateAssumption
    <3>2. QED  BY <2>1, <2>8, <3>1 DEF Door!MoveCategory
  <2>9. CASE Door!MoveAccount
    <3>1. edits' \in 0 .. MaxEdits
      BY <2>9, BackofficeAssumption DEF Door!MoveAccount, Door!GateAssumption
    <3>2. QED  BY <2>1, <2>9, <3>1 DEF Door!MoveAccount
  <2>11. QED
    BY <1>2, <1>3, <2>1, <2>2, <2>3, <2>4, <2>5, <2>6, <2>7, <2>8, <2>9, <2>10 DEF Door!Next, Door!SomeRequest
<1>5. QED  BY <1>1, <1>2, <1>3, <1>4

LEMMA GateInit ==
  ASSUME Door!Init
  PROVE  GateInv
BY ThereAreRoutes, BackofficeAssumption
   DEF Door!Init, Door!NoCall, GateInv, Door!GateTypeOK, Door!RoutesAnswerTheirPaths, SeedOrder, Door!GateAssumption

LEMMA GateStays ==
  ASSUME GateInv, UNCHANGED door
  PROVE  GateInv' /\ Repeats /\ Reads
BY DEF GateInv, Door!GateTypeOK, Door!RoutesAnswerTheirPaths, SeedOrder, Repeats, Reads, door

----------------------------------------------------------------------------
(* Listing: the inductive invariant.                                       *)

ReaderType ==
  [pc : {"idle", "page", "done"}, export : BOOLEAN, mode : {"include", "only", "exclude"}, network : BOOLEAN,
   page : Nat, got : BOOLEAN, data : SUBSET Records, counted : BOOLEAN, total : Nat,
   shown : SUBSET Records, steady : SUBSET Records,
   came : BOOLEAN, left : BOOLEAN, between : BOOLEAN, full : BOOLEAN]

ListTypes ==
  /\ list \in Lists!Tables /\ date \in [Records -> Nat]
  /\ rows \subseteq Records /\ gone \subseteq rows /\ (list.deletes = "row" => gone = {})
  /\ reader \in ReaderType /\ moves \in 0 .. MaxMoves

\* What a query of the reader finds, how many rows of S have a later date, and how
\* many rows the pages before have had.
Finds        == Lists!Found(reader.mode)
Before(S, r) == Cardinality({x \in S : date[x] > date[r]})
Skipped      == reader.page * PageSize

\* As long as no row comes, the ones shown stay on the pages before, and no page shows
\* them again.
Shown(r) ==
  /\ r \in reader.shown \intersect Finds => Before(Finds, r) < Skipped
  /\ reader.got /\ r \in reader.data => /\ r \notin reader.shown
                                        /\ ~reader.export /\ r \in Finds => Before(Finds, r) < Skipped + PageSize

\* As long as no row leaves, and none moves between a page and its count, the rows of
\* the pages before have been shown; and those of a page are on it.
Seen(r) ==
  ~reader.export /\ ~Lists!Tied(r) =>
       /\ Before(Finds, r) < Skipped => r \in reader.shown
       /\ reader.got /\ Before(Finds, r) >= Skipped /\ Before(Finds, r) < Skipped + PageSize => r \in reader.data

\* The one page of an export has every row, unless it is full, whatever moves then.
Whole(r) == reader.export /\ reader.got => r \in reader.data \/ Cardinality(reader.data) = list.export

Pages ==
  reader.pc = "page" =>
    /\ reader.steady \subseteq Finds /\ \A r \in reader.steady : Lists!Fits(reader, r) /\ Whole(r)
    /\ reader.export => reader.page = 0 /\ reader.shown = {}
    /\ ~reader.came => \A r \in Records : ~Lists!Tied(r) => Shown(r)
    /\ ~reader.left /\ ~reader.between => /\ reader.counted => reader.total = Cardinality(Finds)
                                          /\ \A r \in reader.steady : Seen(r)

Missed  == Lists!ListsMissNothing /\ Lists!ExportsMissNothing
ListInv == ListTypes /\ Pages /\ Missed

----------------------------------------------------------------------------
(* Places and dates.                                                       *)

\* Listing counts as the library does.
LEMMA Counting ==
  /\ \A S : Lists!Cardinality(S) = Cardinality(S)
  /\ \A S : Lists!IsFiniteSet(S) <=> IsFiniteSet(S)
  /\ \A S, T : Lists!Bijection(S, T) = Bijection(S, T)
BY DEF Lists!Cardinality, Cardinality, Lists!IsFiniteSet, IsFiniteSet, Lists!Bijection, Bijection,
       Lists!Injection, Injection, Lists!Surjection, Surjection, Lists!IsInjective, IsInjective

LEMMA ListConstants ==
  /\ IsFiniteSet(Records) /\ Calendars \subseteq [Records -> Nat]
  /\ PageSize \in Nat /\ PageSize > 0 /\ MaxMoves \in Nat /\ PageCap \in Nat /\ Many \in Nat
BY BackofficeAssumption, Counting DEF BackofficeAssumption, Lists!ListingAssumption

LEMMA RowsAreFinite ==
  ASSUME NEW S \in SUBSET Records
  PROVE  IsFiniteSet(S) /\ Cardinality(S) \in Nat
BY ListConstants, FS_Subset, FS_CardinalityType

\* An order gives the first k places to k rows.
LEMMA PlacesAreTaken ==
  ASSUME NEW S \in SUBSET Records, NEW place \in Lists!Orders(S), NEW k \in 0 .. Cardinality(S)
  PROVE  Cardinality({x \in S : place[x] < k}) = k
<1>1. PICK n \in Nat : n = Cardinality(S)
  BY RowsAreFinite
<1>2. place \in [S -> 0 .. n - 1] /\ (\A a, b \in S : place[a] = place[b] => a = b)
      /\ \A i \in 0 .. n - 1 : \E x \in S : place[x] = i
  BY <1>1, Counting DEF Lists!Orders, Bijection, Injection, Surjection, IsInjective
<1>3. PICK W \in SUBSET Records : W = {x \in S : place[x] < k}
  OBVIOUS
<1>4. PICK f : f = [x \in W |-> place[x]]
  OBVIOUS
<1>5. f \in [W -> 0 .. k - 1]
  BY <1>1, <1>2, <1>3, <1>4
<1>6. f \in Injection(W, 0 .. k - 1)
  BY <1>2, <1>3, <1>4, <1>5 DEF Injection, IsInjective
<1>7. f \in Surjection(W, 0 .. k - 1)
  <2>1. ASSUME NEW i \in 0 .. k - 1
        PROVE  \E x \in W : f[x] = i
    <3>1. PICK x \in S : place[x] = i
      BY <1>1, <1>2
    <3>2. x \in W /\ f[x] = i
      BY <1>3, <1>4, <3>1
    <3>3. QED  BY <3>2
  <2>2. QED  BY <1>5, <2>1 DEF Surjection
<1>8. ExistsBijection(W, 0 .. k - 1)
  BY <1>6, <1>7 DEF ExistsBijection, Bijection
<1>9. Cardinality(0 .. k - 1) = Cardinality(W)
  BY <1>8, RowsAreFinite, FS_Bijection
<1>10. k \in Nat /\ k - 1 \in Int /\ 0 \in Int
  BY <1>1
<1>11. Cardinality(0 .. k - 1) = IF 0 > k - 1 THEN 0 ELSE k - 1 - 0 + 1
  BY <1>10, FS_Interval
<1>12. QED  BY <1>3, <1>9, <1>10, <1>11

\* A row of a date of its own has the place after the rows of a later date.
LEMMA PlaceOf ==
  ASSUME date \in [Records -> Nat], NEW S \in SUBSET Records, NEW place \in Lists!Orders(S),
         NEW r \in S, ~Lists!Tied(r)
  PROVE  place[r] = Before(S, r)
<1>1. PICK n \in Nat : n = Cardinality(S)
  BY RowsAreFinite
<1>2. place \in [S -> 0 .. n - 1]
      /\ \A x, y \in S : (place[x] = place[y] => x = y) /\ (date[x] > date[y] => place[x] < place[y])
  BY <1>1, Counting DEF Lists!Orders, Bijection, Injection, IsInjective
<1>3. \A x \in S : date[x] \in Nat /\ (x # r => date[x] # date[r])
  BY DEF Lists!Tied
<1>4. {x \in S : date[x] > date[r]} = {x \in S : place[x] < place[r]}
  BY <1>2, <1>3
<1>5. place[r] \in 0 .. Cardinality(S)
  BY <1>1, <1>2
<1>6. QED  BY <1>4, <1>5, PlacesAreTaken DEF Before

LEMMA BeforeGrows ==
  ASSUME date \in [Records -> Nat], NEW T \in SUBSET Records, NEW S \in SUBSET T, NEW r \in Records
  PROVE  Before(S, r) \in Nat /\ Before(T, r) \in Nat /\ Before(S, r) <= Before(T, r)
<1>1. {x \in S : date[x] > date[r]} \in SUBSET {x \in T : date[x] > date[r]}
      /\ {x \in T : date[x] > date[r]} \in SUBSET Records /\ {x \in S : date[x] > date[r]} \in SUBSET Records
  OBVIOUS
<1>2. QED  BY <1>1, RowsAreFinite, FS_Subset DEF Before

LEMMA BeforeIsLess ==
  ASSUME date \in [Records -> Nat], NEW S \in SUBSET Records, NEW r \in S
  PROVE  Before(S, r) < Cardinality(S)
<1>1. {x \in S : date[x] > date[r]} \in SUBSET S /\ r \notin {x \in S : date[x] > date[r]}
  OBVIOUS
<1>2. {x \in S : date[x] > date[r]} # S
  BY <1>1
<1>3. {x \in S : date[x] > date[r]} \in SUBSET Records
  OBVIOUS
<1>4. QED  BY <1>1, <1>2, <1>3, RowsAreFinite, FS_Subset DEF Before

----------------------------------------------------------------------------
(* Every action of Listing keeps the invariant.                            *)

LEMMA FindsAreRecords ==
  ASSUME ListTypes
  PROVE  Finds \in SUBSET Records /\ Finds \subseteq rows
BY DEF ListTypes, Finds, Lists!Found

LEMMA ReadingBegins ==
  ASSUME ListInv, NEW f \in Lists!Flags, NEW network \in BOOLEAN, NEW export \in BOOLEAN,
         Lists!Begin(f, network, export)
  PROVE  ListInv'
<1>1. ListTypes
  BY DEF ListInv
<1>2. PICK mode \in {"include", "only", "exclude"} : mode = Lists!Mode(f)
  BY DEF Lists!Mode
<1>3. PICK rd : rd = [Lists!Idle("page") EXCEPT !.mode = mode, !.network = network, !.export = export]
  OBVIOUS
<1>4. PICK S : S = Lists!Wanted(rd)
  OBVIOUS
<1>5. rd = [pc |-> "page", export |-> export, mode |-> mode, network |-> network, page |-> 0,
            got |-> FALSE, data |-> {}, counted |-> FALSE, total |-> 0, shown |-> {}, steady |-> {},
            came |-> FALSE, left |-> FALSE, between |-> FALSE, full |-> FALSE]
  BY <1>3 DEF Lists!Idle
<1>6. S \subseteq Lists!Found(mode) /\ S \subseteq Records /\ \A r \in S : Lists!Fits(rd, r)
  BY <1>1, <1>4, <1>5 DEF Lists!Wanted, Lists!Found, ListTypes
<1>7. PICK new : new = [rd EXCEPT !.steady = S]
  OBVIOUS
<1>8. new = [pc |-> "page", export |-> export, mode |-> mode, network |-> network, page |-> 0,
             got |-> FALSE, data |-> {}, counted |-> FALSE, total |-> 0, shown |-> {}, steady |-> S,
             came |-> FALSE, left |-> FALSE, between |-> FALSE, full |-> FALSE]
  BY <1>5, <1>7
<1>9. reader' = new /\ UNCHANGED <<list, date, rows, gone, unfit, moves>>
  BY <1>2, <1>3, <1>4, <1>7 DEF Lists!Begin
<1>10. new \in ReaderType
  BY <1>6, <1>8 DEF ReaderType
<1>11. ListTypes'
  BY <1>1, <1>9, <1>10 DEF ListTypes
<1>12. /\ new.pc = "page" /\ new.mode = mode /\ new.page = 0 /\ new.got = FALSE /\ new.counted = FALSE
       /\ new.shown = {} /\ new.steady = S /\ new.network = rd.network
  BY <1>5, <1>8
<1>13. Finds' = Lists!Found(mode) /\ Skipped' = 0
  BY <1>9, <1>12, ListConstants DEF Finds, Skipped, Lists!Found, Lists!Where
<1>14. \A r \in S : Lists!Fits(reader, r)'
  BY <1>6, <1>9, <1>12 DEF Lists!Fits
<1>15. \A r \in Records : Before(Finds, r)' \in Nat
  <2>1. ASSUME NEW r \in Records
        PROVE  Before(Finds, r)' \in Nat
    <3>1. PICK U \in SUBSET Records : U = {x \in Finds : date[x] > date[r]}'
      BY <1>11 DEF ListTypes, Finds, Lists!Found
    <3>2. Cardinality(U) \in Nat
      BY RowsAreFinite
    <3>3. QED  BY <3>1, <3>2 DEF Before
  <2>2. QED  BY <2>1
<1>16. Pages'
  <2>1. \A r \in Records : Shown(r)'
    BY <1>9, <1>12 DEF Shown
  <2>2. \A r \in S : Seen(r)' /\ Whole(r)'
    BY <1>6, <1>9, <1>12, <1>13, <1>15 DEF Seen, Whole
  <2>3. QED  BY <1>6, <1>9, <1>12, <1>13, <1>14, <2>1, <2>2 DEF Pages
<1>17. Missed'
  BY <1>9, <1>12 DEF Missed, Lists!ListsMissNothing, Lists!ExportsMissNothing
<1>18. QED  BY <1>11, <1>16, <1>17 DEF ListInv

LEMMA CountKeeps ==
  ASSUME ListInv, Lists!Count
  PROVE  ListInv'
<1>1. ListTypes /\ Pages /\ Missed
  BY DEF ListInv
<1>2. PICK n \in Nat : n = Cardinality(Finds)
  BY <1>1, FindsAreRecords, RowsAreFinite
<1>3. PICK old \in ReaderType : old = reader
  BY <1>1 DEF ListTypes
<1>4. PICK new : new = [old EXCEPT !.counted = TRUE, !.total = n]
  OBVIOUS
<1>5. reader' = new /\ reader.pc = "page" /\ UNCHANGED <<list, date, rows, gone, unfit, moves>>
  BY <1>2, <1>3, <1>4, Counting DEF Lists!Count, Finds
<1>6. /\ new \in ReaderType /\ new.total = n /\ new.pc = old.pc /\ new.export = old.export /\ new.mode = old.mode
      /\ new.network = old.network /\ new.page = old.page /\ new.got = old.got /\ new.data = old.data
      /\ new.shown = old.shown /\ new.steady = old.steady /\ new.came = old.came /\ new.left = old.left
      /\ new.between = old.between
  BY <1>3, <1>4 DEF ReaderType
<1>7. ListTypes'
  BY <1>1, <1>5, <1>6 DEF ListTypes
<1>8. Finds' = Finds /\ Skipped' = Skipped
  BY <1>3, <1>5, <1>6 DEF Finds, Skipped, Lists!Found, Lists!Where
<1>9. \A r : /\ Before(Finds, r)' = Before(Finds, r) /\ (Lists!Tied(r)' <=> Lists!Tied(r))
             /\ (Lists!Fits(reader, r)' <=> Lists!Fits(reader, r))
  BY <1>3, <1>5, <1>6, <1>8 DEF Before, Lists!Tied, Lists!Fits
<1>10. \A r : (Shown(r)' <=> Shown(r)) /\ (Seen(r)' <=> Seen(r)) /\ (Whole(r)' <=> Whole(r))
  BY <1>3, <1>5, <1>6, <1>8, <1>9 DEF Shown, Seen, Whole
<1>11. Pages'
  BY <1>1, <1>2, <1>3, <1>5, <1>6, <1>8, <1>9, <1>10 DEF Pages
<1>12. Missed'
  BY <1>3, <1>5, <1>6 DEF Missed, Lists!ListsMissNothing, Lists!ExportsMissNothing
<1>13. QED  BY <1>7, <1>11, <1>12 DEF ListInv

\* The page that a query finds: of the rows with a date of their own, those that have
\* as many later ones before them; and an export that leaves a row out is full.
LEMMA PageHas ==
  ASSUME date \in [Records -> Nat], NEW S \in SUBSET Records, NEW place \in Lists!Orders(S),
         NEW skip \in Nat, NEW take \in Nat, NEW W, W = Lists!Window(place, skip, take)
  PROVE  /\ W \in SUBSET S
         /\ \A r \in S : ~Lists!Tied(r) => (r \in W <=> Before(S, r) >= skip /\ Before(S, r) < skip + take)
         /\ skip = 0 => \A r \in S \ W : Cardinality(W) = take
<1>1. PICK n \in Nat : n = Cardinality(S)
  BY RowsAreFinite
<1>2. place \in [S -> 0 .. n - 1]
  BY <1>1, Counting DEF Lists!Orders, Bijection, Injection
<1>3. W = {r \in S : place[r] >= skip /\ place[r] < skip + take}
  BY <1>2 DEF Lists!Window
<1>4. \A r \in S : ~Lists!Tied(r) => place[r] = Before(S, r)
  BY PlaceOf
<1>5. ASSUME skip = 0, NEW r \in S \ W
      PROVE  Cardinality(W) = take
  <2>1. place[r] >= take /\ place[r] \in 0 .. n - 1
    BY <1>2, <1>3, <1>5
  <2>2. take \in 0 .. Cardinality(S)
    BY <1>1, <2>1
  <2>3. W = {x \in S : place[x] < take}
    BY <1>2, <1>3, <1>5
  <2>4. QED  BY <2>2, <2>3, PlacesAreTaken
<1>6. QED  BY <1>3, <1>4, <1>5

LEMMA SizesAreNumbers ==
  ASSUME ListTypes
  PROVE  list.export \in Nat /\ Lists!Take \in Nat
<1>1. Lists!Everything \in Nat
  BY ListConstants, Counting, FS_CardinalityType DEF Lists!Everything
<1>2. Lists!RolesExport \in Nat
  BY ListConstants DEF Lists!RolesExport, Lists!Smaller
<1>3. \A t \in Lists!Tables : t.export \in Nat
  BY <1>1, <1>2, ListConstants
     DEF Lists!Tables, Lists!Table, Lists!Users, Lists!Posts, Lists!Appointments, Lists!Campaigns,
         Lists!Generations, Lists!Messages, Lists!Calls, Lists!Backups, Lists!Categories, Lists!Roles,
         Lists!Exceptions, Lists!ActivityLogs, Lists!UsersExport, Lists!PostsExport,
         Lists!AppointmentsExport, Lists!CampaignsExport, Lists!GenerationsExport, Lists!MessagesExport,
         Lists!CallsExport, Lists!BackupsExport, Lists!CategoriesExport, Lists!ExceptionsExport
<1>4. QED  BY <1>3, ListConstants DEF ListTypes, Lists!Take

LEMMA SkippedIsANumber ==
  ASSUME ListTypes
  PROVE  reader.page \in Nat /\ Skipped \in Nat
<1>1. PICK n \in Nat : n = reader.page
  BY DEF ListTypes, ReaderType
<1>2. n * PageSize \in Nat
  BY ListConstants
<1>3. QED  BY <1>1, <1>2 DEF Skipped

LEMMA DataKeeps ==
  ASSUME ListInv, Lists!Data
  PROVE  ListInv'
<1>1. ListTypes /\ Pages /\ Missed
  BY DEF ListInv
<1>2. PICK S \in SUBSET Records : S = Finds
  BY <1>1, FindsAreRecords
<1>3. PICK old \in ReaderType : old = reader
  BY <1>1 DEF ListTypes
<1>4. PICK skip \in Nat, take \in Nat : skip = Skipped /\ take = Lists!Take
  BY <1>1, SkippedIsANumber, SizesAreNumbers
<1>5. PICK place \in Lists!Orders(S) :
        reader' = [reader EXCEPT !.got = TRUE, !.data = Lists!Window(place, skip, take)]
  BY <1>2, <1>4 DEF Lists!Data, Finds, Skipped
<1>6. PICK W : W = Lists!Window(place, skip, take)
  OBVIOUS
<1>7. /\ W \in SUBSET S
      /\ \A r \in S : ~Lists!Tied(r) => (r \in W <=> Before(S, r) >= skip /\ Before(S, r) < skip + take)
      /\ skip = 0 => \A r \in S \ W : Cardinality(W) = take
  BY <1>1, <1>6, PageHas DEF ListTypes
<1>8. PICK new : new = [old EXCEPT !.got = TRUE, !.data = W]
  OBVIOUS
<1>9. reader' = new /\ reader.pc = "page" /\ UNCHANGED <<list, date, rows, gone, unfit, moves>>
  BY <1>3, <1>5, <1>6, <1>8 DEF Lists!Data
<1>10. /\ new \in ReaderType /\ new.data = W /\ new.pc = old.pc /\ new.export = old.export /\ new.mode = old.mode
       /\ new.network = old.network /\ new.page = old.page /\ new.counted = old.counted /\ new.total = old.total
       /\ new.shown = old.shown /\ new.steady = old.steady /\ new.came = old.came /\ new.left = old.left
       /\ new.between = old.between
  BY <1>2, <1>3, <1>7, <1>8 DEF ReaderType
<1>11. ListTypes'
  BY <1>1, <1>9, <1>10 DEF ListTypes
<1>12. Finds' = S /\ Skipped' = skip
  BY <1>2, <1>3, <1>4, <1>9, <1>10 DEF Finds, Skipped, Lists!Found, Lists!Where
<1>13. \A r : /\ Before(Finds, r)' = Before(S, r) /\ (Lists!Tied(r)' <=> Lists!Tied(r))
              /\ (Lists!Fits(reader, r)' <=> Lists!Fits(reader, r))
  BY <1>3, <1>9, <1>10, <1>12 DEF Before, Lists!Tied, Lists!Fits
<1>14. ~old.export => take = PageSize
  BY <1>3, <1>4 DEF Lists!Take
<1>15. old.export => take = list.export /\ skip = 0
  BY <1>1, <1>3, <1>4, <1>9, ListConstants DEF Lists!Take, Pages, Skipped
<1>16. \A r \in Records : Before(S, r) \in Nat
  BY <1>1, BeforeGrows DEF ListTypes
<1>17. ASSUME ~old.came, NEW r \in Records, ~Lists!Tied(r)
       PROVE  Shown(r)'
  <2>1. Shown(r) /\ (old.export => old.shown = {})
    BY <1>1, <1>3, <1>9, <1>17 DEF Pages
  <2>2. r \in old.shown \intersect S => Before(S, r) < skip
    BY <1>2, <1>3, <1>4, <2>1 DEF Shown
  <2>3. r \in W => r \notin old.shown
    BY <1>7, <1>16, <1>17, <2>2
  <2>4. r \in W /\ ~old.export => Before(S, r) < skip + PageSize
    BY <1>7, <1>14, <1>17
  <2>5. QED  BY <1>9, <1>10, <1>12, <1>13, <2>2, <2>3, <2>4 DEF Shown
<1>18. ASSUME ~old.left, ~old.between, NEW r \in old.steady
       PROVE  Seen(r)'
  <2>1. Seen(r) /\ r \in S
    BY <1>1, <1>2, <1>3, <1>9, <1>18 DEF Pages
  <2>2. ~old.export /\ ~Lists!Tied(r) /\ Before(S, r) >= skip /\ Before(S, r) < skip + PageSize => r \in W
    BY <1>7, <1>14, <2>1
  <2>3. ~old.export /\ ~Lists!Tied(r) /\ Before(S, r) < skip => r \in old.shown
    BY <1>2, <1>3, <1>4, <2>1 DEF Seen
  <2>4. QED  BY <1>9, <1>10, <1>12, <1>13, <2>2, <2>3 DEF Seen
<1>19. ASSUME NEW r \in old.steady
       PROVE  r \in S /\ Whole(r)'
  <2>1. r \in S
    BY <1>1, <1>2, <1>3, <1>9 DEF Pages
  <2>2. old.export => r \in W \/ Cardinality(W) = list.export
    BY <1>7, <1>15, <2>1
  <2>3. QED  BY <1>9, <1>10, <2>1, <2>2 DEF Whole
<1>20. Pages'
  BY <1>1, <1>2, <1>3, <1>9, <1>10, <1>12, <1>13, <1>17, <1>18, <1>19 DEF Pages
<1>21. Missed'
  BY <1>3, <1>9, <1>10 DEF Missed, Lists!ListsMissNothing, Lists!ExportsMissNothing
<1>22. QED  BY <1>11, <1>20, <1>21 DEF ListInv

Once == Lists!Turn => \A r \in Lists!Filtered \intersect reader.shown : reader.came \/ Lists!Tied(r)

LEMMA TurnIsOnce ==
  ASSUME ListInv
  PROVE  Once
<1>1. SUFFICES ASSUME Lists!Turn, NEW r \in Lists!Filtered \intersect reader.shown, ~reader.came, ~Lists!Tied(r)
      PROVE  FALSE
  BY DEF Once
<1>2. reader.pc = "page" /\ reader.got
  BY <1>1 DEF Lists!Turn
<1>3. r \in Records /\ r \in reader.data /\ r \in reader.shown
  BY <1>1 DEF ListInv, ListTypes, ReaderType, Lists!Filtered
<1>4. Shown(r)
  BY <1>1, <1>2, <1>3 DEF ListInv, Pages
<1>5. QED  BY <1>2, <1>3, <1>4 DEF Shown

LEMMA TurnKeeps ==
  ASSUME ListInv, Lists!Turn
  PROVE  ListInv'
<1>1. ListTypes /\ Pages
  BY DEF ListInv
<1>2. PICK S \in SUBSET Records : S = Finds
  BY <1>1, FindsAreRecords
<1>3. PICK old \in ReaderType : old = reader
  BY <1>1 DEF ListTypes
<1>4. PICK skip \in Nat : skip = Skipped /\ skip = old.page * PageSize
  BY <1>1, <1>3, SkippedIsANumber DEF Skipped
<1>5. (old.page + 1) * PageSize = skip + PageSize
  <2>1. PICK n \in Nat : n = old.page
    BY <1>3 DEF ReaderType
  <2>2. (n + 1) * PageSize = n * PageSize + PageSize
    BY ListConstants
  <2>3. QED  BY <1>4, <2>1, <2>2
<1>6. PICK last \in BOOLEAN : last <=> old.export \/ (old.page + 1) * PageSize >= old.total
  OBVIOUS
<1>7. PICK full \in BOOLEAN : full <=> old.export /\ Cardinality(old.data) = list.export
  OBVIOUS
<1>8. PICK pc \in {"page", "done"} : (pc = "done" <=> last)
  <2>1. CASE last
    BY <2>1
  <2>2. CASE ~last
    BY <2>2
  <2>3. QED  BY <2>1, <2>2
<1>9. PICK Q \in SUBSET Records : Q = Lists!Filtered /\ Q = {r \in old.data : Lists!Fits(reader, r)}
  BY <1>3 DEF ReaderType, Lists!Filtered
<1>10. PICK new : new = [old EXCEPT !.pc = pc, !.page = old.page + 1, !.got = FALSE, !.data = {},
                                    !.counted = FALSE, !.total = 0, !.shown = old.shown \union Q, !.full = full]
  OBVIOUS
<1>11. reader.pc = "page" /\ reader.got /\ reader.counted /\ UNCHANGED <<list, date, rows, gone, unfit, moves>>
  BY DEF Lists!Turn
<1>12. reader' = new
  <2>1. reader' = [old EXCEPT !.pc = IF last THEN "done" ELSE old.pc, !.page = old.page + 1, !.got = FALSE,
                              !.data = {}, !.counted = FALSE, !.total = 0, !.shown = old.shown \union Q,
                              !.full = full]
    <3>1. (reader.export /\ Lists!Cardinality(reader.data) = list.export) = full
      BY <1>3, <1>7, Counting DEF ReaderType
    <3>2. reader' = [old EXCEPT !.pc = IF last THEN "done" ELSE old.pc, !.page = old.page + 1, !.got = FALSE,
                                !.data = {}, !.counted = FALSE, !.total = 0, !.shown = old.shown \union Q,
                                !.full = (reader.export /\ Lists!Cardinality(reader.data) = list.export)]
      BY <1>3, <1>6, <1>9 DEF Lists!Turn
    <3>3. QED  BY <3>1, <3>2
  <2>2. (IF last THEN "done" ELSE old.pc) = pc
    BY <1>3, <1>8, <1>11
  <2>3. QED  BY <1>10, <2>1, <2>2
<1>13. /\ new \in ReaderType /\ new.pc = pc /\ new.page = old.page + 1 /\ new.got = FALSE /\ new.counted = FALSE
       /\ new.shown = old.shown \union Q /\ new.export = old.export /\ new.mode = old.mode
       /\ new.network = old.network /\ new.steady = old.steady /\ new.came = old.came /\ new.left = old.left
       /\ new.between = old.between /\ new.full = full
  <2>1. old.page + 1 \in Nat
    BY <1>3 DEF ReaderType
  <2>2. old.shown \union Q \in SUBSET Records
    BY <1>3, <1>9 DEF ReaderType
  <2>3. new \in ReaderType
    BY <1>8, <1>10, <2>1, <2>2 DEF ReaderType
  <2>4. QED  BY <1>3, <1>10, <2>3 DEF ReaderType
<1>14. ListTypes'
  BY <1>1, <1>11, <1>12, <1>13 DEF ListTypes
<1>15. Finds' = S /\ Skipped' = skip + PageSize
  BY <1>2, <1>3, <1>5, <1>11, <1>12, <1>13, ListConstants DEF Finds, Skipped, Lists!Found, Lists!Where
<1>16. \A r : /\ Before(Finds, r)' = Before(S, r) /\ (Lists!Tied(r)' <=> Lists!Tied(r))
              /\ (Lists!Fits(reader, r)' <=> Lists!Fits(reader, r))
  BY <1>3, <1>11, <1>12, <1>13, <1>15 DEF Before, Lists!Tied, Lists!Fits
<1>17. \A r \in Records : Before(S, r) \in Nat
  BY <1>1, BeforeGrows DEF ListTypes
<1>18. ASSUME ~old.export, ~old.came, NEW r \in Records, ~Lists!Tied(r)
       PROVE  Shown(r)'
  <2>1. Shown(r)
    BY <1>1, <1>3, <1>11, <1>18 DEF Pages
  <2>2. r \in old.shown \intersect S => Before(S, r) < skip
    BY <1>2, <1>3, <1>4, <2>1 DEF Shown
  <2>3. r \in Q \intersect S => Before(S, r) < skip + PageSize
    BY <1>2, <1>3, <1>4, <1>9, <1>11, <1>18, <2>1 DEF Shown
  <2>4. r \in (old.shown \union Q) \intersect S => Before(S, r) < skip + PageSize
    BY <1>17, <2>2, <2>3, ListConstants
  <2>5. QED  BY <1>12, <1>13, <1>15, <1>16, <2>4 DEF Shown
<1>19. \A r \in old.steady : r \in S /\ Lists!Fits(reader, r) /\ Whole(r) /\ (r \in old.data => r \in Q)
  BY <1>1, <1>2, <1>3, <1>9, <1>11 DEF Pages
<1>20. ASSUME ~old.left, ~old.between, ~old.export, NEW r \in old.steady, ~Lists!Tied(r),
              Before(S, r) < skip + PageSize
       PROVE  r \in old.shown \union Q
  <2>1. Seen(r)
    BY <1>1, <1>3, <1>11, <1>20 DEF Pages
  <2>2. r \in Records
    BY <1>2, <1>19, <1>20
  <2>3. CASE Before(S, r) < skip
    BY <1>2, <1>3, <1>4, <1>20, <2>1, <2>3 DEF Seen
  <2>4. CASE Before(S, r) >= skip
    BY <1>2, <1>3, <1>4, <1>11, <1>19, <1>20, <2>1, <2>4 DEF Seen
  <2>5. QED  BY <1>17, <2>2, <2>3, <2>4
<1>21. Pages'
  <2>1. CASE pc = "done"
    BY <1>12, <1>13, <2>1 DEF Pages
  <2>2. CASE pc = "page"
    <3>1. ~old.export
      BY <1>6, <1>8, <2>2
    <3>2. ASSUME ~old.left, ~old.between, NEW r \in old.steady
          PROVE  Seen(r)'
      <4>1. ~Lists!Tied(r) /\ Before(S, r) < skip + PageSize => r \in old.shown \union Q
        BY <1>20, <3>1, <3>2
      <4>2. QED  BY <1>12, <1>13, <1>15, <1>16, <3>1, <4>1 DEF Seen
    <3>3. \A r : Whole(r)'
      BY <1>12, <1>13, <3>1 DEF Whole
    <3>4. QED  BY <1>12, <1>13, <1>15, <1>16, <1>18, <1>19, <3>1, <3>2, <3>3 DEF Pages
  <2>3. QED  BY <2>1, <2>2
<1>22. (Lists!ExportsMissNothing)'
  <2>1. ASSUME old.export, NEW r \in old.steady, ~full
        PROVE  r \in old.shown \union Q
    BY <1>3, <1>7, <1>11, <1>19, <2>1 DEF Whole
  <2>2. QED  BY <1>12, <1>13, <2>1 DEF Lists!ExportsMissNothing
<1>23. (Lists!ListsMissNothing)'
  <2>1. SUFFICES ASSUME last, NEW r \in old.steady, ~old.left, ~old.between, ~old.export, ~Lists!Tied(r)
                 PROVE  r \in old.shown \union Q
    BY <1>8, <1>12, <1>13, <1>16 DEF Lists!ListsMissNothing
  <2>2. skip + PageSize >= old.total
    BY <1>5, <1>6, <2>1
  <2>3. old.total = Cardinality(S)
    BY <1>1, <1>2, <1>3, <1>11, <2>1 DEF Pages
  <2>4. Before(S, r) < Cardinality(S)
    BY <1>1, <1>19, <2>1, BeforeIsLess DEF ListTypes
  <2>5. Before(S, r) \in Nat /\ Cardinality(S) \in Nat
    BY <1>2, <1>17, <1>19, <2>1, RowsAreFinite
  <2>6. Before(S, r) < skip + PageSize
    BY <2>2, <2>3, <2>4, <2>5, ListConstants
  <2>7. QED  BY <1>20, <2>1, <2>6
<1>24. QED  BY <1>14, <1>21, <1>22, <1>23 DEF ListInv, Missed

\* What a change of the rows leaves of the reader.
LEMMA ReaderMoves ==
  ASSUME NEW old \in ReaderType, NEW T1 \in SUBSET Records, NEW came \in BOOLEAN, NEW left \in BOOLEAN,
         NEW between \in BOOLEAN
  PROVE  [old EXCEPT !.steady = T1, !.came = came, !.left = left, !.between = between] \in ReaderType
BY DEF ReaderType

\* Rows come or go: the rows of the query, before and after.
LEMMA MoveKeeps ==
  ASSUME ListInv, NEW s \in SUBSET Records, NEW g \in SUBSET s, list.deletes = "row" => g = {},
         Lists!Move(s, g)
  PROVE  ListInv'
<1>1. ListTypes /\ Pages
  BY DEF ListInv
<1>2. PICK S \in SUBSET Records : S = Finds
  BY <1>1, FindsAreRecords
<1>3. PICK old \in ReaderType : old = reader
  BY <1>1 DEF ListTypes
<1>4. PICK T \in SUBSET Records : T = {r \in s : Lists!Where(old.mode, g, r)}
  OBVIOUS
<1>5. PICK came \in BOOLEAN, left \in BOOLEAN, between \in BOOLEAN :
        /\ came = (old.came \/ ~(T \subseteq S)) /\ left = (old.left \/ ~(S \subseteq T))
        /\ between = (old.between \/ (S # T /\ (old.got \/ old.counted)))
  BY <1>3 DEF ReaderType
<1>6. PICK new : new = [old EXCEPT !.steady = old.steady \intersect T, !.came = came, !.left = left,
                                   !.between = between]
  OBVIOUS
<1>7. /\ reader.pc = "page" /\ rows' = s /\ gone' = g /\ moves' \in 0 .. MaxMoves
      /\ UNCHANGED <<list, date, unfit>>
  BY <1>1, ListConstants DEF Lists!Move, ListTypes
<1>8. reader' = new
  BY <1>2, <1>3, <1>4, <1>5, <1>6 DEF Lists!Move, Lists!Noticed, Finds
<1>9. /\ new \in ReaderType /\ new.pc = old.pc /\ new.page = old.page /\ new.got = old.got
      /\ new.counted = old.counted /\ new.data = old.data /\ new.total = old.total /\ new.shown = old.shown
      /\ new.export = old.export /\ new.mode = old.mode /\ new.network = old.network
      /\ new.steady = old.steady \intersect T /\ new.came = came /\ new.left = left /\ new.between = between
  <2>1. old.steady \intersect T \in SUBSET Records
    BY <1>4
  <2>2. PICK T1 \in SUBSET Records : T1 = old.steady \intersect T
    BY <2>1
  <2>3. new = [old EXCEPT !.steady = T1, !.came = came, !.left = left, !.between = between]
    BY <1>6, <2>2
  <2>4. new \in ReaderType
    BY <1>5, <2>2, <2>3, ReaderMoves
  <2>5. QED  BY <1>3, <2>2, <2>3, <2>4 DEF ReaderType
<1>10. ListTypes'
  BY <1>1, <1>7, <1>8, <1>9 DEF ListTypes
<1>11. Finds' = T /\ Skipped' = Skipped
  BY <1>3, <1>4, <1>7, <1>8, <1>9 DEF Finds, Skipped, Lists!Found, Lists!Where
<1>12. PICK skip \in Nat : skip = Skipped
  BY <1>1, SkippedIsANumber
<1>13. \A r : /\ Before(Finds, r)' = Before(T, r) /\ (Lists!Tied(r)' <=> Lists!Tied(r))
              /\ (Lists!Fits(reader, r)' <=> Lists!Fits(reader, r))
  BY <1>3, <1>7, <1>8, <1>9, <1>11 DEF Before, Lists!Tied, Lists!Fits
<1>14. \A r \in Records : Before(S, r) \in Nat /\ Before(T, r) \in Nat
  BY <1>1, BeforeGrows DEF ListTypes
<1>15. ASSUME ~came, NEW r \in Records, ~Lists!Tied(r)
       PROVE  Shown(r)'
  <2>1. ~old.came /\ T \subseteq S
    BY <1>5, <1>15
  <2>2. Shown(r)
    BY <1>1, <1>3, <1>7, <1>15, <2>1 DEF Pages
  <2>3. Before(T, r) <= Before(S, r)
    BY <1>1, <2>1, BeforeGrows DEF ListTypes
  <2>4. r \in old.shown \intersect T => Before(T, r) < skip
    BY <1>2, <1>3, <1>12, <1>14, <2>1, <2>2, <2>3 DEF Shown
  <2>5. old.got /\ r \in old.data => /\ r \notin old.shown
                                     /\ ~old.export /\ r \in T => Before(T, r) < skip + PageSize
    BY <1>2, <1>3, <1>12, <1>14, <2>1, <2>2, <2>3, ListConstants DEF Shown
  <2>6. QED  BY <1>8, <1>9, <1>11, <1>12, <1>13, <2>4, <2>5 DEF Shown
<1>16. ASSUME ~left, ~between
       PROVE  /\ S \subseteq T /\ ~old.left /\ ~old.between /\ (old.got \/ old.counted => T = S)
              /\ \A r \in old.steady \intersect T : Seen(r)'
  <2>1. S \subseteq T /\ ~old.left /\ ~old.between /\ (old.got \/ old.counted => T = S)
    BY <1>5, <1>16
  <2>2. ASSUME NEW r \in old.steady \intersect T
        PROVE  Seen(r)'
    <3>1. Seen(r)
      BY <1>1, <1>3, <1>7, <2>1, <2>2 DEF Pages
    <3>2. Before(S, r) <= Before(T, r)
      BY <1>1, <2>1, <2>2, BeforeGrows DEF ListTypes
    <3>3. ~old.export /\ ~Lists!Tied(r) /\ Before(T, r) < skip => r \in old.shown
      BY <1>2, <1>3, <1>12, <1>14, <2>2, <3>1, <3>2 DEF Seen
    <3>4. ~old.export /\ ~Lists!Tied(r) /\ old.got /\ Before(T, r) >= skip /\ Before(T, r) < skip + PageSize
            => r \in old.data
      BY <1>2, <1>3, <1>12, <2>1, <3>1 DEF Seen
    <3>5. QED  BY <1>7, <1>8, <1>9, <1>11, <1>12, <1>13, <3>3, <3>4 DEF Seen
  <2>3. QED  BY <2>1, <2>2
<1>17. Pages'
  <2>1. old.pc = "page" /\ (old.export => old.page = 0 /\ old.shown = {})
        /\ \A r \in old.steady : Lists!Fits(reader, r) /\ Whole(r)
    BY <1>1, <1>3, <1>7 DEF Pages
  <2>2. \A r : Whole(r) => Whole(r)'
    BY <1>3, <1>7, <1>8, <1>9 DEF Whole
  <2>3. ASSUME ~left, ~between
        PROVE  new.counted => new.total = Cardinality(T)
    BY <1>1, <1>2, <1>3, <1>7, <1>9, <1>16, <2>3 DEF Pages
  <2>4. QED  BY <1>8, <1>9, <1>11, <1>13, <1>15, <1>16, <2>1, <2>2, <2>3 DEF Pages
<1>18. Missed'
  BY <1>3, <1>7, <1>8, <1>9 DEF Missed, Lists!ListsMissNothing, Lists!ExportsMissNothing
<1>19. QED  BY <1>10, <1>17, <1>18 DEF ListInv

LEMMA ListsInit ==
  ASSUME Lists!Init
  PROVE  ListInv
<1>1. reader \in ReaderType /\ reader.pc = "idle"
  BY DEF Lists!Init, Lists!Idle, ReaderType
<1>2. ListTypes
  BY <1>1, ListConstants DEF Lists!Init, ListTypes
<1>3. QED  BY <1>1, <1>2 DEF ListInv, Pages, Missed, Lists!ListsMissNothing, Lists!ExportsMissNothing

LEMMA ListsStep ==
  ASSUME ListInv, Lists!Next
  PROVE  ListInv' /\ Once
<1>1. rows \subseteq Records /\ gone \subseteq rows /\ (list.deletes = "row" => gone = {})
  BY DEF ListInv, ListTypes
<1>2. ASSUME NEW r \in Records, Lists!Add(r)
      PROVE  ListInv'
  <2>1. rows \union {r} \in SUBSET Records /\ gone \in SUBSET (rows \union {r}) /\ (list.deletes = "row" => gone = {})
    BY <1>1
  <2>2. QED  BY <1>2, <2>1, MoveKeeps DEF Lists!Add
<1>3. ASSUME NEW r \in Records, Lists!Trash(r)
      PROVE  ListInv'
  <2>1. rows \in SUBSET Records /\ gone \union {r} \in SUBSET rows /\ list.deletes # "row"
    BY <1>1, <1>3 DEF Lists!Trash
  <2>2. QED  BY <1>3, <2>1, MoveKeeps DEF Lists!Trash
<1>4. ASSUME NEW r \in Records, Lists!Restore(r)
      PROVE  ListInv'
  <2>1. rows \in SUBSET Records /\ gone \ {r} \in SUBSET rows /\ (list.deletes = "row" => gone \ {r} = {})
    BY <1>1
  <2>2. QED  BY <1>4, <2>1, MoveKeeps DEF Lists!Restore
<1>5. ASSUME NEW r \in Records, Lists!Erase(r)
      PROVE  ListInv'
  <2>1. rows \ {r} \in SUBSET Records /\ gone \in SUBSET (rows \ {r}) /\ (list.deletes = "row" => gone = {})
    BY <1>1, <1>5 DEF Lists!Erase
  <2>2. QED  BY <1>5, <2>1, MoveKeeps DEF Lists!Erase
<1>6. ASSUME NEW f \in Lists!Flags, NEW network \in BOOLEAN, NEW export \in BOOLEAN,
             Lists!Begin(f, network, export)
      PROVE  ListInv'
  BY <1>6, ReadingBegins
<1>7. QED
  BY <1>2, <1>3, <1>4, <1>5, <1>6, TurnIsOnce, DataKeeps, CountKeeps, TurnKeeps DEF Lists!Next

LEMMA ListsStay ==
  ASSUME ListInv, UNCHANGED lists
  PROVE  ListInv'
BY DEF ListInv, ListTypes, Pages, Shown, Seen, Whole, Finds, Before, Skipped, lists, Missed, Lists!ListsMissNothing,
   Lists!ExportsMissNothing, Lists!Found,
       Lists!Where, Lists!Fits, Lists!Tied

----------------------------------------------------------------------------
(* The parts together: each moves while the others stay as they are.       *)

OfficeInv == PictureInv /\ DeskInv /\ Blank /\ PostInv /\ GateInv /\ ListInv

\* What every step keeps to, whichever part it is of.
GoodStep == Texts /\ Punctual /\ (desk' = desk \/ (Marks /\ Tells)) /\ Repeats /\ Reads
            /\ (lists' = lists \/ Once)

LEMMA OfficeStarts == OfficeInit => OfficeInv
BY PicturesInit, DeskInit, PostsInit, GateInit, ListsInit DEF OfficeInit, OfficeInv

LEMMA OfficeKeeps == OfficeInv /\ [OfficeNext]_office => OfficeInv' /\ GoodStep
<1> SUFFICES ASSUME OfficeInv, [OfficeNext]_office
             PROVE  OfficeInv' /\ GoodStep
  OBVIOUS
<1>1. PictureInv /\ DeskInv /\ Blank /\ PostInv /\ GateInv /\ ListInv
  BY DEF OfficeInv
<1>2. Blog!Next \/ UNCHANGED blog
  BY DEF OfficeNext, office, blog
<1>3. Images!Next \/ UNCHANGED images
  BY DEF OfficeNext, office, images
<1>4. Desk!Next \/ UNCHANGED desk
  BY DEF OfficeNext, office, desk
<1>5. Door!Next \/ UNCHANGED door
  BY DEF OfficeNext, office, door
<1>6. PostInv' /\ Texts /\ Punctual
  BY <1>1, <1>2, PostsStep, PostsStay
<1>7. PictureInv'
  BY <1>1, <1>3, PicturesStep, PicturesStay
<1>8. DeskInv' /\ Blank' /\ (desk' = desk \/ (Marks /\ Tells))
  BY <1>1, <1>4, DeskStep, DeskStays
<1>9. GateInv' /\ Repeats /\ Reads
  BY <1>1, <1>5, GateStep, GateStays
<1>10. Lists!Next \/ UNCHANGED lists
  BY DEF OfficeNext, office, lists
<1>11. ListInv' /\ (lists' = lists \/ Once)
  BY <1>1, <1>10, ListsStep, ListsStay
<1> QED  BY <1>6, <1>7, <1>8, <1>9, <1>11 DEF OfficeInv, GoodStep

LEMMA OfficeInvariant == OfficeSpec => []OfficeInv
<1>1. OfficeInv /\ [OfficeNext]_office => OfficeInv'
  BY OfficeKeeps
<1> QED
  BY <1>1, OfficeStarts, PTL DEF OfficeSpec

\* The bucket holds what the rows link, and nothing that was forgotten, for any
\* rows, any number of uploads, removals, forms and clean-ups that overlap, of
\* calls that fail and of processes that stop (blog-category, companydata, users).
THEOREM PicturesKept == OfficeSpec => []FilesMatchRows
<1>1. OfficeInv => FilesMatchRows
  BY DEF OfficeInv, PictureInv
<1> QED
  BY <1>1, OfficeInvariant, PTL

\* Calls that are there are shown, messages that were taken are mailed, and events
\* tell of changes that were made, for any number of requests (retell-calls,
\* contact-support).
THEOREM NoticesAreTrue == OfficeSpec => NoticesTellTheTruth
<1>1. OfficeInv => Desk!BoardShowsCalls /\ Desk!MessagesAreTold
  BY DEF OfficeInv, DeskInv
<1>2. OfficeInv /\ [OfficeNext]_office => [Tells]_(Desk!inboxVars)
  BY OfficeKeeps DEF GoodStep, desk, Desk!inboxVars
<1> QED
  BY <1>1, <1>2, OfficeInvariant, PTL
     DEF OfficeSpec, NoticesTellTheTruth, Desk!EventsTellChanges, Tells

\* What a request or a run has written to a row is lost only to one that had read
\* the row before, and the cron publishes what is due, for any number of requests
\* and of instances that run the cron (posts, contact-support, retell-calls).
THEOREM RowsAreKept == OfficeSpec => RowsLoseOnlyToOverlap
<1>1. OfficeInv /\ [OfficeNext]_office => [Texts]_(Blog!vars) /\ [Punctual]_(Blog!vars) /\ [Marks]_(Desk!inboxVars)
  BY OfficeKeeps DEF GoodStep, desk, Desk!inboxVars
<1> QED
  BY <1>1, OfficeInvariant, PTL
     DEF OfficeSpec, RowsLoseOnlyToOverlap, Blog!TextsLoseOnlyToOverlap, Blog!PublishesWhatIsDue,
         Desk!MarksLoseOnlyToOverlap, Texts, Punctual, Marks

\* Once the seed has run, roles can be given whatever the routes demand; viewers, as
\* they were seeded, get through to no handler that changes rows; and the seed can
\* be run again wherever it stopped, but for the username of an account whose email
\* was changed and the name of a category that was deleted: for any edits, and for
\* every route there is (seed, guards and controllers).
THEOREM SeedGuards == OfficeSpec => SeedGuardsRoutes
<1>1. OfficeInv => (seeded => Door!DemandsAreSeeded)
  BY EveryDemandIsSeeded DEF OfficeInv, GateInv, SeedOrder
<1>2. OfficeInv /\ [OfficeNext]_office => [Repeats]_(Door!gateVars) /\ [Reads]_(Door!gateVars)
  BY OfficeKeeps DEF GoodStep
<1> QED
  BY <1>1, <1>2, OfficeInvariant, PTL
     DEF OfficeSpec, SeedGuardsRoutes, Door!SeedRunsAgain, Door!ViewersOnlyRead, Repeats, Reads

\* A request for the path of a route is answered by that route, whoever asks: no route
\* is declared after another one whose parameters take its path, over all the pairs
\* of the controllers' routes in the order the application registers them.
THEOREM PathsLeadToTheirRoutes == OfficeSpec => []RoutesAreReached
<1>1. OfficeInv => RoutesAreReached
  BY DEF OfficeInv, GateInv, RoutesAreReached
<1> QED
  BY <1>1, OfficeInvariant, PTL

\* Every variable of every part keeps its type.
THEOREM OfficeTypes == OfficeSpec => []BackofficeTypeOK
<1>1. OfficeInv => BackofficeTypeOK
  <2>1. PostTypes => Blog!TypeOK
    <3>1. ASSUME PostTypes, NEW w \in Writers
          PROVE  req[w].pc \in {"new", "commit", "done"} /\ req[w].img \in Blog!Rows
      BY <3>1 DEF PostTypes, Jobs
    <3>2. ASSUME PostTypes, NEW i \in Instances
          PROVE  run[i].todo \subseteq Ids /\ run[i].unseen \subseteq run[i].todo
      BY <3>2 DEF PostTypes, Runs
    <3>3. QED  BY <3>1, <3>2 DEF PostTypes, Dated, Blog!TypeOK
  <2>2. PictureTypes => Images!PicturesTypeOK
    <3>1. ASSUME PictureTypes, NEW h \in Hands
          PROVE  /\ hand[h].pc \in {"new", "upload", "read", "commit", "undo", "cleanup", "done"}
                 /\ hand[h].seen \in Images!Links
      BY <3>1 DEF PictureTypes, HandType
    <3>2. QED  BY <3>1 DEF PictureTypes, FolderType, Images!PicturesTypeOK
  <2>3. DeskTypes => Desk!InboxTypeOK
    <3>1. ASSUME DeskTypes, NEW c \in Clerks
          PROVE  /\ clerk[c].pc \in {"new", "commit", "event", "admins", "visitor", "show", "done"}
                 /\ clerk[c].ids \subseteq Entries /\ clerk[c].unseen \subseteq clerk[c].ids
      BY <3>1 DEF DeskTypes, ClerkType, Stages
    <3>2. ASSUME DeskTypes
          PROVE  board.shown \subseteq Entries /\ board.read \subseteq Entries
      BY <3>2 DEF DeskTypes
    <3>3. QED  BY <3>1, <3>2 DEF DeskTypes, EntryType, Desk!InboxTypeOK
  <2>4. ListTypes => Lists!ListingTypeOK
    BY DEF ListTypes, ReaderType, Lists!ListingTypeOK
  <2>5. QED
    BY <2>1, <2>2, <2>3, <2>4
       DEF OfficeInv, PostInv, PictureInv, DeskInv, GateInv, ListInv, BackofficeTypeOK
<1> QED
  BY <1>1, OfficeInvariant, PTL

\* Who reads a list page by page sees every row that was there all the time, and sees
\* none twice, but for the ways in which paging by offset does miss or repeat rows:
\* for any rows and dates, any size of a page and of an export, and any rows that
\* come and go meanwhile (the lists and exports of the back office).
THEOREM ReadersSeeAll == OfficeSpec => ReadersSeeRowsOnce
<1>1. OfficeInv => Lists!ListsMissNothing /\ Lists!ExportsMissNothing
  BY DEF OfficeInv, ListInv, Missed
<1>2. OfficeInv /\ [OfficeNext]_office => [Once]_(Lists!listVars)
  BY OfficeKeeps DEF GoodStep, lists, Lists!listVars
<1> QED
  BY <1>1, <1>2, OfficeInvariant, PTL DEF OfficeSpec, ReadersSeeRowsOnce, Lists!NothingTwice, Once

=============================================================================
