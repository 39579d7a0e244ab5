------------------------------- MODULE Access -------------------------------
(***************************************************************************)
(* Roles, permissions and the abilities cached from them (src/src/core/    *)
(* access, src/src/modules/roles, user-permissions, users).  A request     *)
(* builds the rules of its user from three queries and leaves them in      *)
(* Redis for five minutes; an administrator changes a row and then removes *)
(* the cached rules that may depend on it.  Conditions and fields of a     *)
(* permission are part of the permission.                                  *)
(***************************************************************************)
EXTENDS Naturals

CONSTANTS
  Users, Roles, Perms,
  Super,       \* the role super-admin, which nobody can change
  Checks,      \* requests that need the ability of a user, once each
  Changes,     \* requests of administrators, once each
  Absent,
  MaxLosses    \* bound: commands to Redis that are lost, with their process or not

ASSUME AccessAssumption == Super \in Roles /\ MaxLosses \in Nat /\ Absent \notin Users

VARIABLES
  role,     \* the rows of roles and role_permissions
  holds,    \* user_roles
  direct,   \* user_permissions
  cache,    \* casl:ability:<user>
  late,     \* users whose entry is older than a change it should show (auxiliary)
  check,    \* what each request for an ability does
  change,   \* what each administrator does
  losses

vars == <<role, holds, direct, cache, late, check, change, losses>>

RuleSets == [allow : SUBSET Perms, deny : SUBSET Perms]
NoRules  == [allow |-> {}, deny |-> {}]
ASSUME AbsentAssumption == Absent \notin RuleSets \* no entry is not an entry

\* createForUser puts the direct rules last, and CASL lets the last of those that
\* match decide: a denial wins over what roles allow.  The order among the direct
\* rows does not matter, as there is one for each user and permission; permissions
\* that cover one another ("manage", "all") are not among Perms.
Allowed(rules) == rules.allow \ rules.deny

Granted(u) == {p \in Perms : direct[u][p] = "grant"}
Denied(u)  == {p \in Perms : direct[u][p] = "deny"}

\* getRolesForUser, getPermissionsForRoles: only the first looks at deletedAt.
LiveRoles(u) == {r \in holds[u] : role[r].live}
PermsOf(ids) == UNION {role[r].perms : r \in ids}

\* The rules of u if all of them were read now, and what they allow.
Truth(u) == [allow |-> PermsOf(LiveRoles(u)) \union Granted(u), deny |-> Denied(u)]
Holds(u) == IF Super \in LiveRoles(u) THEN Perms ELSE Allowed(Truth(u))

NewCheck == [pc |-> "new", user |-> Absent, ids |-> {}, rules |-> NoRules,
             held |-> {}, changes |-> 0]
Started(c) == c.pc \notin {"new", "done"}

Init ==
  /\ \E perms \in SUBSET Perms :
       role = [r \in Roles |-> [live |-> TRUE, perms |-> IF r = Super THEN {} ELSE perms]]
  /\ \E r \in Roles : holds = [u \in Users |-> {r}]
  /\ direct = [u \in Users |-> [p \in Perms |-> "none"]]
  /\ cache  = [u \in Users |-> Absent]
  /\ late   = {}
  /\ check  = [k \in Checks |-> NewCheck]
  /\ change = [c \in Changes |-> [pc |-> "new", users |-> {}]]
  /\ losses = 0

Fault == losses < MaxLosses /\ losses' = losses + 1

----------------------------------------------------------------------------
(* CaslAbilityFactory.createForUser.  Tokens carry no roles: they are read *)
(* every time.                                                             *)

ReadRoles(k, u) ==
  /\ check[k].pc = "new"
  /\ check' = [check EXCEPT ![k] = [NewCheck EXCEPT !.pc = "get", !.user = u,
                                    !.ids = LiveRoles(u), !.held = Holds(u)]]
  /\ UNCHANGED <<role, holds, direct, cache, late, change, losses>>

Done(k) == check' = [check EXCEPT ![k] = [NewCheck EXCEPT !.pc = "done"]]

\* super-admin passes, or the cache answers.
Hit(k) ==
  /\ check[k].pc = "get"
  /\ Super \in check[k].ids \/ cache[check[k].user] # Absent
  /\ Done(k)
  /\ UNCHANGED <<role, holds, direct, cache, late, change, losses>>

\* No entry, or no answer: errors of Redis are swallowed.
Miss(k) ==
  /\ check[k].pc = "get" /\ Super \notin check[k].ids
  /\ IF cache[check[k].user] = Absent THEN UNCHANGED losses ELSE Fault
  /\ check' = [check EXCEPT ![k].pc = "perms"]
  /\ UNCHANGED <<role, holds, direct, cache, late, change>>

\* MUTANT of ReadPerms: the roles are taken for what they permit.
ReadIds(k) ==
  /\ check[k].pc = "perms"
  /\ check' = [check EXCEPT ![k].pc = "direct", ![k].rules.allow = check[k].ids]
  /\ UNCHANGED <<role, holds, direct, cache, late, change, losses>>

ReadPerms(k) ==
  /\ check[k].pc = "perms"
  /\ check' = [check EXCEPT ![k].pc = "direct", ![k].rules.allow = PermsOf(check[k].ids)]
  /\ UNCHANGED <<role, holds, direct, cache, late, change, losses>>

\* MUTANT of ReadDirect: denials are left out.
ReadGrants(k) ==
  /\ check[k].pc = "direct"
  /\ check' = [check EXCEPT ![k].pc = "put",
                            ![k].rules.allow = @ \union Granted(check[k].user)]
  /\ UNCHANGED <<role, holds, direct, cache, late, change, losses>>

ReadDirect(k) ==
  /\ check[k].pc = "direct"
  /\ check' = [check EXCEPT ![k].pc = "put",
                            ![k].rules.allow = @ \union Granted(check[k].user),
                            ![k].rules.deny  = Denied(check[k].user)]
  /\ UNCHANGED <<role, holds, direct, cache, late, change, losses>>

Put(k) ==
  LET u == check[k].user IN
  /\ check[k].pc = "put"
  /\ cache' = [cache EXCEPT ![u] = check[k].rules]
  /\ late'  = IF check[k].changes > 0 THEN late \union {u} ELSE late \ {u}
  /\ Done(k)
  /\ UNCHANGED <<role, holds, direct, change, losses>>

\* Redis does not take it: the request goes on with its rules.
PutFails(k) ==
  /\ check[k].pc = "put"
  /\ Fault
  /\ Done(k)
  /\ UNCHANGED <<role, holds, direct, cache, late, change>>

\* MUTANT of Expire: entries are stored without a time to live.
NeverExpire(u) == FALSE /\ UNCHANGED vars

\* TTL_SECONDS.MEDIUM is over.
Expire(u) ==
  /\ cache[u] # Absent
  /\ cache' = [cache EXCEPT ![u] = Absent]
  /\ late'  = late \ {u}
  /\ UNCHANGED <<role, holds, direct, check, change, losses>>

----------------------------------------------------------------------------
(* The requests of administrators: a transaction, then the invalidation.   *)

\* What `users' may do changes under the requests of theirs that have begun.
Noticed(users) ==
  LET after == [u \in Users |-> Holds(u)'] IN
  check' = [k \in Checks |->
    IF Started(check[k]) /\ check[k].user \in users
    THEN [check[k] EXCEPT !.held = @ \union after[check[k].user],
                          !.changes = IF @ = 2 THEN 2 ELSE @ + 1]
    ELSE check[k]]

\* MUTANT of Committed: the entries are removed first, then comes the commit.
CommittedLast(c, users, next) ==
  /\ change[c].pc = "new"
  /\ change' = [change EXCEPT ![c].pc = "done"]
  /\ Noticed(users)
  /\ UNCHANGED <<cache, late, losses>>

\* The commit of c, which changes what `users' may do.
Committed(c, users, next) ==
  /\ change[c].pc = "new"
  /\ change' = [change EXCEPT ![c] = [pc |-> next, users |-> users]]
  /\ Noticed(users)
  /\ UNCHANGED <<cache, late, losses>>

\* RolesService.update, attachPermission, detachPermission.
SetPermissions(c, r, perms) ==
  /\ r # Super
  /\ role' = [role EXCEPT ![r].perms = perms]
  /\ UNCHANGED <<holds, direct>>
  /\ Committed(c, Users, "scan")

\* delete, restore, bulkDelete, bulkRestore.
SetLive(c, R, live) ==
  /\ Super \notin R /\ \E r \in R : role[r].live # live
  /\ role' = [r \in Roles |-> IF r \in R THEN [role[r] EXCEPT !.live = live] ELSE role[r]]
  /\ UNCHANGED <<holds, direct>>
  /\ Committed(c, Users, "scan")

\* UpdateUserHandler: roles and grants are replaced; replacePermissions leaves
\* the denials, and a grant next to one is a duplicate.
UpdateUser(c, u, R, grants) ==
  /\ holds' = [holds EXCEPT ![u] = R]
  /\ direct' = [direct EXCEPT ![u] = [p \in Perms |->
       IF direct[u][p] = "deny" THEN "deny" ELSE IF p \in grants THEN "grant" ELSE "none"]]
  /\ UNCHANGED role
  /\ Committed(c, {u}, "del")

\* UserPermissionsService.upsert and remove.
SetDirect(c, u, p, how) ==
  /\ direct' = [direct EXCEPT ![u][p] = how]
  /\ UNCHANGED <<role, holds>>
  /\ Committed(c, {u}, "del")

Drop(users) ==
  /\ cache' = [u \in Users |-> IF u \in users THEN Absent ELSE cache[u]]
  /\ late'  = late \ users

\* invalidateCacheForUser.
Delete(c) ==
  /\ change[c].pc = "del"
  /\ Drop(change[c].users)
  /\ change' = [change EXCEPT ![c] = [pc |-> "done", users |-> {}]]
  /\ UNCHANGED <<role, holds, direct, check, losses>>

\* invalidateCache: delByPattern scans the keys, then deletes those it found.
Scan(c) ==
  /\ change[c].pc = "scan"
  /\ change' = [change EXCEPT ![c] = [pc |-> "exec", users |-> {u \in Users : cache[u] # Absent}]]
  /\ UNCHANGED <<role, holds, direct, cache, late, check, losses>>

Exec(c) ==
  /\ change[c].pc = "exec"
  /\ Drop(change[c].users)
  /\ change' = [change EXCEPT ![c] = [pc |-> "done", users |-> {}]]
  /\ UNCHANGED <<role, holds, direct, check, losses>>

\* The process stops after the commit, or Redis fails and that is swallowed.
InvalidationLost(c) ==
  /\ change[c].pc \in {"del", "scan", "exec"}
  /\ Fault
  /\ late' = late \union {u \in change[c].users : cache[u] # Absent}
  /\ change' = [change EXCEPT ![c] = [pc |-> "done", users |-> {}]]
  /\ UNCHANGED <<role, holds, direct, cache, check>>

----------------------------------------------------------------------------

Administrate(c) ==
  \/ \E r \in Roles, perms \in SUBSET Perms : SetPermissions(c, r, perms)
  \/ \E R \in SUBSET Roles, live \in BOOLEAN : SetLive(c, R, live)
  \/ \E u \in Users, R \in SUBSET Roles, grants \in SUBSET Perms : UpdateUser(c, u, R, grants)
  \/ \E u \in Users, p \in Perms, how \in {"none", "grant", "deny"} : SetDirect(c, u, p, how)

Next ==
  \/ \E k \in Checks :
       \/ \E u \in Users : ReadRoles(k, u)
       \/ Hit(k) \/ Miss(k) \/ ReadPerms(k) \/ ReadDirect(k) \/ Put(k) \/ PutFails(k)
  \/ \E c \in Changes :
       Administrate(c) \/ Delete(c) \/ Scan(c) \/ Exec(c) \/ InvalidationLost(c)
  \/ \E u \in Users : Expire(u)

\* Redis expires its entries.
Fairness == \A u \in Users : WF_vars(Expire(u))

Spec == Init /\ [][Next]_vars /\ Fairness

----------------------------------------------------------------------------
(* Properties.                                                             *)

\* Every variable keeps its type, and no rules are called late that are not there.
TypeOK ==
  /\ role \in [Roles -> [live : BOOLEAN, perms : SUBSET Perms]]
  /\ holds \in [Users -> SUBSET Roles]
  /\ direct \in [Users -> [Perms -> {"none", "grant", "deny"}]]
  /\ cache \in [Users -> RuleSets \union {Absent}]
  /\ late \subseteq {u \in Users : cache[u] # Absent}
  /\ \A k \in Checks : /\ check[k].pc \in {"new", "get", "perms", "direct", "put", "done"}
                         /\ check[k].rules \in RuleSets
  /\ \A c \in Changes : change[c].pc \in {"new", "del", "scan", "exec", "done"}
  /\ losses \in 0 .. MaxLosses

\* Cached rules are those of the database, except while the administrator who
\* changed them has not yet removed the entry, after a lost removal, and when a
\* request that began before the change stored them after it.
CacheTellsTheTruth ==
  \A u \in Users :
    cache[u] \in {Absent, Truth(u)} \/ u \in late
      \/ \E c \in Changes : change[c].pc \in {"del", "scan", "exec"} /\ (change[c].pc = "scan" \/ u \in change[c].users)

\* Rules read in three queries allow nothing that the user was never allowed
\* while they were read, unless two changes came in between.
MixturesAllowNothingNew ==
  \A k \in Checks :
    check[k].pc = "put" /\ check[k].changes < 2 => Allowed(check[k].rules) \subseteq check[k].held

\* In the end every change shows, whatever invalidation was lost or overtaken.
ChangesShowInTheEnd == <>[](\A u \in Users : cache[u] \in {Absent, Truth(u)})

\* The rules a request is judged by, cached or just read, are true: those of the
\* database now, or a mixture that allows nothing new.
RulesAreTrue == TypeOK /\ CacheTellsTheTruth /\ MixturesAllowNothingNew

=============================================================================
