-------------------------------- MODULE Gate --------------------------------
(***************************************************************************)
(* Who gets through which route: the guards of a request, and the roles    *)
(* and permissions that the seed (src/prisma/seed.ts) leaves in the        *)
(* database for them.  The seed runs by hand, may stop anywhere and is run *)
(* again, over what administrators have changed meanwhile.  A permission   *)
(* is a module and an action.                                              *)
(***************************************************************************)
EXTENDS Routes

CONSTANTS
  Callers,   \* the roles that send requests
  Edits,     \* permissions that administrators attach and detach
  MaxEdits   \* bound: how often they do, or move the category or the account

GateAssumption == MaxEdits \in Nat

VARIABLES
  perm,      \* the rows of permissions, by the part of the seed that they are from
  wired,     \* role_permissions hold what ROLE_GRANTS say, except for what was
  attached,  \* attached besides (a role and a permission),
  detached,  \* or detached
  seed,      \* what the seed does next
  account,   \* a user of the seed, with the email of USERS ("home") or another ("moved")
  category,  \* a blog category of the seed, whose name is unique even deleted
  seeded,    \* auxiliary: a run has come to its end
  edits,
  call       \* a request

gateVars == <<perm, wired, attached, detached, seed, account, category, seeded, edits, call>>

Crud == {"create", "read", "update", "delete", "restore"}

----------------------------------------------------------------------------
(* PERMISSIONS and ROLE_GRANTS.                                            *)

OfficePermissions ==
  ({"users", "email-data", "service-categories", "portfolios", "project-types", "content", "appointments",
    "contacts", "blog-categories", "posts", "seo", "model-ai", "insurance-companies", "invoice-demos",
    "invoices", "public-companies", "type-damages", "cause-of-losses", "claim-statuses",
    "alliance-companies", "zones"} \X Crud) \union
  ({"roles"} \X (Crud \union {"assign"})) \union
  ({"call-records"} \X {"read", "update", "delete", "restore", "export"}) \union
  {<<"permissions", "read">>, <<"content", "publish">>, <<"activity-logs", "manage">>,
   <<"company", "read">>, <<"company", "update">>}

BusinessPermissions ==
  {"category-products", "claims", "scope-sheets", "managers", "salespersons", "marketing-managers",
   "director-assistants", "technical-supervisors", "representation-companies", "external-operators",
   "public-adjusters", "insurance-adjusters", "technical-services", "marketing-roles", "warehouse-roles",
   "administrative-roles", "collections-roles", "reportes-roles", "leads", "employees", "clients",
   "contact-roles", "spectators", "w9-forms", "salesperson-signatures", "service-requests"} \X Crud

\* MUTANT of LaterPermissions: backups are not deleted.
LaterPermissionsForget ==
  ({"products", "mortgage-companies", "customers", "properties", "availability-exceptions"} \X Crud) \union
  ({"database-backups"} \X {"read", "create"}) \union
  ({"social-media"} \X {"create", "read", "delete", "export"}) \union
  ({"campaigns"} \X {"export", "read", "delete"}) \union
  ({"availability-rules"} \X {"read", "update"})

LaterPermissions ==
  ({"products", "mortgage-companies", "customers", "properties", "availability-exceptions"} \X Crud) \union
  ({"database-backups"} \X {"read", "create", "delete"}) \union
  ({"social-media"} \X {"create", "read", "delete", "export"}) \union
  ({"campaigns"} \X {"export", "read", "delete"}) \union
  ({"availability-rules"} \X {"read", "update"})

Permissions == [office |-> OfficePermissions, business |-> BusinessPermissions, later |-> LaterPermissions]
AllPermissions == UNION {Permissions[g] : g \in DOMAIN Permissions}

AdminGrants ==
  ({"users", "appointments", "contacts"} \X (Crud \ {"restore"})) \union
  ({"email-data", "availability-exceptions", "blog-categories"} \X Crud) \union
  ({"content"} \X {"create", "read", "update", "delete", "publish"}) \union
  ({"call-records"} \X {"read", "update", "delete", "restore", "export"}) \union
  {<<"roles", "read">>, <<"roles", "assign">>, <<"permissions", "read">>, <<"activity-logs", "manage">>,
   <<"availability-rules", "read">>, <<"availability-rules", "update">>}

ManagerGrants ==
  {"email-data", "invoice-demos", "invoices", "insurance-companies", "public-companies", "type-damages",
   "cause-of-losses", "claims", "public-adjusters", "products", "service-categories", "service-requests",
   "w9-forms", "category-products", "claim-statuses", "alliance-companies", "salesperson-signatures",
   "mortgage-companies", "managers"} \X Crud

\* MUTANT of EditorGrants: a name that PERMISSIONS does not have.
EditorGrantsMistyped ==
  ({"content", "appointments", "blog-categories"} \X {"create", "read", "update"}) \union
  {<<"users", "read">>, <<"contact", "read">>}

EditorGrants ==
  ({"content", "appointments", "blog-categories"} \X {"create", "read", "update"}) \union
  {<<"users", "read">>, <<"contacts", "read">>}

ViewerGrants == {"users", "content", "appointments", "contacts", "blog-categories"} \X {"read"}

\* A business role has all of the module named after it.
BusinessModules ==
  {<<"marketing-manager", "marketing-managers">>, <<"director-assistant", "director-assistants">>,
   <<"technical-supervisor", "technical-supervisors">>, <<"representation-company", "representation-companies">>,
   <<"public-company", "public-companies">>, <<"external-operators", "external-operators">>,
   <<"public-adjuster", "public-adjusters">>, <<"insurance-adjuster", "insurance-adjusters">>,
   <<"technical-services", "technical-services">>, <<"marketing", "marketing-roles">>,
   <<"warehouse", "warehouse-roles">>, <<"administrative", "administrative-roles">>,
   <<"collections", "collections-roles">>, <<"reportes", "reportes-roles">>, <<"salesperson", "salespersons">>,
   <<"lead", "leads">>, <<"employees", "employees">>, <<"client", "clients">>,
   <<"contact", "contact-roles">>, <<"spectator", "spectators">>}

GrantsOf(r) == CASE r = "admin"   -> AdminGrants
                 [] r = "manager" -> ManagerGrants
                 [] r = "editor"  -> EditorGrants
                 [] r = "viewer"  -> ViewerGrants
                 [] OTHER         -> {m[2] : m \in {x \in BusinessModules : x[1] = r}} \X Crud

\* ROLES: each is seeded with one user of its own (USERS).
Roles == {"super-admin", "admin", "manager", "editor", "viewer"} \union {m[1] : m \in BusinessModules}

\* The subject of a module; those that no route asks for keep their name.
SubjectOf(m) ==
  CASE m = "users" -> "USER"                   [] m = "roles" -> "ROLE"
    [] m = "permissions" -> "PERMISSION"       [] m = "content" -> "CONTENT"
    [] m = "appointments" -> "APPOINTMENT"     [] m \in {"contacts", "contact-roles"} -> "CONTACT"
    [] m = "company" -> "COMPANY"              [] m = "blog-categories" -> "BLOG_CATEGORY"
    [] m = "activity-logs" -> "ACTIVITY_LOG"   [] m = "call-records" -> "CALL_RECORD"
    [] m = "database-backups" -> "DATABASE_BACKUP"
    [] m = "social-media" -> "SOCIAL_MEDIA"    [] m = "campaigns" -> "CAMPAIGN"
    [] m = "availability-rules" -> "AVAILABILITY_RULE"
    [] m = "availability-exceptions" -> "AVAILABILITY_EXCEPTION"
    [] OTHER -> m

Ability(p) == <<SubjectOf(p[1]), p[2]>>

\* What the rows of a part, and the grants of a role, allow.
Seeds   == [g \in DOMAIN Permissions |-> {Ability(p) : p \in Permissions[g]}]
Granted == [r \in Roles |-> {Ability(p) : p \in GrantsOf(r)}]

----------------------------------------------------------------------------
(* The seed: upserts, one after the other, without a transaction.          *)

NoCall == [pc |-> "none", role |-> "none", level |-> "visitor", want |-> 1, got |-> 1, option |-> FALSE]

Init ==
  /\ perm = {} /\ account = "none" /\ category = "none"
  /\ wired = FALSE /\ attached = {} /\ detached = {}
  /\ seed = "begin" /\ seeded = FALSE
  /\ edits = 0
  /\ call = NoCall

\* Another run starts.
SeedAgain ==
  /\ seed \in {"end", "failed", "stopped"}
  /\ seed' = "begin"
  /\ UNCHANGED <<perm, wired, attached, detached, account, category, seeded, edits, call>>

SeedPermissions ==
  \E step \in {<<"begin", "office", "business">>, <<"business", "business", "later">>,
               <<"later", "later", "grants">>} :
    /\ seed = step[1]
    /\ perm' = perm \union {step[2]}
    /\ seed' = step[3]
    /\ UNCHANGED <<wired, attached, detached, account, category, seeded, edits, call>>

\* Names without a row.
Misnamed == {r \in Roles \ {"super-admin"} : ~(GrantsOf(r) \subseteq AllPermissions)}

\* "ALL" are the rows there are; a name without a row is an error.
SeedGrants ==
  /\ seed = "grants"
  /\ IF perm # DOMAIN Permissions \/ Misnamed # {}
     THEN seed' = "failed" /\ UNCHANGED <<wired, detached>>
     ELSE wired' = TRUE /\ detached' = {} /\ seed' = "users"
  /\ UNCHANGED <<perm, attached, account, category, seeded, edits, call>>

\* Users are looked for by email, and written with their username, which is unique:
\* the row of an account that was given another email still has it.
SeedUsers ==
  /\ seed = "users"
  /\ IF account = "moved" THEN seed' = "failed" /\ UNCHANGED account
     ELSE account' = "home" /\ seed' = "rest"
  /\ UNCHANGED <<perm, wired, attached, detached, category, seeded, edits, call>>

\* The company, categories (looked for among the live ones), the week and the
\* holidays.
SeedRest ==
  /\ seed = "rest"
  /\ IF category = "deleted" THEN seed' = "failed" /\ UNCHANGED <<category, seeded>>
     ELSE category' = "live" /\ seed' = "end" /\ seeded' = TRUE
  /\ UNCHANGED <<perm, wired, attached, detached, account, edits, call>>

\* The process or the connection is gone.
SeedStops ==
  /\ seed \in {"business", "later", "grants", "users", "rest"}
  /\ seed' = "stopped"
  /\ UNCHANGED <<perm, wired, attached, detached, account, category, seeded, edits, call>>

----------------------------------------------------------------------------
(* Administrators, between the runs or during one.                         *)

Edit(r, p) ==
  /\ seeded /\ edits < MaxEdits /\ r # "super-admin"
  /\ edits' = edits + 1
  /\ IF (p \in GrantsOf(r) \/ <<r, p>> \in attached) /\ <<r, p>> \notin detached
     THEN attached' = attached \ {<<r, p>>} /\ detached' = detached \union {<<r, p>>}
     ELSE attached' = attached \union {<<r, p>>} /\ detached' = detached \ {<<r, p>>}
  /\ UNCHANGED <<perm, wired, seed, account, category, seeded, call>>

MoveCategory ==
  /\ category # "none" /\ edits < MaxEdits
  /\ edits' = edits + 1
  /\ category' = IF category = "live" THEN "deleted" ELSE "live"
  /\ UNCHANGED <<perm, wired, attached, detached, seed, account, seeded, call>>

\* A user is given another email, or the old one again; the username stays.
MoveAccount ==
  /\ account # "none" /\ edits < MaxEdits
  /\ edits' = edits + 1
  /\ account' = IF account = "home" THEN "moved" ELSE "home"
  /\ UNCHANGED <<perm, wired, attached, detached, seed, category, seeded, call>>

----------------------------------------------------------------------------
(* A request: the router, the guards, the handler.                         *)

Rank(level) == CASE level = "visitor" -> 0 [] level = "token" -> 1 [] level = "twoFactor" -> 2 [] OTHER -> 3

\* What a role allows now.  Of the permissions that are detached, none shares its
\* ability with another one.
Allowed(r) ==
  (Granted[r] \ {Ability(e[2]) : e \in {x \in detached : x[1] = r}})
    \union {Ability(e[2]) : e \in {x \in attached : x[1] = r}}

\* JwtAuthGuard, TwoFactorRequiredGuard and FreshPasswordGuard; or JwtAuthGuard,
\* then CaslGuard and what the handler asks of the ability.
Passes(asker, route) ==
  IF route.action \in Levels THEN Rank(asker.level) >= Rank(route.action)
  ELSE /\ asker.level # "visitor"
       /\ \/ asker.role = "super-admin"
          \/ LET asked == {route.action} \union (IF asker.option THEN route.extra ELSE {})
             IN  ({route.subject} \X asked) \subseteq Allowed(asker.role)

\* A user of one role, or a visitor, asks for a route by its path, with a token
\* that the guards look into: the router takes a route, its guards let the request
\* in or not.  What the rules of a user are meanwhile is the matter of Access.
Request(r, i, level, option) ==
  LET want  == AllRoutes[i]
      got   == RouteOf(want.verb, PathOf(want))
      asker == [pc |-> "served", role |-> IF level = "visitor" THEN "none" ELSE r, level |-> level,
                want |-> i, got |-> got, option |-> option]
  IN  /\ want.action \in Levels \/ level \in {"visitor", "token"}
      /\ option => want.extra # {}
      /\ call' = IF Passes(asker, AllRoutes[got]) THEN asker ELSE [asker EXCEPT !.pc = "refused"]
      /\ UNCHANGED <<perm, wired, attached, detached, seed, account, category, seeded, edits>>

Leave ==
  /\ call.pc \in {"served", "refused"}
  /\ call' = NoCall
  /\ UNCHANGED <<perm, wired, attached, detached, seed, account, category, seeded, edits>>

\* The next one is sent to a database that a run has seeded, while none runs.
SomeRequest ==
  /\ call.pc = "none" /\ seeded /\ seed \in {"end", "failed"}
  /\ \E r \in Callers, i \in DOMAIN AllRoutes, level \in Levels, option \in BOOLEAN : Request(r, i, level, option)

Next ==
  \/ SeedAgain \/ SeedPermissions \/ SeedGrants \/ SeedUsers \/ SeedRest \/ SeedStops
  \/ \E r \in Callers, p \in Edits : Edit(r, p)
  \/ MoveCategory \/ MoveAccount
  \/ SomeRequest \/ Leave

Spec == Init /\ [][Next]_gateVars

----------------------------------------------------------------------------
(* Properties.                                                             *)

\* Every variable keeps its type.
GateTypeOK ==
  /\ perm \subseteq DOMAIN Permissions /\ (seeded => wired)
  /\ attached \union detached \subseteq Callers \X Edits
  /\ seed \in {"begin", "business", "later", "grants", "users", "rest", "end", "failed", "stopped"}
  /\ account \in {"none", "home", "moved"}
  /\ category \in {"none", "live", "deleted"}
  /\ edits \in 0 .. MaxEdits
  /\ call.pc \in {"none", "served", "refused"}
  /\ call.want \in DOMAIN AllRoutes /\ call.got \in DOMAIN AllRoutes

\* A request for the path of a route is answered by that route: none is declared
\* after another one whose parameter takes its path.
RoutesAnswerTheirPaths == call.pc \in {"served", "refused"} => call.got = call.want

\* What a route demands can be granted once the seed has run: it has a permission for
\* it, but for two demands that only the role that may do everything meets.
DemandsAreSeeded ==
  AllDemands \subseteq (UNION {Seeds[g] : g \in perm})
                           \union {<<"AVAILABILITY_EXCEPTION", "export">>, <<"USER", "manage">>}

\* A viewer, "Read-only access across all modules", gets through to no handler
\* that changes rows, other than of the account, while nobody gave the role more.
ViewersOnlyRead ==
  [][call.pc = "none" /\ call'.pc = "served" /\ call'.role = "viewer" /\ ~(\E e \in attached : e[1] = "viewer") =>
       ~AllRoutes[call'.got].changes \/ AllRoutes[call'.got].action \in Levels]_gateVars

\* The seed can be run again wherever it stopped before ("rerunning the seed is a
\* no-op once data exists", seed.ts l.13), but for two edits of what it wrote: it
\* fails over the username of an account that has another email now, and over the
\* name of a category that was deleted, and over nothing else.
SeedRunsAgain ==
  [][seed' = "failed" /\ seed # "failed" =>
       (seed = "users" /\ account = "moved") \/ (seed = "rest" /\ category = "deleted")]_gateVars

=============================================================================
