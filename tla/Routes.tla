------------------------------- MODULE Routes -------------------------------
(***************************************************************************)
(* The routes of the backend (the controllers under src/src), in the order *)
(* in which each controller declares them: the router takes the first that *)
(* matches.  Of a route only the verb, the path, the guards, the ability   *)
(* it demands and whether its handler changes rows are kept; a segment ":" *)
(* of a path is a parameter.                                               *)
(***************************************************************************)
EXTENDS Naturals, Sequences

\* A route; `extra' is demanded besides when the request asks for deleted rows
\* only, or brings roles and permissions.
Route(verb, path, action, changes) ==
  [verb |-> verb, path |-> path, subject |-> "", action |-> action, extra |-> {}, changes |-> changes]

Get(path, action)      == Route("get", path, action, FALSE)
Ask(path, action)      == Route("post", path, action, FALSE)
Post(path, action)     == Route("post", path, action, TRUE)
Patch(path, action)    == Route("patch", path, action, TRUE)
Put(path, action)      == Route("put", path, action, TRUE)
Remove(path, action)   == Route("delete", path, action, TRUE)
Also(route, action)    == [route EXCEPT !.extra = {action}]

\* The routes of a controller: its path, and the subject of @CheckAbilities.
Under(base, subject, routes) ==
  [i \in DOMAIN routes |-> [routes[i] EXCEPT !.path = base \o @, !.subject = subject]]

\* Routes without an ability: for visitors, for whoever has a token, for those
\* whose second factor is through, and those who confirmed their password too.
Levels == {"visitor", "token", "twoFactor", "fresh"}

----------------------------------------------------------------------------

AppRoutes    == Under(<<>>, "", <<Get(<<>>, "visitor")>>)
HealthRoutes == Under(<<"health">>, "", <<Get(<<>>, "visitor")>>)

ActivityLogRoutes == Under(<<"activity-logs">>, "ACTIVITY_LOG", <<
  Get(<<>>, "manage"), Get(<<":">>, "manage"), Remove(<<":">>, "manage")>>)

AppointmentReading == Under(<<"appointments">>, "APPOINTMENT", <<
  Post(<<>>, "create"), Also(Get(<<>>, "read"), "restore")>>)
AppointmentExport == Under(<<"appointments">>, "APPOINTMENT", <<
  Also(Get(<<"export">>, "read"), "restore"), Also(Get(<<":">>, "read"), "restore")>>)
AppointmentChanges == Under(<<"appointments">>, "APPOINTMENT", <<
  Patch(<<":">>, "update"), Patch(<<":", "read">>, "update"), Patch(<<":", "restore">>, "restore"),
  Post(<<"bulk-delete">>, "delete"), Post(<<"bulk-restore">>, "restore"), Remove(<<":">>, "delete")>>)
PublicAppointmentRoutes == Under(<<"public", "appointments">>, "", <<Post(<<>>, "visitor")>>)

SigningIn == Under(<<"auth">>, "", <<
  Post(<<"register">>, "visitor"), Post(<<"verify-email">>, "visitor"),
  Post(<<"resend-verification-code">>, "visitor"), Post(<<"login">>, "visitor"),
  Post(<<"two-factor", "verify">>, "token"), Post(<<"refresh">>, "visitor"),
  Post(<<"forgot-password">>, "visitor"), Post(<<"reset-password">>, "visitor")>>)
\* Logging out is let through with any token or none (JwtLogoutGuard).
OwnAccount == Under(<<"auth">>, "", <<
  Post(<<"change-password">>, "twoFactor"), Post(<<"logout">>, "visitor"), Post(<<"logout-all">>, "token"),
  Get(<<"me">>, "token"), Patch(<<"me">>, "twoFactor"), Post(<<"me", "profile-photo">>, "twoFactor")>>)
SessionRoutes == Under(<<"auth">>, "", <<
  Get(<<"sessions">>, "twoFactor"), Remove(<<"sessions", ":">>, "twoFactor"),
  Get(<<"trusted-devices">>, "twoFactor"), Remove(<<"trusted-devices", ":">>, "twoFactor"),
  Remove(<<"trusted-devices">>, "twoFactor")>>)
\* Google answers with a redirection, so this GET signs in.
SocialAuthRoutes == Under(<<"auth", "google">>, "", <<
  Get(<<"redirect">>, "visitor"), Route("get", <<"callback">>, "visitor", TRUE), Remove(<<>>, "fresh")>>)
TwoFactorRoutes == Under(<<"auth", "two-factor">>, "", <<
  Post(<<"setup">>, "fresh"), Post(<<"enable">>, "fresh"), Post(<<"disable">>, "fresh"),
  Post(<<"backup-codes", "regenerate">>, "fresh")>>)

AvailabilityRuleRoutes == Under(<<"availability">>, "AVAILABILITY_RULE", <<
  Get(<<"rules">>, "read"), Put(<<"rules", ":">>, "update")>>)
AvailabilityExceptionRoutes == Under(<<"availability", "exceptions">>, "AVAILABILITY_EXCEPTION", <<
  Get(<<"trash">>, "restore"), Get(<<"export">>, "export"), Get(<<>>, "read"), Post(<<>>, "create"),
  Patch(<<":">>, "update"), Remove(<<":">>, "delete"), Post(<<":", "restore">>, "restore")>>)
PublicAvailabilityRoutes == Under(<<"public", "availability">>, "", <<
  Get(<<"calendar">>, "visitor"), Get(<<"time-slots">>, "visitor")>>)

BackupListing == Under(<<"backups">>, "DATABASE_BACKUP", <<
  Post(<<"run">>, "create"), Get(<<>>, "read"), Get(<<"export">>, "read")>>)
BackupFiles == Under(<<"backups">>, "DATABASE_BACKUP", <<
  Get(<<":", "download">>, "read"), Get(<<":">>, "read"), Remove(<<":">>, "delete")>>)

BlogCategoryLists == Under(<<"blog-categories">>, "BLOG_CATEGORY", <<
  Post(<<>>, "create"), Get(<<"trash">>, "restore"), Get(<<>>, "read")>>)
BlogCategoryReading == Under(<<"blog-categories">>, "BLOG_CATEGORY", <<
  Get(<<"export">>, "read"), Get(<<":">>, "read"), Patch(<<":">>, "update"), Remove(<<":">>, "delete")>>)
BlogCategoryChanges == Under(<<"blog-categories">>, "BLOG_CATEGORY", <<
  Post(<<":", "restore">>, "restore"), Post(<<"bulk-delete">>, "delete"), Post(<<"bulk-restore">>, "restore"),
  Post(<<":", "image">>, "update"), Remove(<<":", "image">>, "update")>>)

CampaignRequests == Under(<<"campaigns">>, "CAMPAIGN", <<
  Ask(<<"generate-topics">>, "export"), Post(<<"generate-campaign">>, "export"), Post(<<"export">>, "export")>>)
CampaignReading == Under(<<"campaigns">>, "CAMPAIGN", <<
  Get(<<"export", ":">>, "read"), Get(<<"exports">>, "read"), Ask(<<"exports", "export">>, "export"),
  Get(<<>>, "read")>>)
CampaignChanges == Under(<<"campaigns">>, "CAMPAIGN", <<
  Get(<<":">>, "read"), Remove(<<":">>, "delete"), Post(<<"bulk-delete">>, "delete")>>)

CompanyDataRoutes ==
  Under(<<"company-data">>, "", <<Get(<<"public">>, "visitor")>>) \o
  Under(<<"company-data">>, "COMPANY", <<
    Get(<<>>, "read"), Get(<<"me">>, "read"), Get(<<":">>, "read"), Patch(<<":">>, "update"),
    Post(<<":", "signature">>, "update"), Remove(<<":", "signature">>, "update")>>)

ContactLists == Under(<<"contact-support">>, "CONTACT", <<
  Post(<<>>, "create"), Also(Get(<<>>, "read"), "restore")>>)
ContactReading == Under(<<"contact-support">>, "CONTACT", <<
  Also(Get(<<"export">>, "read"), "restore"), Also(Get(<<":">>, "read"), "restore")>>)
ContactChanges == Under(<<"contact-support">>, "CONTACT", <<
  Patch(<<":", "read">>, "update"), Patch(<<":", "restore">>, "restore"), Post(<<"bulk-delete">>, "delete"),
  Post(<<"bulk-restore">>, "restore"), Remove(<<":">>, "delete")>>)
PublicContactRoutes == Under(<<"public", "contact-support">>, "", <<Post(<<>>, "visitor")>>)

PostWriting == Under(<<"posts">>, "CONTENT", <<
  Post(<<>>, "create"), Post(<<"ai", "generate-preview">>, "create")>>)
SocialIdeas == Under(<<"posts", "social">>, "CONTENT", <<
  Post(<<"generate-ideas">>, "create"), Post(<<"generate-post">>, "create"), Ask(<<":", "download-zip">>, "read")>>)
PostReading == Under(<<"posts">>, "CONTENT", <<
  Also(Get(<<>>, "read"), "restore"), Also(Get(<<"export">>, "read"), "restore")>>)
PostChanges == Under(<<"posts">>, "CONTENT", <<
  Get(<<":">>, "read"), Patch(<<":">>, "update"), Patch(<<":", "restore">>, "restore"),
  Post(<<"bulk-delete">>, "delete"), Post(<<"bulk-restore">>, "restore"), Remove(<<":">>, "delete")>>)

CallReading == Under(<<"retell", "calls">>, "CALL_RECORD", <<
  Also(Get(<<>>, "read"), "restore"), Also(Get(<<"export">>, "export"), "restore")>>)
CallChanges == Under(<<"retell", "calls">>, "CALL_RECORD", <<
  Post(<<"sync">>, "update"), Post(<<"bulk-delete">>, "delete"), Post(<<"bulk-restore">>, "restore"),
  Get(<<":">>, "read"), Patch(<<":", "read">>, "update"), Post(<<":", "restore">>, "restore"),
  Remove(<<":">>, "delete")>>)
RetellWebhookRoutes == Under(<<"retell", "webhook">>, "", <<Post(<<>>, "visitor")>>)

PermissionRoutes == Under(<<"permissions">>, "PERMISSION", <<Get(<<>>, "read")>>)

\* MUTANT of RoleReading: the parameter is declared before its neighbours.
RoleReadingAnyFirst == Under(<<"roles">>, "ROLE", <<
  Get(<<":">>, "read"), Post(<<>>, "create"), Get(<<"trash">>, "restore"), Also(Get(<<>>, "read"), "restore"),
  Also(Get(<<"export">>, "read"), "restore")>>)

RoleReading == Under(<<"roles">>, "ROLE", <<
  Post(<<>>, "create"), Get(<<"trash">>, "restore"), Also(Get(<<>>, "read"), "restore"),
  Also(Get(<<"export">>, "read"), "restore"), Get(<<":">>, "read")>>)
RoleChanges == Under(<<"roles">>, "ROLE", <<
  Patch(<<":">>, "update"), Remove(<<":">>, "delete"), Post(<<":", "restore">>, "restore"),
  Post(<<":", "permissions">>, "update"), Remove(<<":", "permissions", ":">>, "update"),
  Post(<<"bulk-delete">>, "delete"), Post(<<"bulk-restore">>, "restore")>>)

SocialMediaGeneration == Under(<<"social-media">>, "SOCIAL_MEDIA", <<
  Ask(<<"generate-topics">>, "create"), Post(<<"generate-content">>, "create"),
  Get(<<>>, "read"), Get(<<":">>, "read")>>)
SocialMediaChanges == Under(<<"social-media">>, "SOCIAL_MEDIA", <<
  Remove(<<":">>, "delete"), Post(<<"bulk-delete">>, "delete"), Ask(<<"export">>, "export"),
  Ask(<<":", "download-zip">>, "read")>>)

UserPermissionRoutes == Under(<<"users", ":", "permissions">>, "USER", <<
  Get(<<>>, "read"), Post(<<>>, "update"), Remove(<<":">>, "update")>>)

UserCreation ==
  Under(<<"users">>, "USER", <<Also(Post(<<>>, "create"), "manage")>>) \o
  Under(<<"users">>, "", <<
    Post(<<"setup-password">>, "visitor"), Post(<<"request-password-change">>, "visitor"),
    Post(<<"change-password">>, "visitor")>>)
UserLists == Under(<<"users">>, "USER", <<
  Also(Get(<<>>, "read"), "restore"), Also(Get(<<"export">>, "read"), "restore")>>)
\* MUTANT of UserReading: a look at whether a name is taken reserves it.
UserReadingReserves == Under(<<"users">>, "USER", <<
  Get(<<"check", "email">>, "read"), Route("get", <<"check", "username">>, "read", TRUE), Get(<<":">>, "read")>>)

UserReading == Under(<<"users">>, "USER", <<
  Get(<<"check", "email">>, "read"), Get(<<"check", "username">>, "read"), Get(<<":">>, "read")>>)
UserChanges == Under(<<"users">>, "USER", <<
  Also(Patch(<<":">>, "update"), "manage"), Remove(<<":">>, "delete"),
  Post(<<"bulk-delete">>, "delete"), Post(<<"bulk-restore">>, "restore")>>)

----------------------------------------------------------------------------
(* The application: the modules in the order of their registration.        *)

AllRoutes ==
  HealthRoutes \o SigningIn \o OwnAccount \o TwoFactorRoutes \o SessionRoutes \o SocialAuthRoutes \o
  CompanyDataRoutes \o BlogCategoryLists \o BlogCategoryReading \o BlogCategoryChanges \o
  UserCreation \o UserLists \o UserReading \o UserChanges \o
  AppointmentReading \o AppointmentExport \o AppointmentChanges \o PublicAppointmentRoutes \o
  ContactLists \o ContactReading \o ContactChanges \o PublicContactRoutes \o
  RoleReading \o RoleChanges \o PermissionRoutes \o UserPermissionRoutes \o
  BackupListing \o BackupFiles \o PostWriting \o SocialIdeas \o PostReading \o PostChanges \o
  SocialMediaGeneration \o SocialMediaChanges \o
  CampaignRequests \o CampaignReading \o CampaignChanges \o ActivityLogRoutes \o
  CallReading \o CallChanges \o RetellWebhookRoutes \o
  AvailabilityRuleRoutes \o AvailabilityExceptionRoutes \o PublicAvailabilityRoutes \o AppRoutes

\* The abilities a request to the route may have to show.
Demands(route) ==
  IF route.action \in Levels THEN {}
  ELSE {<<route.subject, a>> : a \in {route.action} \union route.extra}

AllDemands == UNION {Demands(AllRoutes[i]) : i \in DOMAIN AllRoutes}

\* Does the path of a request match that of the route?
Matches(path, route) ==
  /\ Len(path) = Len(route.path)
  /\ \A i \in DOMAIN path : route.path[i] \in {":", path[i]}

\* The route the router takes.
RouteOf(verb, path) ==
  LET fits(i) == AllRoutes[i].verb = verb /\ Matches(path, AllRoutes[i])
  IN  CHOOSE i \in DOMAIN AllRoutes : fits(i) /\ \A j \in 1 .. (i - 1) : ~fits(j)

\* A path of the route, with identifiers for its parameters.
PathOf(route) == [i \in DOMAIN route.path |-> IF route.path[i] = ":" THEN "7f3a" ELSE route.path[i]]

=============================================================================
