------------------------------- MODULE Routes -------------------------------
(***************************************************************************)
(* Who may call what: the permissions of the roles, the permission that    *)
(* each route of a controller asks for, and the three guards a request     *)
(* passes through before its handler runs.                                 *)
(***************************************************************************)

CONSTANT
  DevHeaders  \* AUTH_ALLOW_DEV_HEADERS, outside production

ASSUME RoutesAssumption == DevHeaders \in BOOLEAN

Permissions ==
  {"platform.manage", "billing.manage", "workspace.manage", "workspace.delete", "members.invite",
   "members.manage", "api_keys.manage", "campaigns.manage", "campaigns.view", "posts.create",
   "posts.edit", "posts.schedule", "posts.publish", "posts.review", "posts.view", "media.manage",
   "analytics.view", "analytics.export", "social_accounts.manage", "brand_voice.manage",
   "ai.generate", "audit.view", "webhooks.manage"}

RolePermissions ==
  [super_admin |-> Permissions,
   owner       |-> Permissions \ {"platform.manage"},
   admin       |-> Permissions \ {"platform.manage", "billing.manage", "workspace.delete"},
   manager     |-> {"campaigns.manage", "campaigns.view", "posts.create", "posts.edit",
                    "posts.schedule", "posts.publish", "posts.review", "posts.view",
                    "media.manage", "analytics.view", "analytics.export", "brand_voice.manage",
                    "ai.generate"},
   creator     |-> {"campaigns.view", "posts.create", "posts.edit", "posts.schedule",
                    "posts.view", "media.manage", "analytics.view", "ai.generate"},
   reviewer    |-> {"campaigns.view", "posts.review", "posts.view", "analytics.view"},
   viewer      |-> {"campaigns.view", "posts.view", "analytics.view"},
   api_service_account |->
     {"posts.create", "posts.edit", "posts.schedule", "posts.publish", "posts.view",
      "media.manage", "analytics.view", "analytics.export", "social_accounts.manage",
      "webhooks.manage"}]

Roles == DOMAIN RolePermissions

-----------------------------------------------------------------------------
(* The guards.                                                             *)

Nobody == [role |-> "nobody", permissions |-> {}]
User(role) == [role |-> role, permissions |-> RolePermissions[role]]

\* ApiKeysService.verifySecret: scopes nobody has heard of are dropped.
KeyHolder(scopes) == [role |-> "api_service_account", permissions |-> scopes \cap Permissions]

\* What identifies a request: an API key that is good, a good access token, or a role in a header.
Credentials(scopes) ==
  [by : {"key"}, scopes : SUBSET scopes] \cup [by : {"token", "header"}, role : Roles]

\* ApiKeyAuthGuard, then AuthenticationGuard.
PrincipalOf(q) ==
  CASE q.by = "key"                    -> KeyHolder(q.scopes)
    [] q.by = "token"                  -> User(q.role)
    [] q.by = "header" /\ DevHeaders   -> User(q.role)
    [] q.by = "header" /\ ~DevHeaders  -> Nobody

HasPermission(role, permission) == role \in Roles /\ permission \in RolePermissions[role]

\* Mutant: a key is held to its scopes alone.
Served_ByScopes(who, needs) ==
  \/ needs = "public"
  \/ needs = "signed in" /\ who # Nobody
  \/ needs \in who.permissions

\* PermissionsGuard: what the caller was given must also be what its role has.
Served(who, needs) ==
  \/ needs = "public"
  \/ needs = "signed in" /\ who # Nobody
  \/ needs \in who.permissions /\ HasPermission(who.role, needs)

-----------------------------------------------------------------------------
(* The routes of the controllers and what each of them needs.              *)

\* The routes of a table that need one and the same permission.
All(names, needs) == [n \in names |-> needs]

PostsRoutes ==
  [list |-> "posts.view", platformRules |-> "posts.view", validate |-> "posts.view",
   findOne |-> "posts.view", create |-> "posts.create", update |-> "posts.edit",
   duplicate |-> "posts.create", archive |-> "posts.edit"]

WorkflowRoutes ==
  [bulk |-> "posts.review", comment |-> "posts.view", resolveComment |-> "posts.view",
   timeline |-> "posts.view", submit |-> "posts.edit", approve |-> "posts.review",
   requestChanges |-> "posts.review", schedule |-> "posts.schedule",
   cancel |-> "posts.schedule"]

SchedulingRoutes ==
  [rules |-> "posts.view", createRule |-> "posts.schedule", slots |-> "posts.view",
   recommend |-> "posts.schedule", reserve |-> "posts.schedule"]

PublishingRoutes ==
  [jobs |-> "posts.view", enqueue |-> "posts.publish", processDue |-> "posts.publish",
   process |-> "posts.publish", retry |-> "posts.publish"]

AiRoutes == All({"generate", "providers", "generations", "feedback"}, "ai.generate")
AnalyticsRoutes == All({"summary", "insights"}, "analytics.view")
ApiKeysRoutes == All({"list", "create", "revoke"}, "api_keys.manage")
AuditRoutes == All({"logs", "summary", "export"}, "audit.view")

\* What is not public here checks its principal itself.
AuthRoutes ==
  [register |-> "public", login |-> "public", refresh |-> "public", logout |-> "public",
   me |-> "signed in", session |-> "signed in", sessions |-> "signed in",
   revokeSession |-> "signed in", changePassword |-> "signed in",
   updateProfile |-> "signed in", switchWorkspace |-> "signed in"]

BillingRoutes ==
  [plans |-> "signed in", usage |-> "billing.manage", entitlementCheck |-> "billing.manage"]

BrandVoicesRoutes ==
  [list |-> "ai.generate", get |-> "ai.generate", create |-> "brand_voice.manage",
   update |-> "brand_voice.manage", duplicate |-> "brand_voice.manage",
   evaluate |-> "ai.generate"]

CampaignsRoutes ==
  [list |-> "campaigns.view", get |-> "campaigns.view", milestones |-> "campaigns.view",
   completeMilestone |-> "campaigns.manage", tasks |-> "campaigns.view",
   createTask |-> "campaigns.manage", updateTaskStatus |-> "campaigns.manage",
   budget |-> "campaigns.view", upsertBudgetLine |-> "campaigns.manage",
   reports |-> "analytics.view", generateReport |-> "analytics.export"]

ContentTemplatesRoutes ==
  [templates |-> "posts.view", createTemplate |-> "posts.create", useTemplate |-> "posts.create"]

DashboardRoutes == [overview |-> "analytics.view"]
HealthRoutes == [health |-> "public", ready |-> "public"]

IdentityRoutes ==
  All({"ssoConnections", "createSsoConnection", "testSsoConnection", "disableSsoConnection",
       "sessions", "revokeSession", "devices", "trustDevice", "revokeDevice"},
      "workspace.manage")

ListeningRoutes ==
  [summary |-> "analytics.view", monitors |-> "analytics.view",
   createMonitor |-> "campaigns.manage", pauseMonitor |-> "campaigns.manage",
   resumeMonitor |-> "campaigns.manage", archiveMonitor |-> "campaigns.manage",
   mentions |-> "analytics.view", ingestMention |-> "analytics.export",
   alerts |-> "analytics.view", resolveAlert |-> "campaigns.manage"]

LocalizationRoutes ==
  All({"capabilities", "preference", "updatePreference", "complianceProfile",
       "updateComplianceProfile"}, "workspace.manage")

MediaRoutes ==
  All({"assets", "uploadIntent", "processingJobs", "completeUpload", "processNext", "fail"},
      "media.manage")

MembersRoutes ==
  [members |-> "members.manage", invitations |-> "members.invite", invite |-> "members.invite",
   resend |-> "members.invite", revoke |-> "members.invite", updateRole |-> "members.manage",
   suspend |-> "members.manage"]

NotificationsRoutes ==
  [list |-> "posts.view", markRead |-> "posts.view", preferences |-> "posts.view",
   updatePreferences |-> "posts.view", deliveries |-> "workspace.manage", route |-> "posts.view"]

OnboardingRoutes == All({"checklist", "complete", "skip"}, "workspace.manage")

ReportsRoutes ==
  [templates |-> "analytics.view", createTemplate |-> "analytics.export",
   schedules |-> "analytics.view", createSchedule |-> "analytics.export",
   exports |-> "analytics.view", createExport |-> "analytics.export",
   shareLinks |-> "analytics.view", createShareLink |-> "analytics.export"]

SafetyRoutes ==
  [policies |-> "ai.generate", createPolicy |-> "brand_voice.manage", evaluate |-> "ai.generate",
   checks |-> "ai.generate", moderationQueue |-> "posts.review",
   resolveModerationItem |-> "posts.review"]

SearchRoutes == [search |-> "posts.view"]

SocialRoutes ==
  [accounts |-> "social_accounts.manage", accountHealth |-> "social_accounts.manage",
   platformCapabilities |-> "posts.view", authorize |-> "social_accounts.manage",
   callback |-> "social_accounts.manage", oauthStates |-> "social_accounts.manage",
   refreshToken |-> "social_accounts.manage", validateScopes |-> "social_accounts.manage",
   rateLimits |-> "social_accounts.manage", connectorEvents |-> "social_accounts.manage"]

WebhooksRoutes == All({"deliveries", "replay"}, "webhooks.manage")
WorkspacesRoutes == All({"list", "get"}, "workspace.manage")

\* The controllers of the API.
Controllers ==
  {PostsRoutes, WorkflowRoutes, SchedulingRoutes, PublishingRoutes, AiRoutes, AnalyticsRoutes,
   ApiKeysRoutes, AuditRoutes, AuthRoutes, BillingRoutes, BrandVoicesRoutes, CampaignsRoutes,
   ContentTemplatesRoutes, DashboardRoutes, HealthRoutes, IdentityRoutes, ListeningRoutes,
   LocalizationRoutes, MediaRoutes, MembersRoutes, NotificationsRoutes, OnboardingRoutes,
   ReportsRoutes, SafetyRoutes, SearchRoutes, SocialRoutes, WebhooksRoutes, WorkspacesRoutes}
=============================================================================
