------------------------------ MODULE Records ------------------------------
(***************************************************************************)
(* What a workspace is set up and reported with: LocalizationService,      *)
(* OnboardingService, ReportsService and WebhooksService.  The four share  *)
(* no state.  Of a report there is what refers to what and when it         *)
(* expires; nothing in the code reads that expiry or revokes a link.       *)
(***************************************************************************)
EXTENDS Service

CONSTANTS
  MaxReported, \* bound: report templates, schedules, exports and links beyond the fixtures, each
  ExportTtl,   \* how long an export is kept: a week
  MaxReplays   \* bound: deliveries' attempts

VARIABLES
  localPreferences,  \* user -> preference, for the users who have one
  compliance,        \* the regulations and residency of the workspace
  steps,             \* onboarding step -> status
  reportTemplates,   \* how many there are; they are known by their number
  schedules,         \* oldest first
  exports,           \* oldest first
  shareLinks,        \* oldest first
  deliveries         \* the fixtures' webhook deliveries

localizationVars == <<localPreferences, compliance>>
onboardingVars == <<steps>>
reportsVars == <<reportTemplates, schedules, exports, shareLinks>>
webhooksVars == <<deliveries>>

RecordsAssumption == MaxReported \in Nat /\ ExportTtl \in Nat
ASSUME RecordsAssumption

Locales == {"en", "ar"}
Directions == {"ltr", "rtl"}
Regulations == {"soc2", "dpdp"}
StepStatuses == {"pending", "in_progress", "completed", "skipped"}
OnboardingSteps ==
  {"workspace_profile", "connect_social_account", "brand_voice", "first_post", "invite_team",
   "notifications", "analytics_review"}

LocalizationPreference == [locale : Locales, direction : Directions]
ComplianceProfile == [region : {"in", "eu"}, regulations : SUBSET Regulations]
ScheduledReport == [template : Nat]
ReportExport == [template : Nat, expiresAt : Nat]
ShareLink == [export : Nat, expiresAt : Nat]
WebhookDelivery == [status : {"pending", "delivered", "failed"}, attempts : Nat]

\* What there is to report with from the start.
FixtureReportTemplates == 2
FixtureSchedules == << [template |-> 1] >>
FixtureExports == << [template |-> 1, expiresAt |-> 1 + ExportTtl] >>
FixtureShareLinks == << [export |-> 1, expiresAt |-> 1 + ExportTtl] >>

RecordsTypeOK ==
  /\ DOMAIN localPreferences \subseteq Users \cup {DemoUser}
  /\ localPreferences \in [DOMAIN localPreferences -> LocalizationPreference]
  /\ compliance \in ComplianceProfile
  /\ steps \in [OnboardingSteps -> StepStatuses]
  /\ reportTemplates \in 0 .. FixtureReportTemplates + MaxReported
  /\ schedules \in Seq(ScheduledReport)
  /\ exports \in Seq(ReportExport)
  /\ shareLinks \in Seq(ShareLink)
  /\ deliveries \in Seq(WebhookDelivery)
  /\ \A i \in DOMAIN schedules : schedules[i].template \in 1 .. reportTemplates
  /\ \A i \in DOMAIN exports : exports[i].template \in 0 .. reportTemplates
  /\ \A i \in DOMAIN shareLinks : shareLinks[i].export \in DOMAIN exports

-----------------------------------------------------------------------------
(* Localization. *)

FixtureLocalization == [locale |-> "en", direction |-> "ltr"]
FixtureCompliance == [region |-> "in", regulations |-> {"dpdp", "soc2"}]

LocalizationInit ==
  /\ localPreferences = [u \in {DemoUser} |-> FixtureLocalization]
  /\ compliance = FixtureCompliance

\* A preference is made like the fixtures'.
PreferenceFor(u) ==
  IF u \in DOMAIN localPreferences THEN localPreferences[u] ELSE [locale |-> "en", direction |-> "ltr"]

SavePreference(u, preference) ==
  localPreferences' = [v \in DOMAIN localPreferences \cup {u} |->
                         IF v = u THEN preference ELSE localPreferences[v]]

\* Reading makes the preference too.
GetPreference(u) == SavePreference(u, PreferenceFor(u)) /\ UNCHANGED compliance

\* locales and directions hold what the input has.  Arabic turns the direction and no other
\* locale turns it back.
UpdatePreference(u, locales, directions) ==
  LET old == PreferenceFor(u)
      locale == IF locales = {} THEN old.locale ELSE CHOOSE l \in locales : TRUE
  IN /\ SavePreference(u,
          [locale |-> locale,
           direction |-> IF directions # {} THEN CHOOSE d \in directions : TRUE
                         ELSE IF locale = "ar" THEN "rtl" ELSE old.direction])
     /\ UNCHANGED compliance

UpdateCompliance(region, regulations) ==
  /\ compliance' = [region |-> region, regulations |-> regulations]
  /\ UNCHANGED localPreferences

AtMostOne(S) == {{}} \cup {{x} : x \in S}

LocalizationNext ==
  /\ UNCHANGED now
  /\ \/ \E u \in Users \cup {DemoUser} :
          \/ GetPreference(u)
          \/ \E locales \in AtMostOne(Locales), directions \in AtMostOne(Directions) :
               UpdatePreference(u, locales, directions)
     \/ \E region \in {"in", "eu"}, regulations \in SUBSET Regulations :
          UpdateCompliance(region, regulations)

-----------------------------------------------------------------------------
(* Onboarding. *)

FixtureSteps ==
  [s \in OnboardingSteps |->
     CASE s \in {"workspace_profile", "connect_social_account", "brand_voice"} -> "completed"
       [] s = "first_post" -> "in_progress"
       [] s \in {"invite_team", "notifications", "analytics_review"} -> "pending"]

OnboardingInit == steps = FixtureSteps

StepsIn(statuses) == {s \in OnboardingSteps : steps[s] \in statuses}

\* Skipped steps are neither done nor to do: with all of them skipped the checklist is complete.
Progress ==
  LET actionable == Cardinality(OnboardingSteps \ StepsIn({"skipped"}))
      completed == Cardinality(StepsIn({"completed"}))
  IN IF actionable = 0 THEN 100 ELSE (200 * completed + actionable) \div (2 * actionable)

\* Completing what is completed changes nothing; what is skipped is refused, and nothing resets it.
CompleteStep(s) ==
  /\ steps[s] \in {"pending", "in_progress"}
  /\ steps' = [steps EXCEPT ![s] = "completed"]

\* Mutant: a completed step can be skipped.
SkipStep_Completed(s) == steps' = [steps EXCEPT ![s] = "skipped"]

SkipStep(s) ==
  /\ steps[s] # "completed"
  /\ steps' = [steps EXCEPT ![s] = "skipped"]

OnboardingNext ==
  /\ UNCHANGED now
  /\ \E s \in OnboardingSteps : CompleteStep(s) \/ SkipStep(s)

\* Whatever is completed or skipped, in whatever order, the checklist's percentage never falls, and
\* it is full only when nothing is left to do.  [OnboardingService.complete, skip, checklist]
ProgressNeverFalls ==
  [][Progress' >= Progress /\ (Progress' = 100 <=> StepsIn({"pending", "in_progress"})' = {})]_steps

-----------------------------------------------------------------------------
(* Reports. *)

ReportsInit ==
  /\ reportTemplates = FixtureReportTemplates
  /\ schedules = FixtureSchedules
  /\ exports = FixtureExports
  /\ shareLinks = FixtureShareLinks

CreateReportTemplate ==
  /\ reportTemplates < FixtureReportTemplates + MaxReported
  /\ reportTemplates' = reportTemplates + 1
  /\ UNCHANGED <<schedules, exports, shareLinks>>

CreateSchedule(template) ==
  /\ Len(schedules) < Len(FixtureSchedules) + MaxReported
  /\ schedules' = Append(schedules, [template |-> template])
  /\ UNCHANGED <<reportTemplates, exports, shareLinks>>

\* template is NoRecord for an export without one.  An export is ready when it is made.
CreateExport(template) ==
  /\ Len(exports) < Len(FixtureExports) + MaxReported
  /\ exports' = Append(exports, [template |-> template, expiresAt |-> now + ExportTtl])
  /\ UNCHANGED <<reportTemplates, schedules, shareLinks>>

\* A link may be given any expiry, later than its export's too; expiries holds the input's.
CreateShareLink(export, expiries) ==
  /\ Len(shareLinks) < Len(FixtureShareLinks) + MaxReported
  /\ shareLinks' = Append(shareLinks,
       [export |-> export,
        expiresAt |-> IF expiries = {} THEN exports[export].expiresAt
                                       ELSE CHOOSE t \in expiries : TRUE])
  /\ UNCHANGED <<reportTemplates, schedules, exports>>

ReportsNext ==
  \/ Tick /\ UNCHANGED reportsVars
  \/ /\ UNCHANGED now
     /\ \/ CreateReportTemplate
        \/ \E template \in 1 .. reportTemplates : CreateSchedule(template)
        \/ \E template \in 0 .. reportTemplates : CreateExport(template)
        \/ \E export \in DOMAIN exports, expiries \in AtMostOne({MaxTime}) :
             CreateShareLink(export, expiries)

-----------------------------------------------------------------------------
(* Webhooks: nothing sends a delivery; a replay only marks it. *)

FixtureDeliveries ==
  << [status |-> "delivered", attempts |-> 1], [status |-> "pending", attempts |-> 2] >>

WebhooksInit == deliveries = FixtureDeliveries

Replay(d) ==
  /\ deliveries[d].attempts < MaxReplays
  /\ deliveries' = [deliveries EXCEPT ![d] = [status |-> "pending", attempts |-> @.attempts + 1]]

WebhooksNext == UNCHANGED now /\ \E d \in DOMAIN deliveries : Replay(d)
=============================================================================
