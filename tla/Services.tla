------------------------------ MODULE Services ------------------------------
(***************************************************************************)
(* The API's in-memory services side by side.  They run in one process and *)
(* share the clock and nothing else, so that what is said of one service   *)
(* does not depend on the calls to the others: a behaviour is about one    *)
(* of them, the focus, and the others stand still.                         *)
(***************************************************************************)
EXTENDS Panels, Channels, Media, Composer

VARIABLE focus  \* the service, or the page over it, that is called

servicesVars ==
  <<now, focus, membersVars, keysVars, identityVars, channelsVars, mediaVars, alertsVars,
    generationVars, voicesVars, templatesVars, campaignsVars, tasksVars, localizationVars,
    onboardingVars, reportsVars, webhooksVars, panelVars, composerVars>>

Focuses == {"members", "keys", "identity", "channels", "media", "alerts", "generation", "voices",
            "templates", "campaigns", "tasks", "localization", "onboarding", "reports", "webhooks", "composer"} \cup Panels

ServicesTypeOK ==
  /\ now \in Instants
  /\ focus \in Focuses
  /\ AccessTypeOK /\ ChannelsTypeOK /\ MediaTypeOK /\ AlertsTypeOK /\ GenerationTypeOK
  /\ LibraryTypeOK /\ RecordsTypeOK /\ ComposerTypeOK

\* The starting state of each service; one that is not called may be in any of them.
ServicesInit ==
  /\ ClockInit
  /\ focus \in Focuses
  /\ MembersInit /\ KeysInit /\ IdentityInit /\ ChannelsInit /\ MediaInit /\ AlertsInit
  /\ GenerationInit /\ VoicesInit /\ TemplatesInit /\ CampaignsInit /\ TasksInit
  /\ LocalizationInit /\ OnboardingInit /\ ReportsInit /\ WebhooksInit
  /\ PanelsInit /\ ComposerInit

\* What belongs to a service stands still unless it or its panel is in focus.
Still(parts, vars) == IF focus \in parts THEN TRUE ELSE UNCHANGED vars

ServicesNext ==
  /\ \/ focus = "members" /\ MembersNext
     \/ focus = "keys" /\ KeysNext
     \/ focus = "identity" /\ IdentityNext
     \/ focus = "channels" /\ ChannelsNext
     \/ focus = "media" /\ MediaNext
     \/ focus = "alerts" /\ AlertsNext
     \/ focus = "generation" /\ GenerationNext
     \/ focus = "voices" /\ VoicesNext
     \/ focus = "templates" /\ TemplatesNext
     \/ focus = "campaigns" /\ CampaignsNext
     \/ focus = "tasks" /\ TasksNext
     \/ focus = "localization" /\ LocalizationNext
     \/ focus = "onboarding" /\ OnboardingNext
     \/ focus = "reports" /\ ReportsNext
     \/ focus = "webhooks" /\ WebhooksNext
     \/ focus \in Panels /\ PanelNext(focus)
     \/ focus = "composer" /\ ComposerNext
  /\ UNCHANGED focus
  /\ Still({"members"}, membersVars)
  /\ Still({"keys"}, keysVars)
  /\ Still({"identity", "identityPanel"}, identityVars)
  /\ Still({"channels"}, channelsVars)
  /\ Still({"media"}, mediaVars)
  /\ Still({"alerts", "listeningPanel", "notificationsPanel"}, alertsVars)
  /\ Still({"generation", "safetyPanel"}, generationVars)
  /\ Still({"voices"}, voicesVars)
  /\ Still({"templates", "templatesPanel"}, templatesVars)
  /\ Still({"campaigns", "campaignsPanel"}, campaignsVars)
  /\ Still({"tasks", "tasksPanel"}, tasksVars)
  /\ Still({"localization", "localizationPanel"}, localizationVars)
  /\ Still({"onboarding", "onboardingPanel"}, onboardingVars)
  /\ Still({"reports", "reportingPanel"}, reportsVars)
  /\ Still({"webhooks"}, webhooksVars)
  /\ Still(Panels, panelVars)
  /\ Still({"composer"}, composerVars)

ServicesSpec == ServicesInit /\ [][ServicesNext]_servicesVars

\* What module Panels says of the panel in focus.
PanelsShowWhatIsSo == focus \in Panels => PanelShowsWhatIsSo(focus)

\* Nothing that is looked for before it is made is ever made twice: an invitation, an account with
\* its bucket, a job of an upload, a voice, a template, a budget line.
NothingTwice ==
  /\ InvitationsApart
  /\ AccountsApart
  /\ OneJobPerUpload
  /\ VoicesApart
  /\ TemplatesApart
  /\ BudgetLinesApart
=============================================================================
