------------------------------- MODULE Panels -------------------------------
(***************************************************************************)
(* The settings panels of the web application over the services they talk  *)
(* to.  A panel shows the rows it was given, asks for one change at a time *)
(* and works the answer into its rows itself; it never reads the table     *)
(* again.  The service runs the whole change when it is asked; the answer  *)
(* may be lost afterwards (client-api.ts gives up after twenty seconds).   *)
(* A refused change alters nothing on either side and is not a step.  Each *)
(* panel is alone with its service, the order of rows and what is only     *)
(* text are left out.                                                      *)
(***************************************************************************)
EXTENDS Access, Alerts, Generation, Library, Records

CONSTANT
  MaxUnheard  \* bound: rows that the panel may be wrong about

VARIABLES
  shown,    \* table -> id -> row: what the panel's useState holds
  loading,  \* a change was asked for and is not answered; every button is disabled
  edits,    \* table -> what the answer does to its rows
  unheard   \* <<table, id>> of the rows with a change that was not heard of, or not saved

panelVars == <<shown, loading, edits, unheard>>

\* A form of a panel names something else than the fixtures do.
PanelsAssumption == \E w \in Words : w # DemoName.word
ASSUME PanelsAssumption

\* The rows of a panel's table in its service.  A settings form is a table of one row.
Table(t) ==
  CASE t = "connections"  -> connections
    [] t = "devices"      -> devices
    [] t = "sessions"     -> authSessions
    [] t = "milestones"   -> milestones
    [] t = "budgetLines"  -> budgetLines
    [] t = "reports"      -> reports
    [] t = "tasks"        -> tasks
    [] t = "monitors"     -> monitors
    [] t = "mentions"     -> [m \in 1 .. mentions |-> m]
    [] t = "alerts"       -> alerts
    [] t = "reportTemplates" -> [r \in 1 .. reportTemplates |-> r]
    [] t = "schedules"    -> schedules
    [] t = "exports"      -> exports
    [] t = "shareLinks"   -> shareLinks
    [] t = "templates"    -> templates
    [] t = "checks"       -> checks
    [] t = "queue"        -> queue
    [] t = "steps"        -> steps
    [] t = "localePref"   -> << localPreferences[DemoUser] >>
    [] t = "profile"      -> << compliance >>
    [] t = "preferences"  ->
         << [f \in {"channels", "digest", "mutedTypes"} |-> preferences[DemoUser][f]] >>

PanelTables ==
  [identityPanel |-> {"connections", "devices", "sessions"},
   campaignsPanel |-> {"milestones", "budgetLines", "reports"},
   tasksPanel |-> {"tasks"},
   listeningPanel |-> {"monitors", "mentions", "alerts"},
   reportingPanel |-> {"reportTemplates", "schedules", "exports", "shareLinks"},
   templatesPanel |-> {"templates"},
   safetyPanel |-> {"checks", "queue"},
   onboardingPanel |-> {"steps"},
   localizationPanel |-> {"localePref", "profile"},
   notificationsPanel |-> {"preferences"}]

Panels == DOMAIN PanelTables

PanelsInit ==
  /\ shown = [t \in UNION {PanelTables[p] : p \in Panels} |-> Table(t)]
  /\ loading = FALSE
  /\ edits = <<>>
  /\ unheard = {}

-----------------------------------------------------------------------------
(* Asking, and hearing or not hearing.                                     *)

\* What an answer that carries a row does: it is put at the front, it replaces the row of its id,
\* or it is only a receipt.
Adds(t, id) == [how |-> "add", id |-> id, row |-> Table(t)'[id]]
Replaces(t, id) == [how |-> "replace", id |-> id, row |-> Table(t)'[id]]
Confirms(t, id) == [how |-> "confirm", id |-> id, row |-> shown[t][id]]
\* The answer is the whole table.
Refills(t) == [how |-> "refill", rows |-> Table(t)']
\* The panel's own conclusion: the sessions shown for the device are over.
EndsSessionsOf(d) == [how |-> "end", device |-> d]

Asks(answer) ==
  /\ ~loading
  /\ loading' = TRUE
  /\ edits' = answer
  /\ UNCHANGED <<shown, unheard>>

\* The rows of a table that an answer is about.
About(t, edit) ==
  CASE edit.how = "refill" -> DOMAIN shown[t]
    [] edit.how = "end" -> {s \in DOMAIN shown[t] : shown[t][s].device = edit.device}
    [] edit.how \in {"add", "replace", "confirm"} -> {edit.id}

\* Mutant: the panel leaves the sessions of a device it revoked as they were.
Edited_NoCascade(t, edit) ==
  CASE edit.how = "add" ->
         [i \in DOMAIN shown[t] \cup {edit.id} |-> IF i = edit.id THEN edit.row ELSE shown[t][i]]
    [] edit.how = "replace" -> [shown[t] EXCEPT ![edit.id] = edit.row]
    [] edit.how = "refill" -> edit.rows
    [] edit.how \in {"end", "confirm"} -> shown[t]

Edited(t, edit) ==
  CASE edit.how = "add" ->
         [i \in DOMAIN shown[t] \cup {edit.id} |-> IF i = edit.id THEN edit.row ELSE shown[t][i]]
    [] edit.how = "replace" -> [shown[t] EXCEPT ![edit.id] = edit.row]
    [] edit.how = "refill" -> edit.rows
    [] edit.how = "end" ->
         [s \in DOMAIN shown[t] |-> IF s \in About(t, edit) /\ shown[t][s].status = "active"
                                    THEN [shown[t][s] EXCEPT !.status = "revoked"] ELSE shown[t][s]]
    [] edit.how = "confirm" -> shown[t]

\* A receipt is for the form as it was sent.
SetRight(t, edit) ==
  IF edit.how = "confirm" /\ shown[t][edit.id] # edit.row THEN {} ELSE About(t, edit)

Rows(Some(_, _)) == UNION {{<<t, i>> : i \in Some(t, edits[t])} : t \in DOMAIN edits}

Answered ==
  /\ loading
  /\ shown' = [t \in DOMAIN shown |->
                 IF t \in DOMAIN edits THEN Edited(t, edits[t]) ELSE shown[t]]
  /\ unheard' = unheard \ Rows(SetRight)
  /\ loading' = FALSE /\ edits' = <<>>

\* apiRequest throws, the panel shows a message and its old rows.
Lost ==
  /\ loading
  /\ Cardinality(unheard \cup Rows(About)) <= MaxUnheard
  /\ unheard' = unheard \cup Rows(About)
  /\ loading' = FALSE /\ edits' = <<>>
  /\ UNCHANGED shown

Hears == Answered \/ Lost

\* An input of a form, which is not disabled while a change is under way.
Typed(t, row) ==
  /\ shown' = [shown EXCEPT ![t] = <<row>>]
  /\ unheard' = unheard \cup {<<t, 1>>}
  /\ UNCHANGED <<loading, edits>>
-----------------------------------------------------------------------------
(* Identity: single sign-on, sessions and devices.                         *)

createSsoConnection ==
  /\ CreateConnection([word |-> CHOOSE w \in Words : w # DemoName.word, capitals |-> FALSE])
  /\ Asks([connections |-> Adds("connections", Len(connections'))])

\* Both buttons are there for a connection that is shown as enabled.
ConnectionOffers(i) == shown.connections[i].status # "disabled"

testSsoConnection(i) ==
  /\ ConnectionOffers(i)
  /\ TestConnection(i)
  /\ Asks([connections |-> Replaces("connections", i)])

disableSsoConnection(i) ==
  /\ ConnectionOffers(i)
  /\ DisableConnection(i)
  /\ Asks([connections |-> Replaces("connections", i)])

revokeSession(s) ==
  /\ shown.sessions[s].status = "active"
  /\ RevokeAuthSession(s)
  /\ Asks([sessions |-> Replaces("sessions", s)])

\* A device that is shown as revoked has its button, disabled.
DeviceOffers(d) == (IF shown.devices[d] = "pending" THEN {"trust"} ELSE {})
                     \cup (IF shown.devices[d] # "revoked" THEN {"revoke"} ELSE {})

trustDevice(d) ==
  /\ "trust" \in DeviceOffers(d)
  /\ TrustDevice(d)
  /\ Asks([devices |-> Replaces("devices", d)])

revokeDevice(d) ==
  /\ "revoke" \in DeviceOffers(d)
  /\ RevokeDevice(d)
  /\ Asks([devices |-> Replaces("devices", d), sessions |-> EndsSessionsOf(d)])

IdentityPanel ==
  \/ Hears /\ UNCHANGED identityVars
  \/ createSsoConnection
  \/ \E i \in DOMAIN shown.connections : testSsoConnection(i) \/ disableSsoConnection(i)
  \/ \E s \in DOMAIN shown.sessions : revokeSession(s)
  \/ \E d \in DOMAIN shown.devices : trustDevice(d) \/ revokeDevice(d)

-----------------------------------------------------------------------------
(* Campaign operations.                                                    *)

\* Completing again what is completed is answered with what there is; so is resolving an alert.
completeMilestone(m) ==
  /\ shown.milestones[m].status # "completed"
  /\ CompleteMilestone(m) \/ (milestones[m].status = "completed" /\ UNCHANGED campaignsVars)
  /\ Asks([milestones |-> Replaces("milestones", m)])

saveBudgetLine(category, allocated, spent) ==
  /\ UpsertBudgetLine(category, allocated, spent)
  /\ Asks([budgetLines |-> Adds("budgetLines",
             IF LineOf(category) = NoRecord THEN Len(budgetLines') ELSE LineOf(category))])

generateReport ==
  /\ GenerateReport
  /\ Asks([reports |-> Adds("reports", Len(reports'))])

CampaignsPanel ==
  \/ Hears /\ UNCHANGED campaignsVars
  \/ \E m \in DOMAIN shown.milestones : completeMilestone(m)
  \/ \E category \in {Plain(name) : name \in Spelled}, spent \in {0, 2} : saveBudgetLine(category, 1, spent)
  \/ generateReport

createTask ==
  /\ CreateTask
  /\ Asks([tasks |-> Adds("tasks", Len(tasks'))])

markTaskDone(t) ==
  /\ shown.tasks[t].status # "done"
  /\ UpdateTaskStatus(t, "done")
  /\ Asks([tasks |-> Replaces("tasks", t)])

TasksPanel ==
  \/ Hears /\ UNCHANGED tasksVars
  \/ createTask
  \/ \E t \in DOMAIN shown.tasks : markTaskDone(t)

-----------------------------------------------------------------------------
(* Social listening.                                                       *)

createMonitor ==
  /\ CreateMonitor(1)
  /\ Asks([monitors |-> Adds("monitors", Len(monitors'))])

\* To pause or to resume is decided by what is shown.
toggleMonitor(m) ==
  /\ shown.monitors[m].status # "archived"
  /\ SetMonitorStatus(m, IF shown.monitors[m].status = "active" THEN "paused" ELSE "active")
  /\ Asks([monitors |-> Replaces("monitors", m)])

\* The mention the panel makes up: over every threshold, and so never without an alert.
CrisisMention(alertThreshold) ==
  [sentiment |-> "negative", reach |-> 1000 * alertThreshold + 19000,
   engagement |-> 18 * alertThreshold]

ingestMention(m) ==
  /\ shown.monitors[m].status = "active"
  /\ IngestMention(m, CrisisMention(shown.monitors[m].alertThreshold), DemoUser)
  /\ Asks([mentions |-> Adds("mentions", mentions'), alerts |-> Adds("alerts", Len(alerts'))])

resolveAlert(a) ==
  /\ ~shown.alerts[a].resolved
  /\ ResolveAlert(a) \/ (alerts[a].resolved /\ UNCHANGED alertsVars)
  /\ Asks([alerts |-> Replaces("alerts", a)])

ListeningPanel ==
  \/ Hears /\ UNCHANGED alertsVars
  \/ createMonitor
  \/ \E m \in DOMAIN shown.monitors : toggleMonitor(m) \/ ingestMention(m)
  \/ \E a \in DOMAIN shown.alerts : resolveAlert(a)
-----------------------------------------------------------------------------
(* Reports and content templates.                                          *)

createReportTemplate ==
  /\ CreateReportTemplate
  /\ Asks([reportTemplates |-> Adds("reportTemplates", reportTemplates')])

createSchedule(template) ==
  /\ CreateSchedule(template)
  /\ Asks([schedules |-> Adds("schedules", Len(schedules'))])

createExport(template) ==
  /\ CreateExport(template)
  /\ Asks([exports |-> Adds("exports", Len(exports'))])

shareExport(export) ==
  /\ CreateShareLink(export, {})
  /\ Asks([shareLinks |-> Adds("shareLinks", Len(shareLinks'))])

ReportingPanel ==
  \/ Hears /\ UNCHANGED reportsVars
  \/ createReportTemplate
  \/ \E template \in DOMAIN shown.reportTemplates : createSchedule(template) \/ createExport(template)
  \/ \E export \in DOMAIN shown.exports : shareExport(export)

createTemplate(name) ==
  /\ CreateTemplate(name, "active")
  /\ Asks([templates |-> Adds("templates", Len(templates'))])

useTemplate(t) ==
  /\ shown.templates[t].status = "active"
  /\ UseTemplate(t)
  /\ Asks([templates |-> Replaces("templates", t)])

TemplatesPanel ==
  \/ Hears /\ UNCHANGED templatesVars
  \/ \E name \in Spelled : createTemplate(name)
  \/ \E t \in DOMAIN shown.templates : useTemplate(t)

-----------------------------------------------------------------------------
(* Content safety: a moderator's decision is "approved" from here.         *)

evaluate(text) ==
  /\ Evaluate(text)
  /\ Asks(IF queue' = queue THEN [checks |-> Adds("checks", Len(checks'))]
          ELSE [checks |-> Adds("checks", Len(checks')), queue |-> Adds("queue", Len(queue'))])

resolve(q) ==
  /\ shown.queue[q].status = "open"
  /\ ResolveModerationItem(q, "approved")
  /\ Asks([queue |-> Replaces("queue", q)])

SafetyPanel ==
  \/ Hears /\ UNCHANGED generationVars
  \/ \E text \in SomeTexts : evaluate(text)
  \/ \E q \in DOMAIN shown.queue : resolve(q)

-----------------------------------------------------------------------------
(* Onboarding: the panel has the first four steps.                         *)

StepOffers(s) ==
  /\ s \in {"workspace_profile", "connect_social_account", "brand_voice", "first_post"}
  /\ shown.steps[s] \in {"pending", "in_progress"}

complete(s) ==
  /\ StepOffers(s)
  /\ CompleteStep(s) \/ (steps[s] = "completed" /\ UNCHANGED onboardingVars)
  /\ Asks([steps |-> Refills("steps")])

skip(s) ==
  /\ StepOffers(s)
  /\ SkipStep(s)
  /\ Asks([steps |-> Refills("steps")])

OnboardingPanel ==
  \/ Hears /\ UNCHANGED onboardingVars
  \/ \E s \in DOMAIN shown.steps : complete(s) \/ skip(s)

-----------------------------------------------------------------------------
(* Localization: a form for the user and one for the workspace.            *)

\* The form has a locale and no direction; saving derives one.
savePreference ==
  LET locale == shown.localePref[1].locale
  IN /\ UpdatePreference(DemoUser, {locale}, {IF locale = "ar" THEN "rtl" ELSE "ltr"})
     /\ Asks([localePref |-> Replaces("localePref", 1)])

saveComplianceProfile ==
  /\ UpdateCompliance(shown.profile[1].region, shown.profile[1].regulations)
  /\ Asks([profile |-> Replaces("profile", 1)])

toggleRegulation(regulation) ==
  LET old == shown.profile[1]
  IN Typed("profile", [old EXCEPT !.regulations =
       IF regulation \in @ THEN @ \ {regulation} ELSE @ \cup {regulation}])

LocalizationPanel ==
  \/ savePreference
  \/ saveComplianceProfile
  \/ /\ UNCHANGED localizationVars
     /\ \/ Hears
        \/ \E locale \in Locales : Typed("localePref", [shown.localePref[1] EXCEPT !.locale = locale])
        \/ \E region \in {"in", "eu"} : Typed("profile", [shown.profile[1] EXCEPT !.region = region])
        \/ \E regulation \in Regulations : toggleRegulation(regulation)

-----------------------------------------------------------------------------
(* Notification preferences: the quiet hours are those the page came with. *)

patchPreferences ==
  /\ LET form == shown.preferences[1]
     IN UpdatePreferences(DemoUser,
          [channels |-> form.channels, digest |-> form.digest, mutedTypes |-> form.mutedTypes,
           quietHours |-> FixturePreference.quietHours])
  /\ Asks([preferences |-> Confirms("preferences", 1)])

sendTestAlert ==
  /\ RouteDirectly(DemoUser, "system_alert", "high", TRUE)
  /\ Asks(<<>>)

\* The boxes and the choice of the form; of the muted types one is tried.
TogglesPreference ==
  LET old == shown.preferences[1]
      Toggled(S, x) == IF x \in S THEN S \ {x} ELSE S \cup {x}
  IN \/ \E c \in ChannelNames : Typed("preferences", [old EXCEPT !.channels = Toggled(@, c)])
     \/ \E d \in {"instant", "muted"} : Typed("preferences", [old EXCEPT !.digest = d])
     \/ Typed("preferences", [old EXCEPT !.mutedTypes = Toggled(@, "mention")])

NotificationsPanel ==
  \/ patchPreferences
  \/ sendTestAlert
  \/ (Hears \/ TogglesPreference) /\ UNCHANGED alertsVars

-----------------------------------------------------------------------------

PanelNext(panel) ==
  /\ UNCHANGED now
  /\ \/ panel = "identityPanel" /\ IdentityPanel
     \/ panel = "campaignsPanel" /\ CampaignsPanel
     \/ panel = "tasksPanel" /\ TasksPanel
     \/ panel = "listeningPanel" /\ ListeningPanel
     \/ panel = "reportingPanel" /\ ReportingPanel
     \/ panel = "templatesPanel" /\ TemplatesPanel
     \/ panel = "safetyPanel" /\ SafetyPanel
     \/ panel = "onboardingPanel" /\ OnboardingPanel
     \/ panel = "localizationPanel" /\ LocalizationPanel
     \/ panel = "notificationsPanel" /\ NotificationsPanel

\* The share of the steps as the panel works it out.
ShownProgress ==
  LET In(status) == Cardinality({s \in OnboardingSteps : shown.steps[s] = status})
      left == Cardinality(OnboardingSteps) - In("skipped")
      actionable == IF left = 0 THEN 1 ELSE left
  IN (200 * In("completed") + actionable) \div (2 * actionable)

\* A panel shows what is so: between two changes, every row that it heard the last answer about is
\* as the service has it, however many answers about other rows were lost, whichever order rows
\* were made, changed and swept along in, and nothing is shown that is not there; so is what it
\* works out of the rows itself, the sessions that end with their device and the percentage.
\* [the setRows calls of the panels' handlers]
PanelShowsWhatIsSo(panel) ==
  ~loading =>
    /\ \A t \in PanelTables[panel] : \A i \in DOMAIN Table(t) \cup DOMAIN shown[t] :
         <<t, i>> \notin unheard =>
           i \in DOMAIN Table(t) /\ i \in DOMAIN shown[t] /\ shown[t][i] = Table(t)[i]
    /\ panel = "onboardingPanel" /\ unheard = {} => ShownProgress = Progress
=============================================================================
