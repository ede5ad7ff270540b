------------------------------- MODULE Alerts -------------------------------
(***************************************************************************)
(* ListeningService and the NotificationsService it calls: mentions are    *)
(* taken in, alerts are raised over them and announced on the channels of  *)
(* whoever took the mention in.  A mention is what its severity depends    *)
(* on; texts, the providers behind the channels and the statistics of the  *)
(* overview are left out.  The time of day is the server's, whatever time  *)
(* zone the quiet hours name.                                              *)
(***************************************************************************)
EXTENDS Service

CONSTANTS
  ChannelNames,    \* the notification channels
  Day,             \* instants of a day
  MaxMonitors,     \* bounds: monitors, mentions and notifications, the fixtures' included
  MaxMentions,
  MaxNotices

VARIABLES
  monitors,     \* oldest first
  mentions,     \* how many mentions have been taken in; they are known by their number
  alerts,       \* oldest first
  preferences,  \* user -> preference, for the users who have one
  notices       \* notifications with their delivery attempts, oldest first

alertsVars == <<monitors, mentions, alerts, preferences, notices>>

AlertsAssumption ==
  /\ {"in_app", "email"} \subseteq ChannelNames
  /\ Day \in Nat \ {0, 1}
  /\ MaxMentions \in Nat \ {0, 1}
ASSUME AlertsAssumption

Sentiments == {"negative", "neutral", "positive", "mixed"}
Severities == {"info", "warning", "critical"}
Priorities == {"normal", "high", "critical"}
Types == {"mention", "account_issue", "approval_request", "performance_milestone",
          "system_alert"}

Monitor == [status : {"active", "paused", "archived"}, alertThreshold : Nat]
Alert == [monitor : Nat, mention : Nat, severity : Severities, resolved : BOOLEAN]

\* A preference holds at most one interval, and none when quiet hours are switched off.
QuietHours == [start : 0 .. Day - 1, end : 0 .. Day - 1]
Preference == [channels : SUBSET ChannelNames, digest : {"instant", "muted"},
               quietHours : SUBSET QuietHours, mutedTypes : SUBSET Types]
Notice == [user : Users \cup {DemoUser}, type : Types, priority : Priorities, alert : Nat, read : BOOLEAN]
Attempts == UNION {[sent -> {"sent", "muted", "quiet"}] : sent \in SUBSET ChannelNames}

AlertsTypeOK ==
  /\ monitors \in Seq(Monitor)
  /\ mentions \in 0 .. MaxMentions
  /\ alerts \in Seq(Alert)
  /\ \A i \in DOMAIN alerts :
       alerts[i].monitor \in DOMAIN monitors /\ alerts[i].mention \in 1 .. mentions
  /\ DOMAIN preferences \subseteq Users \cup {DemoUser}
  /\ \A u \in DOMAIN preferences : preferences[u] \in Preference
  /\ \A n \in DOMAIN notices :
       /\ [f \in DOMAIN notices[n] \ {"attempts"} |-> notices[n][f]] \in Notice
       /\ notices[n].attempts \in Attempts

\* A preference as it is first made.
DefaultPreference ==
  [channels |-> ChannelNames \cap {"in_app", "email"}, digest |-> "instant", quietHours |-> {},
   mutedTypes |-> {}]

FixtureMonitors ==
  << [status |-> "active", alertThreshold |-> 72], [status |-> "active", alertThreshold |-> 80] >>
FixtureMentions == 2
FixtureAlerts == << [monitor |-> 1, mention |-> 2, severity |-> "critical", resolved |-> FALSE] >>
FixturePreference ==
  [channels |-> ChannelNames \cap {"in_app", "email", "slack", "sms", "webhook"}, digest |-> "instant",
   quietHours |-> {[start |-> Day - 1, end |-> 0]}, mutedTypes |-> {"performance_milestone"}]

\* What the fixtures have tried of each notification, on the channels there are.
FixtureAttempts ==
  LET tried == << [in_app |-> "sent"], [email |-> "sent", slack |-> "quiet"] >>
  IN [n \in 1 .. 2 |-> [c \in DOMAIN tried[n] \cap ChannelNames |-> tried[n][c]]]
FixtureNotices ==
  << [user |-> DemoUser, type |-> "approval_request", priority |-> "normal", alert |-> NoRecord,
      read |-> FALSE, attempts |-> FixtureAttempts[1]],
     [user |-> DemoUser, type |-> "account_issue", priority |-> "high", alert |-> NoRecord,
      read |-> FALSE, attempts |-> FixtureAttempts[2]] >>

AlertsInit ==
  /\ monitors = FixtureMonitors
  /\ mentions = FixtureMentions
  /\ alerts = FixtureAlerts
  /\ preferences = [u \in {DemoUser} |-> FixturePreference]
  /\ notices = FixtureNotices

-----------------------------------------------------------------------------
(* Notifications. *)

PreferenceOf(u) == IF u \in DOMAIN preferences THEN preferences[u] ELSE DefaultPreference

WithPreference(u, preference) ==
  [v \in DOMAIN preferences \cup {u} |-> IF v = u THEN preference ELSE preferences[v]]

\* Mutant: nothing stands in when every channel is switched off.
EnabledChannels_NoFallback(preference) == preference.channels

EnabledChannels(preference) ==
  IF preference.channels = {} THEN {"in_app"} ELSE preference.channels

\* Both ends are inside, and an interval whose end is before its start runs over midnight.
QuietHoursActive(preference) ==
  LET clock == now % Day
  IN \E hours \in preference.quietHours :
       IF hours.start <= hours.end THEN clock \in hours.start .. hours.end
                                   ELSE clock >= hours.start \/ clock <= hours.end

Attempt(preference, type, priority, channel, quiet) ==
  CASE preference.digest = "muted" \/ type \in preference.mutedTypes -> "muted"
    [] OTHER -> IF quiet /\ priority # "critical" /\ channel # "in_app" THEN "quiet" ELSE "sent"

Route(u, type, priority, alert, forceQuiet) ==
  LET preference == PreferenceOf(u)
      quiet == forceQuiet \/ QuietHoursActive(preference)
  IN /\ Len(notices) < MaxNotices
     /\ preferences' = WithPreference(u, preference)
     /\ notices' = Append(notices,
          [user |-> u, type |-> type, priority |-> priority, alert |-> alert, read |-> FALSE,
           attempts |-> [c \in EnabledChannels(preference) |->
                           Attempt(preference, type, priority, c, quiet)]])

RouteDirectly(u, type, priority, forceQuiet) ==
  /\ Route(u, type, priority, NoRecord, forceQuiet)
  /\ UNCHANGED <<monitors, mentions, alerts>>

MarkRead(n) ==
  /\ notices' = [notices EXCEPT ![n].read = TRUE]
  /\ UNCHANGED <<monitors, mentions, alerts, preferences>>

GetPreferences(u) ==
  /\ preferences' = WithPreference(u, PreferenceOf(u))
  /\ UNCHANGED <<monitors, mentions, alerts, notices>>

\* input has the fields it changes; channel settings are merged, channel by channel.
UpdatePreferences(u, input) ==
  LET old == PreferenceOf(u)
      new == [f \in DOMAIN old |-> IF f \in DOMAIN input THEN input[f] ELSE old[f]]
  IN /\ preferences' = WithPreference(u, new)
     /\ UNCHANGED <<monitors, mentions, alerts, notices>>

-----------------------------------------------------------------------------
(* Listening. *)

CreateMonitor(alertThreshold) ==
  /\ Len(monitors) < MaxMonitors
  /\ monitors' = Append(monitors, [status |-> "active", alertThreshold |-> alertThreshold])
  /\ UNCHANGED <<mentions, alerts, preferences, notices>>

SetMonitorStatus(m, status) ==
  /\ monitors' = [monitors EXCEPT ![m].status = status]
  /\ UNCHANGED <<mentions, alerts, preferences, notices>>

\* The severity of a mention [sentiment, reach, engagement], or "none".
AssessSeverity(alertThreshold, mention) ==
  LET highReach == mention.reach >= alertThreshold * 1000
      highEngagement == mention.engagement >= 250 /\ mention.engagement >= alertThreshold * 10
      negative == mention.sentiment = "negative"
  IN CASE negative /\ highReach -> "critical"
       [] negative /\ ~highReach -> "warning"
       [] mention.sentiment = "mixed" /\ highReach -> "warning"
       [] ~negative /\ mention.sentiment # "mixed" /\ highReach -> "info"
       [] ~negative /\ ~highReach -> IF highEngagement THEN "info" ELSE "none"

IngestMention(m, mention, u) ==
  LET severity == AssessSeverity(monitors[m].alertThreshold, mention)
  IN /\ monitors[m].status = "active"
     /\ mentions < MaxMentions
     /\ mentions' = mentions + 1
     /\ IF severity = "none" THEN UNCHANGED alerts
        ELSE alerts' = Append(alerts, [monitor |-> m, mention |-> mentions', severity |-> severity,
                                       resolved |-> FALSE])
     /\ IF severity \in {"none", "info"} THEN UNCHANGED <<preferences, notices>>
        ELSE Route(u, "mention", IF severity = "critical" THEN "critical" ELSE "high",
                   Len(alerts'), FALSE)
     /\ UNCHANGED monitors

ResolveAlert(a) ==
  /\ ~alerts[a].resolved
  /\ alerts' = [alerts EXCEPT ![a].resolved = TRUE]
  /\ UNCHANGED <<monitors, mentions, preferences, notices>>

\* The inputs tried: mentions on each side of every bound that a threshold draws.
SomeMentions(alertThreshold) ==
  LET reach == 1000 * alertThreshold
      engagement == IF alertThreshold < 25 THEN 250 ELSE 10 * alertThreshold
  IN [sentiment : Sentiments, reach : {reach - 1, reach}, engagement : {engagement - 1, engagement}]
SomeUpdates ==
  {[channels |-> {}], [channels |-> ChannelNames \ {"in_app"}],
   [digest |-> "muted"], [mutedTypes |-> {"mention"}],
   [quietHours |-> {[start |-> 0, end |-> 1]}], [quietHours |-> {[start |-> Day - 1, end |-> 0]}]}

AlertsNext ==
  \/ Tick /\ UNCHANGED alertsVars
  \/ /\ UNCHANGED now
     /\ \/ CreateMonitor(1)
        \/ \E m \in DOMAIN monitors :
             \/ \E status \in {"active", "paused"} : SetMonitorStatus(m, status)
             \/ \E mention \in SomeMentions(monitors[m].alertThreshold), u \in Users :
                  IngestMention(m, mention, u)
        \/ \E a \in DOMAIN alerts : ResolveAlert(a)
        \/ \E n \in DOMAIN notices : MarkRead(n)
        \/ \E u \in Users :
             \/ GetPreferences(u)
             \/ \E input \in SomeUpdates : UpdatePreferences(u, input)
             \/ \E force \in BOOLEAN : RouteDirectly(u, "account_issue", "normal", force)

-----------------------------------------------------------------------------

NoticesOf(a) == {n \in DOMAIN notices : notices[n].alert = a}

\* Every alert a person should act on is announced once, with its urgency, and its announcement is
\* attempted somewhere: only a mute silences a critical one, and quiet hours never silence the
\* application itself.  The fixtures' alert has no notification.
\* [ListeningService.createAlertForMention, NotificationsService.route]
AlertsAreAnnounced ==
  /\ \A a \in DOMAIN alerts \ DOMAIN FixtureAlerts :
       IF alerts[a].severity = "info" THEN NoticesOf(a) = {}
       ELSE /\ Cardinality(NoticesOf(a)) = 1
            /\ \A n \in NoticesOf(a) :
                 notices[n].priority = "critical" <=> alerts[a].severity = "critical"
  /\ \A n \in DOMAIN notices :
       /\ DOMAIN notices[n].attempts # {}
       /\ \A c \in DOMAIN notices[n].attempts : notices[n].attempts[c] = "quiet" =>
            notices[n].priority # "critical" /\ c # "in_app"
       /\ "muted" \in {notices[n].attempts[c] : c \in DOMAIN notices[n].attempts} =>
            \A c \in DOMAIN notices[n].attempts : notices[n].attempts[c] = "muted"
=============================================================================
