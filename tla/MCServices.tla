----------------------------- MODULE MCServices -----------------------------
(* Small instances of Services for TLC. *)
EXTENDS Services, TLC

CONSTANTS acme, sales, ann, bob, g1, g2, t1, t2

MCNetworks == {"instagram", "x"}
MCChannels == {"in_app", "email"}
MCPriority == <<"gemini">>
MCCalls == {g1, g2}
MCMediaPlatforms == {"instagram"}
MCTexts == {"", t1, t2}
Symmetry == Permutations(MCCalls) \cup Permutations({t1, t2})

\* That a notification was read, or an alert resolved, says nothing of any later step.
Noticed(n) == <<n.user, n.type, n.priority, n.alert, n.attempts>>
Raised(a) == <<a.monitor, a.mention, a.severity>>

\* Of the settings, what a generation does with them; of a moderation item, not how it was closed.
GenerationView ==
  <<CandidateOrder, IsConfigured(CandidateOrder[1]), calls, voice, policies, checks,
    [q \in DOMAIN queue |-> queue[q].check], generations>>

\* A save that can only fail by now, and one whose answer the page will not hear, may forget the
\* form they were given.
CannotSave(h) ==
  \/ h.state = "done" /\ ~h.heard
  \/ h.state = "sent" /\ (~MoreWrites \/ IF h.post = NoRecord THEN Len(drafts) >= MaxPosts
                                         ELSE \/ drafts[h.post].writes # h.token
                                              \/ drafts[h.post].status \notin EditableStatuses)
Underway(h) == IF h.kind = "save" /\ CannotSave(h) THEN [h EXCEPT !.sent = New, !.token = 0] ELSE h
ComposerView == <<form, page, [k \in Clicks |-> Underway(handlers[k])], drafts, moves>>

\* A behaviour is about the service in focus: the others have not moved and are left out.
View ==
  <<now, focus,
    IF focus \in Panels
    THEN <<loading, edits, unheard, [t \in PanelTables[focus] |-> <<shown[t], Table(t)>>]>>
    ELSE <<>>,
    CASE focus \in Panels \ {"listeningPanel", "notificationsPanel"} -> <<>>
      [] focus \in {"listeningPanel", "notificationsPanel"} -> alertsVars
      [] focus = "members" -> membersVars
      [] focus = "keys" -> keysVars
      [] focus = "identity" -> identityVars
      [] focus = "channels" -> channelsVars
      [] focus = "media" -> mediaVars
      [] focus = "alerts" -> 
           <<monitors, mentions, [a \in DOMAIN alerts |-> Raised(alerts[a])], preferences,
             [n \in DOMAIN notices |-> Noticed(notices[n])]>>
      [] focus = "generation" -> GenerationView
      [] focus = "voices" -> voicesVars
      [] focus = "templates" -> templatesVars
      [] focus = "campaigns" -> campaignsVars
      [] focus = "tasks" -> tasksVars
      [] focus = "localization" -> localizationVars
      [] focus = "onboarding" -> onboardingVars
      [] focus = "reports" -> reportsVars
      [] focus = "webhooks" -> webhooksVars
      [] focus = "composer" -> ComposerView>>
=============================================================================
