--------------------------- MODULE ServicesProofs ---------------------------
(***************************************************************************)
(* Theorems about the API's services, for every number of records, callers *)
(* and instants.                                                           *)
(*                                                                         *)
(* Each service has an invariant of its own (KeysInv, MembersInv, ...) and *)
(* three lemmas: the fixtures establish it (...Start), whatever its own    *)
(* operations or the panel over it do keeps it (...Keep), and it implies   *)
(* what the service promises (...Say, where that is not a conjunct).       *)
(* WhoMoves takes a step of all services apart, so that no proof looks     *)
(* into the operations of a service it is not about.  Records are only     *)
(* appended or written in their place; the first lemmas say what either    *)
(* does to a list, whatever its records are.  The pages over the services, *)
(* the composer and the panels, come after them, and last the types of all *)
(* records.                                                                *)
(***************************************************************************)
EXTENDS Services, FiniteSetTheorems, WellFoundedInduction, TLAPS

\* A list's records.
LEMMA RowsOf ==
  ASSUME NEW S, NEW list \in Seq(S)
  PROVE  /\ Len(list) \in Nat /\ DOMAIN list = 1 .. Len(list)
         /\ \A i \in DOMAIN list : list[i] \in S
OBVIOUS

\* One record of a list is written, if it is there; the others, and how many there are, stay.
LEMMA WrittenAt ==
  ASSUME NEW S, NEW list \in Seq(S), NEW i, NEW row \in S
  PROVE  /\ [list EXCEPT ![i] = row] \in Seq(S)
         /\ DOMAIN [list EXCEPT ![i] = row] = DOMAIN list
         /\ Len([list EXCEPT ![i] = row]) = Len(list)
         /\ \A j \in DOMAIN list :
              [list EXCEPT ![i] = row][j] = IF j = i THEN row ELSE list[j]
<1>1. CASE i \in DOMAIN list
  BY <1>1
<1>2. CASE i \notin DOMAIN list
  <2>1. [list EXCEPT ![i] = row] = list
    BY <1>2
  <2> QED
    BY <1>2, <2>1
<1> QED
  BY <1>1, <1>2

\* A record is put behind the others.
LEMMA AppendedTo ==
  ASSUME NEW S, NEW list \in Seq(S), NEW row \in S
  PROVE  /\ Append(list, row) \in Seq(S)
         /\ DOMAIN Append(list, row) = DOMAIN list \cup {Len(list) + 1}
         /\ Len(Append(list, row)) = Len(list) + 1
         /\ DOMAIN list = 1 .. Len(list)
         /\ Len(list) \in Nat
         /\ Len(list) + 1 \notin DOMAIN list
         /\ Append(list, row)[Len(list) + 1] = row
         /\ \A j \in DOMAIN list : Append(list, row)[j] = list[j]
OBVIOUS

\* A list whose records are not looked at.
Listed(list) == \E S : list \in Seq(S)

LEMMA ListedLength ==
  ASSUME NEW list, Listed(list)
  PROVE  Len(list) \in Nat /\ DOMAIN list = 1 .. Len(list)
BY DEF Listed

LEMMA ListedWith ==
  ASSUME NEW list, Listed(list), NEW row
  PROVE  \E S : list \in Seq(S) /\ row \in S
<1>1. PICK S : list \in Seq(S)
  BY DEF Listed
<1>2. list \in Seq(S \cup {row}) /\ row \in S \cup {row}
  BY <1>1
<1> QED
  BY <1>2

LEMMA ListedAppend ==
  ASSUME NEW list, Listed(list), NEW row
  PROVE  /\ Listed(Append(list, row))
         /\ Len(Append(list, row)) = Len(list) + 1
         /\ DOMAIN Append(list, row) = DOMAIN list \cup {Len(list) + 1}
         /\ Append(list, row)[Len(list) + 1] = row
         /\ \A j \in DOMAIN list : Append(list, row)[j] = list[j]
<1>1. PICK S : list \in Seq(S) /\ row \in S
  BY ListedWith
<1> QED
  BY <1>1, AppendedTo DEF Listed

LEMMA ListedWrite ==
  ASSUME NEW list, Listed(list), NEW i, NEW row
  PROVE  /\ Listed([list EXCEPT ![i] = row])
         /\ Len([list EXCEPT ![i] = row]) = Len(list)
         /\ DOMAIN [list EXCEPT ![i] = row] = DOMAIN list
         /\ \A j \in DOMAIN list :
              [list EXCEPT ![i] = row][j] = IF j = i THEN row ELSE list[j]
<1>1. PICK S : list \in Seq(S) /\ row \in S
  BY ListedWith
<1>2. /\ [list EXCEPT ![i] = row] \in Seq(S)
      /\ Len([list EXCEPT ![i] = row]) = Len(list)
      /\ DOMAIN [list EXCEPT ![i] = row] = DOMAIN list
      /\ \A j \in DOMAIN list :
           [list EXCEPT ![i] = row][j] = IF j = i THEN row ELSE list[j]
  BY <1>1, WrittenAt
<1> QED
  BY <1>2 DEF Listed

\* A name or an address as the services compare it.
Lowered(name) == Plain(name) = name

LEMMA PlainIsLowered ==
  ASSUME NEW name \in Spelled
  PROVE  Lowered(Plain(name)) /\ Plain(name) \in Spelled
BY DEF Plain, Lowered, Spelled

LEMMA DemoNameIsLowered == DemoName \in Spelled /\ Lowered(DemoName)
<1>1. DemoName \in [word : Words, capitals : {FALSE}]
  BY ServiceAssumption DEF DemoName, ServiceAssumption
<1>2. \A W : \A n \in [word : W, capitals : {FALSE}] :
        [n EXCEPT !.capitals = FALSE] = n /\ n \in [word : W, capitals : BOOLEAN]
  OBVIOUS
<1> QED
  BY <1>1, <1>2, Zenon DEF Plain, Lowered, Spelled

\* What a service is asked leaves the clock alone, or the clock moves on (the services are
\* synchronous, and read Date.now() while they run).
LEMMA ClockMoves ==
  ASSUME ServicesNext
  PROVE  now' = now \/ Tick
BY DEF ServicesNext, MembersNext, KeysNext, IdentityNext, ChannelsNext, MediaNext, AlertsNext,
       GenerationNext, VoicesNext, TemplatesNext, CampaignsNext, TasksNext, LocalizationNext,
       OnboardingNext, ReportsNext, WebhooksNext, PanelNext, ComposerNext

\* The instants of a behaviour.
LEMMA ClockKeeps ==
  ASSUME now \in Instants, [ServicesNext]_servicesVars
  PROVE  now' \in Instants /\ now <= now'
BY ClockMoves, ServiceAssumption DEF Tick, Instants, servicesVars, ServiceAssumption

\* Who is in focus moves, and a service that shares its records with a panel moves with either.
LEMMA WhoMoves ==
  ASSUME [ServicesNext]_servicesVars
  PROVE  /\ MembersNext \/ UNCHANGED membersVars
         /\ KeysNext \/ UNCHANGED keysVars
         /\ ChannelsNext \/ UNCHANGED channelsVars
         /\ MediaNext \/ UNCHANGED mediaVars
         /\ VoicesNext \/ UNCHANGED voicesVars
         /\ ComposerNext \/ UNCHANGED composerVars
         /\ IdentityNext \/ IdentityPanel \/ UNCHANGED identityVars
         /\ AlertsNext \/ ListeningPanel \/ NotificationsPanel \/ UNCHANGED alertsVars
         /\ GenerationNext \/ SafetyPanel \/ UNCHANGED generationVars
         /\ TemplatesNext \/ TemplatesPanel \/ UNCHANGED templatesVars
         /\ CampaignsNext \/ CampaignsPanel \/ UNCHANGED campaignsVars
         /\ TasksNext \/ TasksPanel \/ UNCHANGED tasksVars
         /\ OnboardingNext \/ OnboardingPanel \/ UNCHANGED onboardingVars
         /\ LocalizationNext \/ LocalizationPanel \/ UNCHANGED localizationVars
         /\ ReportsNext \/ ReportingPanel \/ UNCHANGED reportsVars
         /\ WebhooksNext \/ UNCHANGED webhooksVars
         /\ UNCHANGED focus
<1>1. Panels = {"identityPanel", "campaignsPanel", "tasksPanel", "listeningPanel",
                "reportingPanel", "templatesPanel", "safetyPanel", "onboardingPanel",
                "localizationPanel", "notificationsPanel"}
  BY DEF Panels, PanelTables
<1>2. CASE UNCHANGED servicesVars
  BY <1>2 DEF servicesVars
<1>3. CASE ServicesNext
  BY <1>1, <1>3 DEF ServicesNext, Still, PanelNext
<1> QED
  BY <1>2, <1>3

-----------------------------------------------------------------------------
(* API keys.  A key that is active was not revoked, and nothing is stamped *)
(* later than now: the last use of a key is before every later revocation. *)

KeysInv ==
  /\ now \in Instants
  /\ apiKeys \in Seq(ApiKey)
  /\ \A k \in DOMAIN apiKeys :
       /\ apiKeys[k].createdAt <= now
       /\ apiKeys[k].lastUsedAt <= now
       /\ apiKeys[k].status = "active" => apiKeys[k].revokedAt = Never
  /\ KeysUsedInTheirLife

\* What KeysInv says of one key.
KeyInOrder(key, t) ==
  /\ key \in ApiKey
  /\ key.createdAt <= t
  /\ key.lastUsedAt <= t
  /\ key.status = "active" => key.revokedAt = Never
  /\ key.lastUsedAt # Never =>
       /\ key.createdAt <= key.lastUsedAt
       /\ key.expiresAt # Never => key.lastUsedAt < key.expiresAt
       /\ key.revokedAt # Never => key.lastUsedAt <= key.revokedAt

LEMMA KeysInOrder ==
  KeysInv <=> now \in Instants /\ apiKeys \in Seq(ApiKey)
              /\ \A k \in DOMAIN apiKeys : KeyInOrder(apiKeys[k], now)
BY DEF KeysInv, KeyInOrder, KeysUsedInTheirLife

\* A key keeps in order while time passes.
LEMMA KeysInOrderLater ==
  ASSUME NEW key, NEW t \in Instants, NEW u \in Instants, t <= u, KeyInOrder(key, t)
  PROVE  KeyInOrder(key, u)
BY DEF KeyInOrder, ApiKey, Instants, Never

\* Creation, revocation and use (api-keys.service.ts, create, revoke and verifySecret).
LEMMA KeysKeep ==
  ASSUME KeysInv, now' \in Instants, now <= now', KeysNext \/ UNCHANGED keysVars
  PROVE  KeysInv'
<1> USE DEF keysVars
<1>1. /\ apiKeys \in Seq(ApiKey) /\ now \in Instants
      /\ \A k \in DOMAIN apiKeys : KeyInOrder(apiKeys[k], now)
  BY KeysInOrder
<1>2. CASE UNCHANGED apiKeys
  <2>1. \A k \in DOMAIN apiKeys : KeyInOrder(apiKeys[k], now')
    BY <1>1, KeysInOrderLater
  <2> QED
    BY <1>1, <1>2, <2>1 DEF KeysInv, KeyInOrder, KeysUsedInTheirLife
<1>3. ASSUME UNCHANGED now, NEW k \in DOMAIN apiKeys, NEW key, KeyInOrder(key, now),
             apiKeys' = [apiKeys EXCEPT ![k] = key]
      PROVE  KeysInv'
  <2>1. key \in ApiKey
    BY <1>3 DEF KeyInOrder
  <2>2. apiKeys' \in Seq(ApiKey) /\ DOMAIN apiKeys' = DOMAIN apiKeys
    BY <1>1, <1>3, <2>1, WrittenAt
  <2>3. \A j \in DOMAIN apiKeys : apiKeys'[j] = IF j = k THEN key ELSE apiKeys[j]
    BY <1>1, <1>3, <2>1, WrittenAt
  <2>4. \A j \in DOMAIN apiKeys' : KeyInOrder(apiKeys'[j], now')
    BY <1>1, <1>3, <2>2, <2>3
  <2> QED
    BY <1>1, <1>3, <2>2, <2>4 DEF KeysInv, KeyInOrder, KeysUsedInTheirLife
<1>4. ASSUME UNCHANGED now, NEW t \in {Never} \cup Instants, CreateKey(t)
      PROVE  KeysInv'
  <2> DEFINE key == [createdAt |-> now, expiresAt |-> t, lastUsedAt |-> Never, revokedAt |-> Never,
                     status |-> "active"]
  <2>1. KeyInOrder(key, now)
    BY <1>1, <1>4 DEF KeyInOrder, ApiKey, Instants, Never
  <2>2. apiKeys' = Append(apiKeys, key)
    BY <1>4 DEF CreateKey
  <2>3. key \in ApiKey
    BY <2>1 DEF KeyInOrder
  <2> HIDE DEF key
  <2>4. \A j \in DOMAIN apiKeys' : KeyInOrder(apiKeys'[j], now')
    BY <1>1, <1>4, <2>1, <2>2, <2>3, AppendedTo
  <2>5. apiKeys' \in Seq(ApiKey)
    BY <1>1, <2>2, <2>3
  <2> QED
    BY <1>1, <1>4, <2>4, <2>5 DEF KeysInv, KeyInOrder, KeysUsedInTheirLife
<1>5. ASSUME UNCHANGED now, NEW k \in DOMAIN apiKeys, RevokeKey(k)
      PROVE  KeysInv'
  <2> DEFINE key == [apiKeys[k] EXCEPT !.status = "revoked", !.revokedAt = now]
  <2>1. KeyInOrder(key, now)
    BY <1>1, <1>5 DEF KeyInOrder, ApiKey, Instants, Never
  <2>2. apiKeys' = [apiKeys EXCEPT ![k] = key]
    BY <1>5 DEF RevokeKey
  <2> HIDE DEF key
  <2> QED
    BY <1>3, <1>5, <2>1, <2>2
<1>6. ASSUME UNCHANGED now, NEW k \in DOMAIN apiKeys, VerifySecret(k)
      PROVE  KeysInv'
  <2> DEFINE key == IF Lapsed(k) THEN [apiKeys[k] EXCEPT !.status = "expired"]
                                 ELSE [apiKeys[k] EXCEPT !.lastUsedAt = now]
  <2>1. KeyInOrder(apiKeys[k], now) /\ apiKeys[k].status = "active"
    BY <1>1, <1>6 DEF VerifySecret
  <2>2. KeyInOrder(key, now)
    <3>1. CASE Lapsed(k)
      BY <2>1, <3>1 DEF KeyInOrder, ApiKey
    <3>2. CASE ~Lapsed(k)
      <4>1. key = [apiKeys[k] EXCEPT !.lastUsedAt = now]
        BY <3>2
      <4>2. /\ key \in ApiKey /\ key.lastUsedAt = now /\ key.status = apiKeys[k].status
            /\ key.createdAt = apiKeys[k].createdAt /\ key.expiresAt = apiKeys[k].expiresAt
            /\ key.revokedAt = apiKeys[k].revokedAt
        BY <1>1, <2>1, <4>1 DEF KeyInOrder, ApiKey, Instants
      <4>3. apiKeys[k].expiresAt # Never => now < apiKeys[k].expiresAt
        BY <1>1, <2>1, <3>2 DEF KeyInOrder, Lapsed, ApiKey, Instants
      <4> HIDE DEF key
      <4> QED
        BY <1>1, <2>1, <4>2, <4>3 DEF KeyInOrder, Instants
    <3> QED
      BY <3>1, <3>2
  <2>3. apiKeys' = [apiKeys EXCEPT ![k] = key]
    BY <1>6 DEF VerifySecret
  <2> HIDE DEF key
  <2> QED
    BY <1>3, <1>6, <2>2, <2>3
<1> QED
  BY <1>2, <1>4, <1>5, <1>6 DEF KeysNext

\* A key opens the API only between its creation and its end, whatever is created, revoked and
\* presented meanwhile (api-keys.service.ts, verifySecret).
THEOREM KeysLiveAndDie == ServicesSpec => []KeysUsedInTheirLife
<1>1. ServicesInit => KeysInv
  BY ServiceAssumption
  DEF ServicesInit, ClockInit, KeysInit, FixtureKeys, KeysInv, ApiKey, KeysUsedInTheirLife,
      Instants, Never, ServiceAssumption
<1>2. KeysInv /\ [ServicesNext]_servicesVars => KeysInv'
  <2> SUFFICES ASSUME KeysInv, [ServicesNext]_servicesVars
               PROVE  KeysInv'
    OBVIOUS
  <2>1. KeysNext \/ UNCHANGED keysVars
    BY WhoMoves
  <2> QED
    BY <2>1, KeysKeep, ClockKeeps DEF KeysInv
<1>3. KeysInv => KeysUsedInTheirLife
  BY DEF KeysInv
<1> QED
  BY <1>1, <1>2, <1>3, PTL DEF ServicesSpec

-----------------------------------------------------------------------------
(* Members and invitations.                                                *)

\* Addresses are kept lowered, and a token that is in use was drawn.
MembersInv ==
  /\ tokens \in 0 .. MaxTokens
  /\ invitations \in Seq(Invitation)
  /\ \A i \in DOMAIN invitations :
       Lowered(invitations[i].email) /\ invitations[i].token <= tokens
  /\ InvitationsApart

\* invite, resendInvitation and revokeInvitation (members.service.ts).
LEMMA MembersKeep ==
  ASSUME MembersInv, MembersNext \/ UNCHANGED membersVars
  PROVE  MembersInv'
<1> USE DEF membersVars
<1>a. MaxTokens \in Nat /\ 1 <= MaxTokens /\ tokens \in Nat
  BY AccessAssumption DEF AccessAssumption, MembersInv
<1>0. \A i \in DOMAIN invitations :
        /\ invitations[i] \in Invitation
        /\ invitations[i].token \in Nat
        /\ invitations[i].status \in {"pending", "revoked"}
  <2>1. \A i \in DOMAIN invitations : invitations[i] \in Invitation
    BY RowsOf DEF MembersInv
  <2> QED
    BY <2>1, <1>a DEF Invitation
<1>1. CASE UNCHANGED <<invitations, tokens>>
  BY <1>1 DEF MembersInv, InvitationsApart
<1>2. ASSUME NEW email \in Spelled, NEW role \in Roles, Invite(email, role)
      PROVE  MembersInv'
  <2> DEFINE new == [email |-> Plain(email), role |-> role, token |-> tokens + 1,
                     status |-> "pending"]
  <2>1. /\ new \in Invitation /\ Lowered(new.email) /\ new.token = tokens + 1
        /\ new.email = Plain(email)
    BY <1>2, <1>a, PlainIsLowered DEF MembersInv, Invitation, Invite, DrawToken
  <2>2. /\ invitations' = Append(invitations, new)
        /\ tokens' = tokens + 1 /\ tokens' \in 0 .. MaxTokens
    BY <1>2, <1>a DEF Invite, DrawToken, MembersInv
  <2>3. \A i \in DOMAIN invitations :
          invitations[i].email = new.email => invitations[i].status = "revoked"
    BY <1>0, <1>2, <2>1 DEF Invite, PendingFor
  <2> HIDE DEF new
  <2>4. /\ invitations' \in Seq(Invitation)
        /\ DOMAIN invitations' = DOMAIN invitations \cup {Len(invitations) + 1}
        /\ invitations'[Len(invitations) + 1] = new
        /\ \A i \in DOMAIN invitations : invitations'[i] = invitations[i]
    BY <2>1, <2>2, AppendedTo DEF MembersInv
  <2>6. \A i \in DOMAIN invitations' :
          Lowered(invitations'[i].email) /\ invitations'[i].token <= tokens'
    BY <2>1, <2>2, <2>4, <1>0 DEF MembersInv
  <2>7. InvitationsApart'
    BY <2>1, <2>3, <2>4, <1>0 DEF MembersInv, InvitationsApart
  <2> QED
    BY <2>2, <2>4, <2>6, <2>7 DEF MembersInv
<1>3. ASSUME NEW i \in DOMAIN invitations, ResendInvitation(i)
      PROVE  MembersInv'
  <2> DEFINE new == [invitations[i] EXCEPT !.token = tokens + 1]
  <2>1. /\ new \in Invitation /\ new.email = invitations[i].email
        /\ new.token = tokens + 1 /\ new.status = invitations[i].status
    <3>1. tokens + 1 \in 1 .. MaxTokens
      BY <1>3, <1>a DEF MembersInv, ResendInvitation, DrawToken
    <3> QED
      BY <1>0, <3>1 DEF Invitation
  <2>2. /\ invitations' = [invitations EXCEPT ![i] = new]
        /\ tokens' = tokens + 1 /\ tokens' \in 0 .. MaxTokens
    BY <1>3, <1>a DEF ResendInvitation, DrawToken, MembersInv
  <2> HIDE DEF new
  <2>3. /\ invitations' \in Seq(Invitation)
        /\ DOMAIN invitations' = DOMAIN invitations
        /\ \A j \in DOMAIN invitations :
             invitations'[j] = IF j = i THEN new ELSE invitations[j]
    BY <2>1, <2>2, WrittenAt DEF MembersInv
  <2>5. \A j \in DOMAIN invitations' :
          Lowered(invitations'[j].email) /\ invitations'[j].token <= tokens'
    BY <1>0, <2>1, <2>2, <2>3 DEF MembersInv
  <2>6. InvitationsApart'
    BY <1>0, <2>1, <2>3 DEF MembersInv, InvitationsApart
  <2> QED
    BY <2>2, <2>3, <2>5, <2>6 DEF MembersInv
<1>4. ASSUME NEW i \in DOMAIN invitations, RevokeInvitation(i)
      PROVE  MembersInv'
  <2> DEFINE new == [invitations[i] EXCEPT !.status = "revoked"]
  <2>1. /\ new \in Invitation /\ new.email = invitations[i].email
        /\ new.token = invitations[i].token /\ new.status = "revoked"
    BY <1>0 DEF Invitation
  <2>2. invitations' = [invitations EXCEPT ![i] = new] /\ tokens' = tokens
    BY <1>4 DEF RevokeInvitation
  <2> HIDE DEF new
  <2>3. /\ invitations' \in Seq(Invitation)
        /\ DOMAIN invitations' = DOMAIN invitations
        /\ \A j \in DOMAIN invitations :
             invitations'[j] = IF j = i THEN new ELSE invitations[j]
    BY <2>1, <2>2, WrittenAt DEF MembersInv
  <2>4. \A j \in DOMAIN invitations' :
          Lowered(invitations'[j].email) /\ invitations'[j].token <= tokens'
    BY <2>1, <2>2, <2>3 DEF MembersInv
  <2>5. InvitationsApart'
    BY <1>0, <2>1, <2>3 DEF MembersInv, InvitationsApart
  <2> QED
    BY <2>2, <2>3, <2>4, <2>5 DEF MembersInv
<1> QED
  BY <1>1, <1>2, <1>3, <1>4 DEF MembersNext, UpdateRole, Suspend

LEMMA MembersStart == ServicesInit => MembersInv
<1> SUFFICES ASSUME ServicesInit
             PROVE  MembersInv
  OBVIOUS
<1> DEFINE first == [email |-> DemoName, role |-> "reviewer", token |-> 1, status |-> "pending"]
<1>0. 1 \in 0 .. MaxTokens /\ 1 \in 1 .. MaxTokens
  BY AccessAssumption DEF AccessAssumption
<1>1. first \in Invitation /\ Lowered(first.email) /\ first.token = 1
  BY <1>0, DemoNameIsLowered DEF Invitation, Roles, Lowered
<1>2. invitations = <<first>> /\ tokens = 1 /\ tokens \in 0 .. MaxTokens
  BY <1>0 DEF ServicesInit, MembersInit, FixtureInvitations
<1> HIDE DEF first
<1> QED
  BY <1>1, <1>2 DEF MembersInv, InvitationsApart

-----------------------------------------------------------------------------
(* Identity.  What is not said of a step, but of a state: a device that is *)
(* revoked has no active session.                                          *)

IdentityInv ==
  /\ devices \in Seq(TrustedDevice)
  /\ authSessions \in Seq(AuthSession)
  /\ \A d \in DOMAIN devices, s \in DOMAIN authSessions :
       devices[d] = "revoked" /\ authSessions[s].device = d => authSessions[s].status = "revoked"

\* What a step may not do to the sessions.
SessionsEnd ==
  /\ \A s \in DOMAIN authSessions : authSessions[s].status = "revoked" =>
       authSessions'[s].status = "revoked"
  /\ \A d \in DOMAIN devices, s \in DOMAIN authSessions :
       devices'[d] = "revoked" /\ authSessions[s].device = d =>
         authSessions'[s].status = "revoked"

\* A caller and the panel name sessions and devices alike, and neither need be there.
IdentityCalls ==
  \/ UNCHANGED <<devices, authSessions>>
  \/ \E s : RevokeAuthSession(s)
  \/ \E d : TrustDevice(d) \/ RevokeDevice(d)

LEMMA IdentityMoves ==
  ASSUME IdentityNext \/ IdentityPanel \/ UNCHANGED identityVars
  PROVE  IdentityCalls
BY DEF IdentityNext, IdentityPanel, identityVars, IdentityCalls, CreateConnection, TestConnection,
       DisableConnection, createSsoConnection, testSsoConnection, disableSsoConnection,
       revokeSession, trustDevice, revokeDevice

\* revokeSession, trustDevice and revokeDevice (identity.service.ts).
LEMMA IdentityKeeps ==
  ASSUME IdentityInv, IdentityCalls
  PROVE  IdentityInv' /\ SessionsEnd
<1>0. "trusted" \in TrustedDevice /\ "revoked" \in TrustedDevice
  BY DEF TrustedDevice
<1>1. CASE UNCHANGED <<devices, authSessions>>
  BY <1>1 DEF IdentityInv, SessionsEnd
<1>2. ASSUME NEW s, RevokeAuthSession(s)
      PROVE  IdentityInv' /\ SessionsEnd
  <2>1. CASE s \notin DOMAIN authSessions
    <3>1. authSessions' = authSessions /\ devices' = devices
      BY <1>2, <2>1 DEF RevokeAuthSession, IdentityInv
    <3> QED
      BY <1>1, <3>1
  <2>2. CASE s \in DOMAIN authSessions
    <3> DEFINE new == [authSessions[s] EXCEPT !.status = "revoked"]
    <3>1. /\ new \in AuthSession /\ new.status = "revoked"
          /\ new.device = authSessions[s].device
      <4>1. authSessions[s] \in AuthSession
        BY <2>2, RowsOf DEF IdentityInv
      <4> QED
        BY <4>1 DEF AuthSession
    <3>2. authSessions' = [authSessions EXCEPT ![s] = new] /\ devices' = devices
      BY <1>2 DEF RevokeAuthSession
    <3> HIDE DEF new
    <3>3. /\ authSessions' \in Seq(AuthSession)
          /\ DOMAIN authSessions' = DOMAIN authSessions
          /\ \A t \in DOMAIN authSessions :
               authSessions'[t] = IF t = s THEN new ELSE authSessions[t]
      BY <2>2, <3>1, <3>2, WrittenAt DEF IdentityInv
    <3> QED
      BY <3>1, <3>2, <3>3 DEF IdentityInv, SessionsEnd
  <2> QED
    BY <2>1, <2>2
<1>3. ASSUME NEW d, TrustDevice(d)
      PROVE  IdentityInv' /\ SessionsEnd
  <2>1. /\ devices' \in Seq(TrustedDevice) /\ DOMAIN devices' = DOMAIN devices
        /\ \A e \in DOMAIN devices : devices'[e] = IF e = d THEN "trusted" ELSE devices[e]
        /\ authSessions' = authSessions
    BY <1>3, WrittenAt, <1>0 DEF TrustDevice, IdentityInv
  <2> QED
    BY <2>1 DEF IdentityInv, SessionsEnd
<1>4. ASSUME NEW d, RevokeDevice(d)
      PROVE  IdentityInv' /\ SessionsEnd
  <2>1. /\ devices' \in Seq(TrustedDevice) /\ DOMAIN devices' = DOMAIN devices
        /\ \A e \in DOMAIN devices : devices'[e] = IF e = d THEN "revoked" ELSE devices[e]
    BY <1>4, WrittenAt, <1>0 DEF RevokeDevice, IdentityInv
  <2>2. \A s \in DOMAIN authSessions : authSessions[s] \in AuthSession
    BY DEF IdentityInv
  <2>3. \A s \in DOMAIN authSessions :
          /\ [authSessions[s] EXCEPT !.status = "revoked"] \in AuthSession
          /\ [authSessions[s] EXCEPT !.status = "revoked"].status = "revoked"
          /\ [authSessions[s] EXCEPT !.status = "revoked"].device = authSessions[s].device
    BY <2>2 DEF AuthSession
  <2>4. /\ DOMAIN authSessions' = DOMAIN authSessions
        /\ \A s \in DOMAIN authSessions :
             authSessions'[s] = IF authSessions[s].device = d
                                THEN [authSessions[s] EXCEPT !.status = "revoked"]
                                ELSE authSessions[s]
    BY <1>4 DEF RevokeDevice
  <2>5. \A s \in DOMAIN authSessions :
          /\ authSessions'[s] \in AuthSession
          /\ authSessions'[s].device = authSessions[s].device
          /\ authSessions'[s].status = IF authSessions[s].device = d THEN "revoked"
                                       ELSE authSessions[s].status
    BY <2>2, <2>3, <2>4
  <2>6. authSessions' \in Seq(AuthSession)
    <3>1. authSessions' = [s \in 1 .. Len(authSessions) |->
            IF authSessions[s].device = d THEN [authSessions[s] EXCEPT !.status = "revoked"]
                                          ELSE authSessions[s]]
      BY <1>4 DEF RevokeDevice, IdentityInv
    <3>2. Len(authSessions) \in Nat /\ DOMAIN authSessions = 1 .. Len(authSessions)
      BY DEF IdentityInv
    <3>3. authSessions' \in [1 .. Len(authSessions) -> AuthSession]
      BY <2>4, <2>5, <3>1, <3>2
    <3> QED
      BY <3>2, <3>3
  <2> QED
    BY <2>1, <2>2, <2>4, <2>5, <2>6 DEF IdentityInv, SessionsEnd
<1> QED
  BY <1>1, <1>2, <1>3, <1>4 DEF IdentityCalls

\* Whoever revokes or trusts what, in the service or from the panel, a session that is over stays
\* over and none outlives the trust in its device (identity.service.ts, revokeDevice).
THEOREM SessionsEndWithDevices == ServicesSpec => DevicesTakeTheirSessions
<1>1. ServicesInit => IdentityInv
  BY DEF ServicesInit, IdentityInit, FixtureDevices, FixtureSessions, IdentityInv, TrustedDevice,
         AuthSession
<1>2. IdentityInv /\ [ServicesNext]_servicesVars => IdentityInv' /\ [SessionsEnd]_identityVars
  BY WhoMoves, IdentityMoves, IdentityKeeps
<1>3. [SessionsEnd]_identityVars <=>
        [/\ \A s \in DOMAIN authSessions : authSessions[s].status = "revoked" =>
              authSessions'[s].status = "revoked"
         /\ \A d \in DOMAIN devices, s \in DOMAIN authSessions :
              devices'[d] = "revoked" /\ authSessions[s].device = d =>
                authSessions'[s].status = "revoked"]_identityVars
  BY DEF SessionsEnd
<1> QED
  BY <1>1, <1>2, <1>3, PTL DEF ServicesSpec, DevicesTakeTheirSessions

-----------------------------------------------------------------------------
(* Brand voices.                                                           *)

VoicesInv == voices \in Seq(BrandVoice) /\ VoicesApart

\* create, update and duplicate (brand-voices.service.ts).
LEMMA VoicesKeep ==
  ASSUME VoicesInv, VoicesNext \/ UNCHANGED voicesVars
  PROVE  VoicesInv'
<1> USE DEF voicesVars
<1>a. MaxVersion \in Nat /\ 1 \in 1 .. MaxVersion
  BY LibraryAssumption DEF LibraryAssumption
<1>0. \A v \in DOMAIN voices :
        voices[v] \in BrandVoice /\ voices[v].name \in VoiceNames /\ voices[v].version \in Nat
  <2>1. \A v \in DOMAIN voices : voices[v] \in BrandVoice
    BY RowsOf DEF VoicesInv
  <2> QED
    BY <1>a, <2>1 DEF BrandVoice
<1>1. ASSUME NEW name \in VoiceNames, ~NameTaken(name, NoRecord),
             voices' = Append(voices, [name |-> name, version |-> 1])
      PROVE  VoicesInv'
  <2> DEFINE new == [name |-> name, version |-> 1]
  <2>1. new \in BrandVoice /\ new.name = name
    BY <1>a DEF BrandVoice
  <2> HIDE DEF new
  <2>2. /\ voices' \in Seq(BrandVoice)
        /\ DOMAIN voices' = DOMAIN voices \cup {Len(voices) + 1}
        /\ voices'[Len(voices) + 1] = new
        /\ \A v \in DOMAIN voices : voices'[v] = voices[v]
    BY <1>1, <2>1, AppendedTo DEF VoicesInv, new
  <2>3. \A v \in DOMAIN voices : voices[v].name # name
    BY <1>1, RowsOf DEF NameTaken, NoRecord, VoicesInv
  <2> QED
    BY <2>1, <2>2, <2>3 DEF VoicesInv, VoicesApart
<1>2. ASSUME NEW v \in DOMAIN voices, NEW name \in VoiceNames, UpdateVoiceRecord(v, name)
      PROVE  VoicesInv'
  <2> DEFINE new == [voices[v] EXCEPT !.name = name, !.version = @ + 1]
  <2>1. new \in BrandVoice /\ new.name = name
    <3>1. voices[v] \in BrandVoice /\ voices[v].version + 1 \in 1 .. MaxVersion
      BY <1>0, <1>2, <1>a DEF UpdateVoiceRecord
    <3>2. \A old \in BrandVoice, w \in 1 .. MaxVersion :
            /\ [old EXCEPT !.name = name, !.version = w] \in BrandVoice
            /\ [old EXCEPT !.name = name, !.version = w].name = name
      BY DEF BrandVoice
    <3> QED
      BY <3>1, <3>2
  <2>2. voices' = [voices EXCEPT ![v] = new]
    BY <1>2 DEF UpdateVoiceRecord
  <2> HIDE DEF new
  <2>3. /\ voices' \in Seq(BrandVoice) /\ DOMAIN voices' = DOMAIN voices
        /\ \A u \in DOMAIN voices : voices'[u] = IF u = v THEN new ELSE voices[u]
    BY <2>1, <2>2, WrittenAt DEF VoicesInv
  <2>4. \A u \in DOMAIN voices : u # v => voices[u].name # name
    BY <1>2 DEF UpdateVoiceRecord, NameTaken, VoicesInv, VoicesApart
  <2> QED
    BY <2>1, <2>3, <2>4 DEF VoicesInv, VoicesApart
<1>3. ASSUME NEW v \in DOMAIN voices
      PROVE  [voices[v].name EXCEPT !.copies = @ + 1] \in VoiceNames
  BY <1>0 DEF VoiceNames
<1>4. \A n \in [word : Words, capitals : BOOLEAN, copies : {0, 1}] : n \in VoiceNames
  BY DEF VoiceNames
<1>5. [word : Words, capitals : {FALSE}, copies : {0}] \subseteq VoiceNames
  <2>1. {FALSE} \subseteq BOOLEAN /\ {0} \subseteq Nat
    OBVIOUS
  <2> QED
    BY <2>1 DEF VoiceNames
<1>6. CASE \E name \in [word : Words, capitals : BOOLEAN, copies : {0, 1}] : CreateVoice(name)
  BY <1>1, <1>4, <1>6 DEF CreateVoice
<1>7. CASE \E v \in DOMAIN voices : DuplicateVoice(v)
  BY <1>1, <1>3, <1>7 DEF DuplicateVoice
<1>8. CASE \E v \in DOMAIN voices :
             \E name \in [word : Words, capitals : {FALSE}, copies : {0}] \cup {voices[v].name} :
               UpdateVoiceRecord(v, name)
  BY <1>0, <1>2, <1>5, <1>8
<1>9. CASE UNCHANGED voices
  BY <1>9 DEF VoicesInv, VoicesApart
<1> QED
  BY <1>6, <1>7, <1>8, <1>9 DEF VoicesNext

LEMMA VoicesStart == ServicesInit => VoicesInv
<1> SUFFICES ASSUME ServicesInit
             PROVE  VoicesInv
  OBVIOUS
<1> DEFINE first == [name |-> [word |-> DemoName.word, capitals |-> FALSE, copies |-> 0],
                     version |-> 1]
<1>1. first \in BrandVoice
  BY DemoNameIsLowered, LibraryAssumption
  DEF BrandVoice, VoiceNames, Spelled, LibraryAssumption
<1>2. voices = <<first>>
  BY DEF ServicesInit, VoicesInit, FixtureVoices
<1> HIDE DEF first
<1> QED
  BY <1>1, <1>2 DEF VoicesInv, VoicesApart

-----------------------------------------------------------------------------
(* Content templates.                                                      *)

TemplatesInv == templates \in Seq(ContentTemplate) /\ TemplatesApart

\* What the service and its panel ask for; a template that is used need not be there.
TemplatesCalls ==
  \/ UNCHANGED templates
  \/ \E name \in Spelled, status \in {"draft", "active", "archived"} : CreateTemplate(name, status)
  \/ \E t : UseTemplate(t)

LEMMA TemplatesMove ==
  ASSUME TemplatesNext \/ TemplatesPanel \/ UNCHANGED templatesVars
  PROVE  TemplatesCalls
BY DEF TemplatesNext, TemplatesPanel, templatesVars, TemplatesCalls, createTemplate, useTemplate

\* create and use (content-templates.service.ts).
LEMMA TemplatesKeep ==
  ASSUME TemplatesInv, TemplatesCalls
  PROVE  TemplatesInv'
<1>0. \A t \in DOMAIN templates :
        templates[t] \in ContentTemplate /\ templates[t].usageCount \in Nat
  <2>1. \A t \in DOMAIN templates : templates[t] \in ContentTemplate
    BY RowsOf DEF TemplatesInv
  <2> QED
    BY <2>1 DEF ContentTemplate
<1>1. CASE UNCHANGED templates
  BY <1>1 DEF TemplatesInv, TemplatesApart
<1>2. ASSUME NEW name \in Spelled, NEW status \in {"draft", "active", "archived"},
             CreateTemplate(name, status)
      PROVE  TemplatesInv'
  <2> DEFINE new == [name |-> name, status |-> status, usageCount |-> 0]
  <2>1. new \in ContentTemplate /\ new.name = name
    BY DEF ContentTemplate
  <2>2. /\ templates' = Append(templates, new)
        /\ \A t \in DOMAIN templates :
             Plain(templates[t].name) = Plain(name) => templates[t].status = "archived"
    BY <1>2 DEF CreateTemplate
  <2> HIDE DEF new
  <2>3. /\ templates' \in Seq(ContentTemplate)
        /\ DOMAIN templates' = DOMAIN templates \cup {Len(templates) + 1}
        /\ templates'[Len(templates) + 1] = new
        /\ \A t \in DOMAIN templates : templates'[t] = templates[t]
    BY <2>1, <2>2, AppendedTo DEF TemplatesInv
  <2> QED
    BY <2>1, <2>2, <2>3 DEF TemplatesInv, TemplatesApart
<1>3. ASSUME NEW t, UseTemplate(t)
      PROVE  TemplatesInv'
  <2>1. CASE t \in DOMAIN templates
    <3> DEFINE new == [templates[t] EXCEPT !.usageCount = @ + 1]
    <3>1. /\ new \in ContentTemplate /\ new.name = templates[t].name
          /\ new.status = templates[t].status
      BY <1>0, <2>1 DEF ContentTemplate
    <3>2. templates' = [templates EXCEPT ![t] = new]
      BY <1>3 DEF UseTemplate
    <3> HIDE DEF new
    <3>3. /\ templates' \in Seq(ContentTemplate) /\ DOMAIN templates' = DOMAIN templates
          /\ \A u \in DOMAIN templates : templates'[u] = IF u = t THEN new ELSE templates[u]
      BY <3>1, <3>2, WrittenAt DEF TemplatesInv
    <3> QED
      BY <2>1, <3>1, <3>3 DEF TemplatesInv, TemplatesApart
  <2>2. CASE t \notin DOMAIN templates
    <3>1. templates' = templates
      BY <1>3, <2>2 DEF UseTemplate, TemplatesInv
    <3> QED
      BY <1>1, <3>1
  <2> QED
    BY <2>1, <2>2
<1> QED
  BY <1>1, <1>2, <1>3 DEF TemplatesCalls

LEMMA TemplatesStart == ServicesInit => TemplatesInv
<1> SUFFICES ASSUME ServicesInit
             PROVE  TemplatesInv
  OBVIOUS
<1> DEFINE first == [name |-> DemoName, status |-> "active", usageCount |-> 4]
<1>1. first \in ContentTemplate
  BY DemoNameIsLowered DEF ContentTemplate
<1>2. templates = <<first>>
  BY DEF ServicesInit, TemplatesInit, FixtureTemplates
<1> HIDE DEF first
<1> QED
  BY <1>1, <1>2 DEF TemplatesInv, TemplatesApart

-----------------------------------------------------------------------------
(* Budget lines, milestones and tasks.                                     *)

\* Completion is stamped exactly on what is complete.
Stamped(done, row) == row.status = done <=> row.completedAt # Never

BudgetInv ==
  /\ now \in Instants
  /\ budgetLines \in Seq(BudgetLine)
  /\ milestones \in Seq(Milestone)
  /\ \A i, j \in DOMAIN budgetLines :
       Plain(budgetLines[i].category) = Plain(budgetLines[j].category) => i = j
  /\ \A m \in DOMAIN milestones : Stamped("completed", milestones[m])

TasksInv ==
  /\ now \in Instants
  /\ tasks \in Seq(Task)
  /\ \A t \in DOMAIN tasks : Stamped("done", tasks[t])

\* The calls that write a line, a milestone or a task; the latter two need not be there.
CampaignsCalls ==
  \/ UNCHANGED <<budgetLines, milestones>>
  \/ \E category \in Spelled, spent \in {0, 2} : UpsertBudgetLine(category, 1, spent)
  \/ \E m : CompleteMilestone(m)

LEMMA CampaignsMove ==
  ASSUME CampaignsNext \/ CampaignsPanel \/ UNCHANGED campaignsVars
  PROVE  CampaignsCalls
BY PlainIsLowered
DEF CampaignsNext, CampaignsPanel, campaignsVars, CampaignsCalls, completeMilestone,
    saveBudgetLine, generateReport, GenerateReport

TasksCalls ==
  \/ UNCHANGED tasks
  \/ CreateTask
  \/ \E t : \E status \in TaskStatuses : UpdateTaskStatus(t, status)

LEMMA TasksMove ==
  ASSUME TasksNext \/ TasksPanel \/ UNCHANGED tasksVars
  PROVE  TasksCalls
BY DEF TasksNext, TasksPanel, tasksVars, TasksCalls, createTask, markTaskDone, TaskStatuses

\* While lines are apart, the one found is the only one there is.
LEMMA LineOfFacts ==
  ASSUME BudgetInv, NEW category
  PROVE  \/ /\ LineOf(category) = NoRecord
            /\ \A i \in DOMAIN budgetLines : Plain(budgetLines[i].category) # Plain(category)
         \/ /\ LineOf(category) \in DOMAIN budgetLines
            /\ Plain(budgetLines[LineOf(category)].category) = Plain(category)
            /\ LineOf(category) # NoRecord
<1> DEFINE Found(i) == Plain(budgetLines[i].category) = Plain(category)
<1>1. CASE \A i \in DOMAIN budgetLines : ~Found(i)
  BY <1>1 DEF LineOf, Newest
<1>2. ASSUME NEW i \in DOMAIN budgetLines, Found(i)
      PROVE  /\ LineOf(category) \in DOMAIN budgetLines
             /\ Found(LineOf(category))
  <2>1. \A j \in DOMAIN budgetLines : Found(j) => j <= i
    BY <1>2, RowsOf DEF BudgetInv
  <2> QED
    BY <1>2, <2>1 DEF LineOf, Newest
<1>3. NoRecord \notin DOMAIN budgetLines
  BY RowsOf DEF BudgetInv, NoRecord
<1> QED
  BY <1>1, <1>2, <1>3

\* upsertBudgetLine and completeMilestone (campaigns.service.ts).
LEMMA BudgetKeeps ==
  ASSUME BudgetInv, now' \in Instants, CampaignsCalls
  PROVE  BudgetInv'
<1>1. CASE UNCHANGED <<budgetLines, milestones>>
  BY <1>1 DEF BudgetInv, Stamped
<1>2. ASSUME NEW category \in Spelled, NEW spent \in {0, 2},
             UpsertBudgetLine(category, 1, spent)
      PROVE  BudgetInv'
  <2>1. milestones' = milestones
    BY <1>2 DEF UpsertBudgetLine
  <2>2. CASE LineOf(category) = NoRecord
    <3> DEFINE new == [category |-> category, allocated |-> 1, spent |-> spent]
    <3>1. new \in BudgetLine /\ new.category = category
      BY DEF BudgetLine
    <3>2. /\ budgetLines' = Append(budgetLines, new)
          /\ \A i \in DOMAIN budgetLines :
               Plain(budgetLines[i].category) # Plain(category)
      BY <1>2, <2>2, LineOfFacts, RowsOf DEF UpsertBudgetLine, BudgetInv, NoRecord
    <3> HIDE DEF new
    <3>3. /\ budgetLines' \in Seq(BudgetLine)
          /\ DOMAIN budgetLines' = DOMAIN budgetLines \cup {Len(budgetLines) + 1}
          /\ budgetLines'[Len(budgetLines) + 1] = new
          /\ \A i \in DOMAIN budgetLines : budgetLines'[i] = budgetLines[i]
      BY <3>1, <3>2, AppendedTo DEF BudgetInv
    <3> QED
      BY <2>1, <3>1, <3>2, <3>3 DEF BudgetInv, Stamped
  <2>3. CASE LineOf(category) # NoRecord
    <3> DEFINE line == LineOf(category)
    <3> DEFINE new == [budgetLines[line] EXCEPT !.allocated = 1, !.spent = spent]
    <3>1. line \in DOMAIN budgetLines
      BY <2>3, LineOfFacts
    <3>2. budgetLines[line] \in BudgetLine
      BY <3>1, RowsOf DEF BudgetInv
    <3>3. new \in BudgetLine /\ new.category = budgetLines[line].category
      <4>1. \A old \in BudgetLine, a, b \in Nat :
              /\ [old EXCEPT !.allocated = a, !.spent = b] \in BudgetLine
              /\ [old EXCEPT !.allocated = a, !.spent = b].category = old.category
        BY DEF BudgetLine
      <4>2. 1 \in Nat /\ spent \in Nat
        OBVIOUS
      <4> QED
        BY <3>2, <4>1, <4>2
    <3>4. budgetLines' = [budgetLines EXCEPT ![line] = new]
      BY <1>2, <2>3 DEF UpsertBudgetLine
    <3> HIDE DEF new, line
    <3>5. /\ budgetLines' \in Seq(BudgetLine) /\ DOMAIN budgetLines' = DOMAIN budgetLines
          /\ \A i \in DOMAIN budgetLines :
               budgetLines'[i] = IF i = line THEN new ELSE budgetLines[i]
      BY <3>3, <3>4, WrittenAt DEF BudgetInv
    <3>6. \A i \in DOMAIN budgetLines : budgetLines'[i].category = budgetLines[i].category
      BY <3>3, <3>5
    <3> QED
      BY <2>1, <3>5, <3>6 DEF BudgetInv, Stamped
  <2> QED
    BY <2>2, <2>3
<1>3. ASSUME NEW m, CompleteMilestone(m)
      PROVE  BudgetInv'
  <2> DEFINE new == [status |-> "completed", completedAt |-> now]
  <2>1. new \in Milestone /\ Stamped("completed", new)
    BY DEF BudgetInv, Milestone, Completion, Stamped, Instants, Never
  <2>2. milestones' = [milestones EXCEPT ![m] = new] /\ budgetLines' = budgetLines
    BY <1>3 DEF CompleteMilestone
  <2> HIDE DEF new
  <2>3. /\ milestones' \in Seq(Milestone) /\ DOMAIN milestones' = DOMAIN milestones
        /\ \A i \in DOMAIN milestones :
             milestones'[i] = IF i = m THEN new ELSE milestones[i]
    BY <2>1, <2>2, WrittenAt DEF BudgetInv
  <2> QED
    BY <2>1, <2>2, <2>3 DEF BudgetInv, Stamped
<1> QED
  BY <1>1, <1>2, <1>3 DEF CampaignsCalls

\* createTask and updateTaskStatus (campaigns.service.ts).
LEMMA TasksKeep ==
  ASSUME TasksInv, now' \in Instants, TasksCalls
  PROVE  TasksInv'
<1>1. CASE UNCHANGED tasks
  BY <1>1 DEF TasksInv, Stamped
<1>2. CASE CreateTask
  <2> DEFINE new == [status |-> "todo", completedAt |-> Never]
  <2>1. new \in Task /\ Stamped("done", new)
    BY DEF Task, TaskStatuses, Completion, Stamped, Never
  <2>2. tasks' = Append(tasks, new)
    BY <1>2 DEF CreateTask
  <2> HIDE DEF new
  <2>3. /\ tasks' \in Seq(Task)
        /\ DOMAIN tasks' = DOMAIN tasks \cup {Len(tasks) + 1}
        /\ tasks'[Len(tasks) + 1] = new
        /\ \A i \in DOMAIN tasks : tasks'[i] = tasks[i]
    BY <2>1, <2>2, AppendedTo DEF TasksInv
  <2> QED
    BY <2>1, <2>3 DEF TasksInv, Stamped
<1>3. ASSUME NEW t, NEW status \in TaskStatuses, UpdateTaskStatus(t, status)
      PROVE  TasksInv'
  <2> DEFINE new == [status |-> status,
                     completedAt |-> IF status = "done" THEN now ELSE Never]
  <2>1. new \in Task /\ Stamped("done", new)
    BY DEF TasksInv, Task, Completion, Stamped, Instants, Never
  <2>2. tasks' = [tasks EXCEPT ![t] = new]
    BY <1>3 DEF UpdateTaskStatus
  <2> HIDE DEF new
  <2>3. /\ tasks' \in Seq(Task) /\ DOMAIN tasks' = DOMAIN tasks
        /\ \A i \in DOMAIN tasks : tasks'[i] = IF i = t THEN new ELSE tasks[i]
    BY <2>1, <2>2, WrittenAt DEF TasksInv
  <2> QED
    BY <2>1, <2>3 DEF TasksInv, Stamped
<1> QED
  BY <1>1, <1>2, <1>3 DEF TasksCalls

LEMMA CampaignsStart == ServicesInit => BudgetInv /\ TasksInv
<1> SUFFICES ASSUME ServicesInit
             PROVE  BudgetInv /\ TasksInv
  OBVIOUS
<1> USE DEF Never
<1>1. now \in Instants
  BY ServiceAssumption DEF ServicesInit, ClockInit, Instants, ServiceAssumption
<1>2. budgetLines \in Seq(BudgetLine) /\ DOMAIN budgetLines = {1}
  <2> DEFINE first == [category |-> [DemoName EXCEPT !.capitals = TRUE], allocated |-> 2,
                       spent |-> 1]
  <2>1. first \in BudgetLine
    BY DemoNameIsLowered DEF BudgetLine, Spelled
  <2>2. budgetLines = <<first>>
    BY DEF ServicesInit, CampaignsInit, FixtureBudgetLines
  <2> HIDE DEF first
  <2> QED
    BY <2>1, <2>2
<1>3. milestones \in Seq(Milestone) /\ \A m \in DOMAIN milestones : Stamped("completed", milestones[m])
  BY ServiceAssumption
  DEF ServicesInit, CampaignsInit, FixtureMilestones, Milestone, Completion, Instants, Stamped,
      ServiceAssumption
<1>4. tasks \in Seq(Task) /\ \A t \in DOMAIN tasks : Stamped("done", tasks[t])
  BY DEF ServicesInit, TasksInit, FixtureTasks, Task, TaskStatuses, Completion, Stamped
<1> QED
  BY <1>1, <1>2, <1>3, <1>4 DEF BudgetInv, TasksInv

-----------------------------------------------------------------------------
(* The media pipeline.                                                     *)

\* A job as PublishedIsScanned wants it.
JobInOrder(job) ==
  /\ job.published => job.scan = "clean" /\ job.status \in {"completed", "failed"}
  /\ job.status = "completed" => job.published
  /\ job.status \in Steps => job.scan = "clean"

MediaInv ==
  /\ intents \in 0 .. MaxIntents
  /\ mediaJobs \in Seq(MediaJob)
  /\ \A j \in DOMAIN mediaJobs : JobInOrder(mediaJobs[j])
  /\ OneJobPerUpload

LEMMA StepsAre ==
  /\ Steps = {"virus_scanning", "format_detecting", "optimizing", "thumbnailing", "ai_tagging",
              "storing", "cdn_distributing", "completed"}
  /\ DOMAIN Pipeline = 1 .. 8
BY DEF Steps, Pipeline

\* A job that has not begun begins with the scan; one on its way goes on, and never back to it
\* (media.service.ts, processNext).
LEMMA StepAfterFacts ==
  ASSUME NEW status \in Steps \cup {"queued", "failed"}, status \notin {"failed", "completed"}
  PROVE  /\ StepAfter(status) \in Steps
         /\ StepAfter(status) = "virus_scanning" <=> status = "queued"
<1>1. CASE status = "queued"
  BY <1>1, StepsAre DEF StepAfter, Pipeline
<1>2. CASE status \in Steps
  <2> DEFINE i == CHOOSE i \in DOMAIN Pipeline : Pipeline[i] = status
  <2>1. i \in DOMAIN Pipeline /\ Pipeline[i] = status
    BY <1>2 DEF Steps
  <2>2. StepAfter(status) = Pipeline[i + 1]
    BY <1>2 DEF StepAfter
  <2> HIDE DEF i
  <2>3. i \in 1 .. 7
    <3>1. i \in 1 .. 8 /\ i # 8
      BY <2>1, StepsAre DEF Pipeline
    <3> QED
      BY <3>1
  <2>4. Pipeline[i + 1] \in Steps \ {"virus_scanning"}
    BY <2>3, StepsAre DEF Pipeline
  <2> QED
    BY <1>2, <2>2, <2>4, StepsAre
<1> QED
  BY <1>1, <1>2

\* createUploadIntent, completeUpload, processNext and failJob (media.service.ts).
LEMMA MediaKeeps ==
  ASSUME MediaInv, MediaNext \/ UNCHANGED mediaVars
  PROVE  MediaInv'
<1> USE DEF mediaVars
<1>0. \A j \in DOMAIN mediaJobs :
        /\ mediaJobs[j] \in MediaJob
        /\ mediaJobs[j].status \in Steps \cup {"queued", "failed"}
        /\ mediaJobs[j].scan \in {"pending", "clean"}
        /\ mediaJobs[j].published \in BOOLEAN
  <2>1. \A j \in DOMAIN mediaJobs : mediaJobs[j] \in MediaJob
    BY RowsOf DEF MediaInv
  <2> QED
    BY <2>1 DEF MediaJob
<1>1. CASE UNCHANGED mediaJobs /\ intents' \in 0 .. MaxIntents
  BY <1>1 DEF MediaInv, OneJobPerUpload
<1>2. ASSUME NEW j \in DOMAIN mediaJobs, NEW job \in MediaJob, JobInOrder(job),
             job.intent = mediaJobs[j].intent,
             mediaJobs' = [mediaJobs EXCEPT ![j] = job], UNCHANGED intents
      PROVE  MediaInv'
  <2>1. /\ mediaJobs' \in Seq(MediaJob) /\ DOMAIN mediaJobs' = DOMAIN mediaJobs
        /\ \A i \in DOMAIN mediaJobs : mediaJobs'[i] = IF i = j THEN job ELSE mediaJobs[i]
    BY <1>2, WrittenAt DEF MediaInv
  <2>2. \A i \in DOMAIN mediaJobs : mediaJobs'[i].intent = mediaJobs[i].intent
    BY <1>2, <2>1
  <2>3. OneJobPerUpload'
    BY <2>1, <2>2 DEF MediaInv, OneJobPerUpload
  <2> QED
    BY <1>2, <2>1, <2>3 DEF MediaInv
<1>3. ASSUME NEW intent \in 1 .. intents, CompleteUpload(intent)
      PROVE  MediaInv'
  <2> DEFINE new == [intent |-> intent, status |-> "queued", scan |-> "pending",
                     published |-> FALSE]
  <2>1. new \in MediaJob /\ JobInOrder(new) /\ new.intent = intent
    BY StepsAre, MediaAssumption DEF MediaInv, MediaJob, JobInOrder, MediaAssumption
  <2>2. /\ mediaJobs' = Append(mediaJobs, new) /\ intents' = intents
        /\ \A j \in DOMAIN mediaJobs : mediaJobs[j].intent # intent
    BY <1>3 DEF CompleteUpload
  <2> HIDE DEF new
  <2>3. /\ mediaJobs' \in Seq(MediaJob)
        /\ DOMAIN mediaJobs' = DOMAIN mediaJobs \cup {Len(mediaJobs) + 1}
        /\ mediaJobs'[Len(mediaJobs) + 1] = new
        /\ \A j \in DOMAIN mediaJobs : mediaJobs'[j] = mediaJobs[j]
    BY <2>1, <2>2, AppendedTo DEF MediaInv
  <2>4. OneJobPerUpload'
    BY <2>1, <2>2, <2>3 DEF MediaInv, OneJobPerUpload
  <2> QED
    BY <2>1, <2>2, <2>3, <2>4 DEF MediaInv
<1>4. ASSUME NEW j \in DOMAIN mediaJobs, ProcessNext(j)
      PROVE  MediaInv'
  <2> DEFINE step == StepAfter(mediaJobs[j].status)
  <2> DEFINE scan == IF step = "virus_scanning" THEN "clean" ELSE mediaJobs[j].scan
  <2> DEFINE published == IF step = "completed" THEN TRUE ELSE mediaJobs[j].published
  <2> DEFINE job == [mediaJobs[j] EXCEPT !.status = step, !.scan = scan, !.published = published]
  <2>1. /\ mediaJobs[j].status \notin {"failed", "completed"}
        /\ step \in Steps /\ (step = "virus_scanning" <=> mediaJobs[j].status = "queued")
    BY <1>0, <1>4, StepAfterFacts DEF ProcessNext
  <2>2. mediaJobs' = [mediaJobs EXCEPT ![j] = job] /\ intents' = intents
    BY <1>4 DEF ProcessNext
  <2>3. JobInOrder(mediaJobs[j])
    BY DEF MediaInv
  <2>4. scan = "clean" /\ published \in BOOLEAN /\ (published <=> step = "completed")
    BY <1>0, <2>1, <2>3 DEF JobInOrder
  <2> HIDE DEF step, scan, published
  <2>5. /\ job \in MediaJob /\ job.intent = mediaJobs[j].intent
        /\ job.status = step /\ job.scan = scan /\ job.published = published
    BY <1>0, <2>1, <2>4 DEF MediaJob
  <2> HIDE DEF job
  <2>6. JobInOrder(job)
    BY <2>1, <2>4, <2>5 DEF JobInOrder
  <2> QED
    BY <1>2, <2>2, <2>5, <2>6
<1>5. ASSUME NEW j \in DOMAIN mediaJobs, FailJob(j)
      PROVE  MediaInv'
  <2> DEFINE job == [mediaJobs[j] EXCEPT !.status = "failed"]
  <2>1. /\ job \in MediaJob /\ job.intent = mediaJobs[j].intent /\ job.status = "failed"
        /\ job.scan = mediaJobs[j].scan /\ job.published = mediaJobs[j].published
    BY <1>0 DEF MediaJob
  <2>2. mediaJobs' = [mediaJobs EXCEPT ![j] = job] /\ intents' = intents
    BY <1>5 DEF FailJob
  <2> HIDE DEF job
  <2>3. JobInOrder(job)
    BY <2>1, StepsAre DEF MediaInv, JobInOrder
  <2> QED
    BY <1>2, <2>1, <2>2, <2>3
<1>6. CASE CreateUploadIntent
  BY <1>1, <1>6, MediaAssumption DEF CreateUploadIntent, MediaInv, MediaAssumption
<1> QED
  BY <1>1, <1>3, <1>4, <1>5, <1>6 DEF MediaNext, MediaInv

LEMMA MediaStart == ServicesInit => MediaInv
<1> SUFFICES ASSUME ServicesInit
             PROVE  MediaInv
  OBVIOUS
<1>1. mediaJobs = FixtureJobs /\ intents = 0
  BY DEF ServicesInit, MediaInit
<1>2. FixtureJobs \in Seq(MediaJob) /\ 0 \in 0 .. MaxIntents
  BY StepsAre, MediaAssumption DEF FixtureJobs, MediaJob, NoRecord, MediaAssumption
<1> QED
  BY <1>1, <1>2, StepsAre DEF MediaInv, FixtureJobs, JobInOrder, OneJobPerUpload, NoRecord

\* Nothing reaches the CDN unscanned, whatever callers advance or fail (media.service.ts,
\* processNext and failJob).
THEOREM NothingUnscanned == ServicesSpec => [](PublishedIsScanned /\ OneJobPerUpload)
<1>1. MediaInv /\ [ServicesNext]_servicesVars => MediaInv'
  BY WhoMoves, MediaKeeps
<1>2. MediaInv => PublishedIsScanned /\ OneJobPerUpload
  BY DEF MediaInv, JobInOrder, PublishedIsScanned
<1> QED
  BY <1>1, <1>2, MediaStart, PTL DEF ServicesSpec

-----------------------------------------------------------------------------
(* Onboarding.  Of the steps that are not skipped, some are completed and  *)
(* the rest are open; completing moves one from the open to the completed, *)
(* and skipping takes one of the open away.                                *)

Checklist == [OnboardingSteps -> StepStatuses]
In(f, statuses) == {s \in OnboardingSteps : f[s] \in statuses}
Completed(f) == Cardinality(In(f, {"completed"}))
Open(f) == Cardinality(In(f, {"pending", "in_progress"}))
Percent(completed, open) ==
  IF completed + open = 0 THEN 100
  ELSE (200 * completed + (completed + open)) \div (2 * (completed + open))

LEMMA SevenSteps == IsFiniteSet(OnboardingSteps) /\ Cardinality(OnboardingSteps) <= 7
<1> DEFINE at == <<"workspace_profile", "connect_social_account", "brand_voice", "first_post",
                   "invite_team", "notifications", "analytics_review">>
<1>1. at \in Surjection(1 .. 7, OnboardingSteps)
  <2>1. \A k \in 1 .. 7 : at[k] \in OnboardingSteps
    BY DEF OnboardingSteps
  <2>2. /\ at[1] = "workspace_profile" /\ at[2] = "connect_social_account"
        /\ at[3] = "brand_voice" /\ at[4] = "first_post" /\ at[5] = "invite_team"
        /\ at[6] = "notifications" /\ at[7] = "analytics_review"
    OBVIOUS
  <2>3. \A s \in OnboardingSteps : \E k \in 1 .. 7 : at[k] = s
    BY <2>2 DEF OnboardingSteps
  <2>4. at \in [1 .. 7 -> OnboardingSteps]
    BY <2>1
  <2> QED
    BY <2>3, <2>4 DEF Surjection
<1>2. ExistsSurjection(1 .. 7, OnboardingSteps)
  BY <1>1 DEF ExistsSurjection
<1> QED
  BY <1>2, FS_NatSurjection, FS_SurjCardinalityBound

LEMMA CountsOf ==
  ASSUME NEW f \in Checklist
  PROVE  /\ IsFiniteSet(In(f, {"completed"})) /\ IsFiniteSet(In(f, {"pending", "in_progress"}))
         /\ Completed(f) \in Nat /\ Open(f) \in Nat
         /\ Completed(f) + Open(f) <= 7
         /\ Cardinality(OnboardingSteps \ In(f, {"skipped"})) = Completed(f) + Open(f)
         /\ Open(f) = 0 <=> In(f, {"pending", "in_progress"}) = {}
<1> DEFINE C == In(f, {"completed"})
<1> DEFINE O == In(f, {"pending", "in_progress"})
<1>1. /\ C \subseteq OnboardingSteps /\ O \subseteq OnboardingSteps /\ C \cap O = {}
      /\ OnboardingSteps \ In(f, {"skipped"}) = C \cup O
      /\ C \cup O \subseteq OnboardingSteps
  BY DEF In, Checklist, StepStatuses
<1>2. IsFiniteSet(C) /\ IsFiniteSet(O)
  BY <1>1, SevenSteps, FS_Subset
<1>3. Cardinality(C) \in Nat /\ Cardinality(O) \in Nat
  BY <1>2, FS_CardinalityType
<1>4. Cardinality(C \cup O) = Cardinality(C) + Cardinality(O)
  <2> HIDE DEF C, O
  <2>1. Cardinality(C \cup O) = Cardinality(C) + Cardinality(O) - Cardinality(C \cap O)
    BY <1>2, FS_Union
  <2>2. Cardinality(C \cap O) = 0
    BY <1>1, FS_EmptySet
  <2> QED
    BY <1>3, <2>1, <2>2
<1>5. Cardinality(C \cup O) <= Cardinality(OnboardingSteps)
  BY <1>1, SevenSteps, FS_Subset
<1>6. Cardinality(OnboardingSteps) \in Nat
  BY SevenSteps, FS_CardinalityType
<1>7. Cardinality(O) = 0 <=> O = {}
  BY <1>2, FS_EmptySet
<1> HIDE DEF C, O
<1>8. Cardinality(C) + Cardinality(O) <= 7
  BY <1>3, <1>4, <1>5, <1>6, SevenSteps
<1> QED
  BY <1>1, <1>2, <1>3, <1>4, <1>7, <1>8 DEF Completed, Open, C, O

LEMMA ProgressIs ==
  ASSUME NEW f \in Checklist
  PROVE  /\ steps = f => /\ Progress = Percent(Completed(f), Open(f))
                         /\ StepsIn({"pending", "in_progress"}) = {} <=> Open(f) = 0
         /\ steps' = f => /\ Progress' = Percent(Completed(f), Open(f))
                          /\ StepsIn({"pending", "in_progress"})' = {} <=> Open(f) = 0
BY CountsOf DEF Progress, Percent, StepsIn, In, Completed

\* Rounded to the nearest whole number, the share of the completed grows when one is completed and
\* when one that is open is taken away, and it is 100 when none is open (onboarding.service.ts,
\* checklist).
LEMMA PercentGrows ==
  ASSUME NEW c \in 0 .. 7, NEW o \in 0 .. 7, c + o <= 7
  PROVE  /\ Percent(c, o) = 100 <=> o = 0
         /\ o > 0 => Percent(c + 1, o - 1) >= Percent(c, o) /\ Percent(c, o - 1) >= Percent(c, o)
<1>1. CASE o = 0
  <2>1. \A n \in 1 .. 7 : (200 * n + n) \div (2 * n) = 100
    <3> TAKE n \in 1 .. 7
    <3>1. CASE n = 1
      BY <3>1
    <3>2. CASE n = 2
      BY <3>2
    <3>3. CASE n = 3
      BY <3>3
    <3>4. CASE n = 4
      BY <3>4
    <3>5. CASE n = 5
      BY <3>5
    <3>6. CASE n = 6
      BY <3>6
    <3>7. CASE n = 7
      BY <3>7
    <3> QED
      BY <3>1, <3>2, <3>3, <3>4, <3>5, <3>6, <3>7
  <2> QED
    BY <1>1, <2>1 DEF Percent
<1>2. ASSUME o > 0, NEW n \in 1 .. 7, n = c + o
      PROVE  /\ (200 * c + n) \div (2 * n) < 100
             /\ (200 * (c + 1) + n) \div (2 * n) >= (200 * c + n) \div (2 * n)
             /\ n > 1 => (200 * c + (n - 1)) \div (2 * (n - 1)) >= (200 * c + n) \div (2 * n)
  <2>0. c \in 0 .. n - 1
    BY <1>2
  <2>1. CASE n = 1
    BY <2>0, <2>1
  <2>2. CASE n = 2
    BY <2>0, <2>2
  <2>3. CASE n = 3
    BY <2>0, <2>3
  <2>4. CASE n = 4
    BY <2>0, <2>4
  <2>5. CASE n = 5
    BY <2>0, <2>5
  <2>6. CASE n = 6
    BY <2>0, <2>6
  <2>7. CASE n = 7
    BY <2>0, <2>7
  <2> QED
    BY <2>1, <2>2, <2>3, <2>4, <2>5, <2>6, <2>7
<1>3. CASE o > 0
  <2> DEFINE n == c + o
  <2>1. n \in 1 .. 7 /\ (c + 1) + (o - 1) = n /\ c + (o - 1) = n - 1 /\ n # 0
    BY <1>3
  <2>2. /\ (200 * c + n) \div (2 * n) < 100
        /\ (200 * (c + 1) + n) \div (2 * n) >= (200 * c + n) \div (2 * n)
        /\ n > 1 => (200 * c + (n - 1)) \div (2 * (n - 1)) >= (200 * c + n) \div (2 * n)
    BY <1>2, <1>3, <2>1
  <2>3. /\ Percent(c, o) = (200 * c + n) \div (2 * n)
        /\ Percent(c + 1, o - 1) = (200 * (c + 1) + n) \div (2 * n)
        /\ Percent(c, o - 1) = IF n - 1 = 0 THEN 100
                               ELSE (200 * c + (n - 1)) \div (2 * (n - 1))
    BY <2>1 DEF Percent
  <2> HIDE DEF n
  <2>4. (200 * c + n) \div (2 * n) \in Int
    BY <2>1
  <2> QED
    BY <1>3, <2>1, <2>2, <2>3, <2>4
<1> QED
  BY <1>1, <1>3

OnboardingInv == steps \in Checklist

\* complete and skip (onboarding.service.ts), by a caller or from the panel.
OnboardingCalls ==
  UNCHANGED steps \/ \E s \in OnboardingSteps : CompleteStep(s) \/ SkipStep(s)

LEMMA OnboardingMoves ==
  ASSUME OnboardingNext \/ OnboardingPanel \/ UNCHANGED onboardingVars
  PROVE  OnboardingCalls
<1>1. \A s : StepOffers(s) => s \in OnboardingSteps
  BY DEF StepOffers, OnboardingSteps
<1> QED
  BY <1>1 DEF OnboardingNext, OnboardingPanel, onboardingVars, OnboardingCalls, complete, skip

ChecklistProgresses ==
  Progress' >= Progress /\ (Progress' = 100 <=> StepsIn({"pending", "in_progress"})' = {})

LEMMA OnboardingKeeps ==
  ASSUME OnboardingInv, OnboardingCalls
  PROVE  OnboardingInv' /\ [ChecklistProgresses]_steps
<1> DEFINE c == Completed(steps)
<1> DEFINE o == Open(steps)
<1> DEFINE C == In(steps, {"completed"})
<1> DEFINE O == In(steps, {"pending", "in_progress"})
<1>0. steps \in Checklist
  BY DEF OnboardingInv
<1>1. /\ IsFiniteSet(C) /\ IsFiniteSet(O)
      /\ c \in 0 .. 7 /\ o \in 0 .. 7 /\ c + o <= 7
      /\ c = Cardinality(C) /\ o = Cardinality(O)
      /\ Progress = Percent(c, o)
  <2>1. /\ IsFiniteSet(C) /\ IsFiniteSet(O)
        /\ c \in Nat /\ o \in Nat /\ c + o <= 7
    BY <1>0, CountsOf
  <2>2. Progress = Percent(c, o)
    BY <1>0, ProgressIs
  <2> QED
    BY <2>1, <2>2 DEF Completed, Open
<1>2. ASSUME steps' \in Checklist, o > 0,
             \/ Completed(steps') = c + 1 /\ Open(steps') = o - 1
             \/ Completed(steps') = c /\ Open(steps') = o - 1
      PROVE  OnboardingInv' /\ ChecklistProgresses
  <2> DEFINE d == Completed(steps')
  <2> DEFINE q == Open(steps')
  <2>1. /\ d \in 0 .. 7 /\ q \in 0 .. 7 /\ d + q <= 7
        /\ Progress' = Percent(d, q)
        /\ StepsIn({"pending", "in_progress"})' = {} <=> q = 0
    <3>1. d \in Nat /\ q \in Nat /\ d + q <= 7
      BY <1>2, CountsOf
    <3>2. /\ Progress' = Percent(d, q)
          /\ StepsIn({"pending", "in_progress"})' = {} <=> q = 0
      BY <1>2, ProgressIs
    <3> QED
      BY <3>1, <3>2
  <2>2. Percent(d, q) = 100 <=> q = 0
    BY <2>1, PercentGrows
  <2>3. Percent(c + 1, o - 1) >= Percent(c, o) /\ Percent(c, o - 1) >= Percent(c, o)
    BY <1>1, <1>2, PercentGrows
  <2> HIDE DEF d, q, c, o
  <2>4. Percent(d, q) >= Percent(c, o)
    BY <1>2, <2>3 DEF d, q
  <2> QED
    BY <1>1, <1>2, <2>1, <2>2, <2>4 DEF OnboardingInv, ChecklistProgresses
<1>3. ASSUME NEW s \in OnboardingSteps, CompleteStep(s)
      PROVE  OnboardingInv' /\ ChecklistProgresses
  <2>1. /\ steps' \in Checklist /\ s \in O /\ s \notin C
        /\ In(steps', {"completed"}) = C \cup {s}
        /\ In(steps', {"pending", "in_progress"}) = O \ {s}
    BY <1>0, <1>3 DEF CompleteStep, Checklist, In, StepStatuses
  <2> HIDE DEF C, O
  <2>2. Cardinality(C \cup {s}) = c + 1
    BY <1>1, <2>1, FS_AddElement
  <2>3. Cardinality(O \ {s}) = o - 1
    BY <1>1, <2>1, FS_RemoveElement
  <2>4. o > 0
    BY <1>1, <2>1, FS_EmptySet
  <2> QED
    BY <1>2, <2>1, <2>2, <2>3, <2>4 DEF Completed, Open
<1>4. ASSUME NEW s \in OnboardingSteps, SkipStep(s), steps[s] # "skipped"
      PROVE  OnboardingInv' /\ ChecklistProgresses
  <2>1. /\ steps' \in Checklist /\ s \in O
        /\ In(steps', {"completed"}) = C
        /\ In(steps', {"pending", "in_progress"}) = O \ {s}
    BY <1>0, <1>4 DEF SkipStep, Checklist, In, StepStatuses
  <2> HIDE DEF C, O
  <2>2. Cardinality(O \ {s}) = o - 1
    BY <1>1, <2>1, FS_RemoveElement
  <2>3. o > 0
    BY <1>1, <2>1, FS_EmptySet
  <2> QED
    BY <1>1, <1>2, <2>1, <2>2, <2>3 DEF Completed, Open
<1>5. ASSUME NEW s \in OnboardingSteps, SkipStep(s), steps[s] = "skipped"
      PROVE  steps' = steps
  BY <1>0, <1>5 DEF SkipStep, Checklist
<1> QED
  BY <1>3, <1>4, <1>5 DEF OnboardingCalls, OnboardingInv

\* Whatever is completed or skipped, in whatever order, by a caller or from the panel, the
\* percentage never falls, and it is full only when nothing is left to do (onboarding.service.ts,
\* complete, skip and checklist).
THEOREM ChecklistAdvances == ServicesSpec => ProgressNeverFalls
<1>1. ServicesInit => OnboardingInv
  BY DEF ServicesInit, OnboardingInit, FixtureSteps, OnboardingInv, Checklist, OnboardingSteps,
         StepStatuses
<1>2. OnboardingInv /\ [ServicesNext]_servicesVars => OnboardingInv' /\ [ChecklistProgresses]_steps
  BY WhoMoves, OnboardingMoves, OnboardingKeeps
<1>3. [ChecklistProgresses]_steps <=>
        [Progress' >= Progress /\ (Progress' = 100 <=> StepsIn({"pending", "in_progress"})' = {})]_steps
  BY DEF ChecklistProgresses
<1> QED
  BY <1>1, <1>2, <1>3, PTL DEF ServicesSpec, ProgressNeverFalls

-----------------------------------------------------------------------------
(* Alerts and notifications.  A notification names no alert that is yet to *)
(* be raised, so that a new alert has the one its mention is routed with.  *)

AlertFields == {"severity", "resolved"}
NoticeFields == {"type", "priority", "alert", "read", "attempts"}

\* The notifications of those given that announce the alert, and what they are when it is of the
\* severity: one, or none.
Announcing(N, a) == {n \in DOMAIN N : N[n].alert = a}
AnnouncedAs(severity, N, a) ==
  IF severity = "info" THEN Announcing(N, a) = {}
  ELSE \E n \in DOMAIN N : /\ Announcing(N, a) = {n}
                           /\ N[n].priority = "critical" <=> severity = "critical"

\* A notification as AlertsAreAnnounced wants it.
TriedInOrder(notice) ==
  /\ DOMAIN notice.attempts # {}
  /\ \A c \in DOMAIN notice.attempts : notice.attempts[c] = "quiet" =>
       notice.priority # "critical" /\ c # "in_app"
  /\ "muted" \in {notice.attempts[c] : c \in DOMAIN notice.attempts} =>
       \A c \in DOMAIN notice.attempts : notice.attempts[c] = "muted"

NoticeKept(notice, raised) ==
  /\ NoticeFields \subseteq DOMAIN notice
  /\ notice.alert \in 0 .. raised
  /\ TriedInOrder(notice)

AlertsInv ==
  /\ Listed(alerts) /\ Listed(notices)
  /\ \A a \in DOMAIN alerts : AlertFields \subseteq DOMAIN alerts[a]
  /\ \A n \in DOMAIN notices : NoticeKept(notices[n], Len(alerts))
  /\ \A a \in DOMAIN alerts \ DOMAIN FixtureAlerts :
       AnnouncedAs(alerts[a].severity, notices, a)

\* The calls that write alerts or notifications; the panel may name a monitor or an alert that is
\* not there.
AlertsCalls ==
  \/ UNCHANGED <<alerts, notices>>
  \/ \E m, mention, u : IngestMention(m, mention, u)
  \/ \E a : ResolveAlert(a)
  \/ \E n : MarkRead(n)
  \/ \E u, type, priority, force : RouteDirectly(u, type, priority, force)

LEMMA AlertsMove ==
  ASSUME AlertsNext \/ ListeningPanel \/ NotificationsPanel \/ UNCHANGED alertsVars
  PROVE  AlertsCalls
<1>1. CASE AlertsNext
  BY <1>1 DEF AlertsNext, alertsVars, AlertsCalls, CreateMonitor, SetMonitorStatus, GetPreferences,
              UpdatePreferences
<1>2. CASE ListeningPanel
  BY <1>2 DEF ListeningPanel, alertsVars, AlertsCalls, createMonitor, toggleMonitor, ingestMention,
              resolveAlert, CreateMonitor, SetMonitorStatus
<1>3. CASE NotificationsPanel
  BY <1>3 DEF NotificationsPanel, alertsVars, AlertsCalls, patchPreferences, sendTestAlert,
              UpdatePreferences
<1> QED
  BY <1>1, <1>2, <1>3 DEF alertsVars, AlertsCalls

\* What is routed is tried on a channel at least, and a mute is the same on all of them
\* (notifications.service.ts, route).
LEMMA RoutedInOrder ==
  ASSUME NEW u, NEW type, NEW priority, NEW preference, NEW quiet, NEW alert \in Nat
  PROVE  NoticeKept([user |-> u, type |-> type, priority |-> priority, alert |-> alert,
                     read |-> FALSE,
                     attempts |-> [c \in EnabledChannels(preference) |->
                                     Attempt(preference, type, priority, c, quiet)]], alert)
<1> DEFINE E == EnabledChannels(preference)
<1> DEFINE tried == [c \in E |-> Attempt(preference, type, priority, c, quiet)]
<1>1. E # {}
  BY DEF EnabledChannels
<1>2. ASSUME NEW c \in E
      PROVE  /\ tried[c] = "quiet" => priority # "critical" /\ c # "in_app"
             /\ tried[c] = "muted" <=> preference.digest = "muted" \/ type \in preference.mutedTypes
  BY DEF Attempt
<1>3. DOMAIN tried = E
  OBVIOUS
<1> DEFINE notice == [user |-> u, type |-> type, priority |-> priority, alert |-> alert,
                      read |-> FALSE, attempts |-> tried]
<1>4. /\ notice.attempts = tried /\ notice.priority = priority /\ notice.alert = alert
      /\ NoticeFields \subseteq DOMAIN notice
  BY DEF NoticeFields
<1> HIDE DEF E, tried, notice
<1>5. TriedInOrder(notice)
  BY <1>1, <1>2, <1>3, <1>4 DEF TriedInOrder
<1>6. NoticeKept(notice, alert)
  BY <1>4, <1>5 DEF NoticeKept
<1> QED
  BY <1>6 DEF notice, tried, E

\* The notification that is routed, as far as its attempts: whose preference, at what time.
Routed(u, type, priority, alert, preference, quiet) ==
  [user |-> u, type |-> type, priority |-> priority, alert |-> alert, read |-> FALSE,
   attempts |-> [c \in EnabledChannels(preference) |->
                   Attempt(preference, type, priority, c, quiet)]]

LEMMA RoutedFacts ==
  ASSUME NEW u, NEW type, NEW priority, NEW preference, NEW quiet, NEW alert \in Nat
  PROVE  /\ NoticeKept(Routed(u, type, priority, alert, preference, quiet), alert)
         /\ Routed(u, type, priority, alert, preference, quiet).alert = alert
         /\ Routed(u, type, priority, alert, preference, quiet).priority = priority
<1>1. NoticeKept(Routed(u, type, priority, alert, preference, quiet), alert)
  BY RoutedInOrder DEF Routed
<1> QED
  BY <1>1 DEF Routed

\* ingestMention and what it routes (listening.service.ts, createAlertForMention).
LEMMA IngestKeeps ==
  ASSUME AlertsInv, NEW m, NEW mention, NEW u, IngestMention(m, mention, u)
  PROVE  AlertsInv'
<1> DEFINE severity == AssessSeverity(monitors[m].alertThreshold, mention)
<1> DEFINE new == [monitor |-> m, mention |-> mentions', severity |-> severity, resolved |-> FALSE]
<1> DEFINE k == Len(alerts) + 1
<1>0. /\ Len(alerts) \in Nat /\ DOMAIN alerts = 1 .. Len(alerts) /\ k \in Nat
      /\ DOMAIN notices = 1 .. Len(notices) /\ Len(notices) \in Nat
      /\ \A n \in DOMAIN notices : notices[n].alert \in 0 .. Len(alerts)
  BY ListedLength DEF AlertsInv, NoticeKept
<1>1. new.severity = severity /\ AlertFields \subseteq DOMAIN new
  BY DEF AlertFields
<1>2. /\ IF severity = "none" THEN UNCHANGED alerts ELSE alerts' = Append(alerts, new)
      /\ IF severity \in {"none", "info"} THEN UNCHANGED notices
         ELSE Route(u, "mention", IF severity = "critical" THEN "critical" ELSE "high",
                    Len(alerts'), FALSE)
  BY DEF IngestMention
<1> HIDE DEF severity, new
<1>3. CASE severity = "none"
  BY <1>2, <1>3 DEF AlertsInv
<1>4. ASSUME severity # "none"
      PROVE  /\ alerts' = Append(alerts, new) /\ Listed(alerts')
             /\ DOMAIN alerts' = DOMAIN alerts \cup {k} /\ Len(alerts') = k
             /\ alerts'[k] = new
             /\ \A a \in DOMAIN alerts : alerts'[a] = alerts[a]
             /\ \A a \in DOMAIN alerts' : AlertFields \subseteq DOMAIN alerts'[a]
  <2>1. /\ alerts' = Append(alerts, new) /\ Listed(alerts')
        /\ DOMAIN alerts' = DOMAIN alerts \cup {k} /\ Len(alerts') = k
        /\ alerts'[k] = new
        /\ \A a \in DOMAIN alerts : alerts'[a] = alerts[a]
    <3>1. alerts' = Append(alerts, new) /\ Listed(alerts)
      BY <1>2, <1>4 DEF AlertsInv
    <3> QED
      BY <3>1, ListedAppend
  <2> QED
    BY <1>1, <2>1 DEF AlertsInv
<1>5. Announcing(notices, k) = {}
  BY <1>0 DEF Announcing
<1>6. CASE severity = "info"
  <2>1. notices' = notices
    BY <1>2, <1>6
  <2>2. \A n \in DOMAIN notices : NoticeKept(notices[n], k)
    BY <1>0 DEF AlertsInv, NoticeKept
  <2>3. \A a \in DOMAIN alerts' \ DOMAIN FixtureAlerts :
          AnnouncedAs(alerts'[a].severity, notices, a)
    BY <1>1, <1>4, <1>5, <1>6 DEF AlertsInv, AnnouncedAs, Announcing
  <2> QED
    BY <1>4, <1>6, <2>1, <2>2, <2>3 DEF AlertsInv
<1>7. CASE severity \notin {"none", "info"}
  <2> DEFINE urgency == IF severity = "critical" THEN "critical" ELSE "high"
  <2>1. PICK notice : /\ notices' = Append(notices, notice)
                      /\ NoticeKept(notice, k)
                      /\ notice.alert = k /\ notice.priority = urgency
    <3> DEFINE preference == PreferenceOf(u)
    <3> DEFINE quiet == FALSE \/ QuietHoursActive(preference)
    <3> DEFINE notice == Routed(u, "mention", urgency, k, preference, quiet)
    <3>1. Len(alerts') = k /\ k \in Nat
      BY <1>0, <1>4, <1>7
    <3>2. Route(u, "mention", urgency, Len(alerts'), FALSE)
      BY <1>2, <1>7
    <3>3. notices' = Append(notices, Routed(u, "mention", urgency, Len(alerts'), preference, quiet))
      BY <3>2 DEF Route, Routed
    <3>4. notices' = Append(notices, notice)
      BY <3>1, <3>3
    <3> HIDE DEF urgency, k, preference, quiet
    <3>5. NoticeKept(notice, k) /\ notice.alert = k /\ notice.priority = urgency
      BY <3>1, RoutedFacts
    <3> QED
      BY <3>4, <3>5
  <2> DEFINE q == Len(notices) + 1
  <2>2. /\ Listed(notices') /\ DOMAIN notices' = DOMAIN notices \cup {q}
        /\ notices'[q] = notice /\ q \notin DOMAIN notices
        /\ \A n \in DOMAIN notices : notices'[n] = notices[n]
    BY <1>0, <2>1, ListedAppend DEF AlertsInv
  <2>3. \A n \in DOMAIN notices' : NoticeKept(notices'[n], k)
    BY <1>0, <2>1, <2>2 DEF AlertsInv, NoticeKept
  <2>4. /\ Announcing(notices', k) = {q}
        /\ \A a \in DOMAIN alerts : Announcing(notices', a) = Announcing(notices, a)
    BY <1>0, <1>5, <2>1, <2>2 DEF Announcing
  <2>5. AnnouncedAs(alerts'[k].severity, notices', k)
    BY <1>1, <1>4, <1>7, <2>1, <2>2, <2>4 DEF AnnouncedAs
  <2>6. ASSUME NEW a \in DOMAIN alerts \ DOMAIN FixtureAlerts
        PROVE  AnnouncedAs(alerts'[a].severity, notices', a)
    <3>1. AnnouncedAs(alerts[a].severity, notices, a)
      BY DEF AlertsInv
    <3>2. alerts'[a] = alerts[a] /\ Announcing(notices', a) = Announcing(notices, a)
      BY <1>4, <1>7, <2>4
    <3> QED
      BY <2>2, <3>1, <3>2 DEF AnnouncedAs
  <2> QED
    BY <1>4, <1>7, <2>2, <2>3, <2>5, <2>6 DEF AlertsInv
<1> QED
  BY <1>3, <1>6, <1>7

\* resolveAlert, markRead and a notification about no alert.
LEMMA OtherAlertsCallsKeep ==
  ASSUME AlertsInv, NEW x,
         \/ ResolveAlert(x)
         \/ MarkRead(x)
         \/ \E u, type, priority, force : RouteDirectly(u, type, priority, force)
  PROVE  AlertsInv'
<1>0. Len(alerts) \in Nat /\ DOMAIN alerts = 1 .. Len(alerts)
  BY ListedLength DEF AlertsInv
<1>1. CASE ResolveAlert(x)
  <2> DEFINE new == [alerts[x] EXCEPT !.resolved = TRUE]
  <2>1. alerts' = [alerts EXCEPT ![x] = new] /\ notices' = notices
    BY <1>1 DEF ResolveAlert
  <2>2. x \in DOMAIN alerts =>
          new.severity = alerts[x].severity /\ AlertFields \subseteq DOMAIN new
    BY DEF AlertsInv, AlertFields
  <2> HIDE DEF new
  <2>3. /\ Listed(alerts') /\ DOMAIN alerts' = DOMAIN alerts /\ Len(alerts') = Len(alerts)
        /\ \A a \in DOMAIN alerts : alerts'[a] = IF a = x THEN new ELSE alerts[a]
    BY <2>1, ListedWrite DEF AlertsInv
  <2>4. \A a \in DOMAIN alerts : /\ alerts'[a].severity = alerts[a].severity
                                 /\ AlertFields \subseteq DOMAIN alerts'[a]
    BY <2>2, <2>3 DEF AlertsInv
  <2>5. \A a \in DOMAIN alerts \ DOMAIN FixtureAlerts :
          AnnouncedAs(alerts'[a].severity, notices, a)
    BY <2>4 DEF AlertsInv
  <2> QED
    BY <2>1, <2>3, <2>4, <2>5 DEF AlertsInv
<1>2. CASE MarkRead(x)
  <2> DEFINE new == [notices[x] EXCEPT !.read = TRUE]
  <2>1. notices' = [notices EXCEPT ![x] = new] /\ alerts' = alerts
    BY <1>2 DEF MarkRead
  <2>2. x \in DOMAIN notices =>
          /\ new.alert = notices[x].alert /\ new.priority = notices[x].priority
          /\ new.attempts = notices[x].attempts /\ NoticeFields \subseteq DOMAIN new
    BY DEF AlertsInv, NoticeKept, NoticeFields
  <2> HIDE DEF new
  <2>3. /\ Listed(notices') /\ DOMAIN notices' = DOMAIN notices
        /\ \A n \in DOMAIN notices : notices'[n] = IF n = x THEN new ELSE notices[n]
    BY <2>1, ListedWrite DEF AlertsInv
  <2>4. \A n \in DOMAIN notices : /\ notices'[n].alert = notices[n].alert
                                  /\ notices'[n].priority = notices[n].priority
                                  /\ notices'[n].attempts = notices[n].attempts
                                  /\ NoticeFields \subseteq DOMAIN notices'[n]
    BY <2>2, <2>3 DEF AlertsInv, NoticeKept
  <2>5. \A n \in DOMAIN notices' : NoticeKept(notices'[n], Len(alerts'))
    BY <2>1, <2>3, <2>4 DEF AlertsInv, NoticeKept, TriedInOrder
  <2>6. \A a \in DOMAIN alerts \ DOMAIN FixtureAlerts :
          AnnouncedAs(alerts[a].severity, notices', a)
    BY <2>3, <2>4 DEF AlertsInv, AnnouncedAs, Announcing
  <2> QED
    BY <2>1, <2>3, <2>5, <2>6 DEF AlertsInv
<1>3. ASSUME NEW u, NEW type, NEW priority, NEW force, RouteDirectly(u, type, priority, force)
      PROVE  AlertsInv'
  <2>1. PICK notice : /\ notices' = Append(notices, notice)
                      /\ NoticeKept(notice, Len(alerts)) /\ notice.alert = NoRecord
    <3> DEFINE preference == PreferenceOf(u)
    <3> DEFINE quiet == force \/ QuietHoursActive(preference)
    <3> DEFINE notice == Routed(u, type, priority, NoRecord, preference, quiet)
    <3>1. notices' = Append(notices, notice) /\ NoRecord \in Nat
      BY <1>3 DEF RouteDirectly, Route, Routed, NoRecord
    <3> HIDE DEF preference, quiet
    <3>2. NoticeKept(notice, NoRecord) /\ notice.alert = NoRecord
      BY <3>1, RoutedFacts
    <3>3. NoticeKept(notice, Len(alerts))
      BY <1>0, <3>2 DEF NoticeKept, NoRecord
    <3> QED
      BY <3>1, <3>2, <3>3
  <2>2. /\ Listed(notices') /\ DOMAIN notices' = DOMAIN notices \cup {Len(notices) + 1}
        /\ notices'[Len(notices) + 1] = notice
        /\ \A n \in DOMAIN notices : notices'[n] = notices[n]
    BY <2>1, ListedAppend DEF AlertsInv
  <2>3. alerts' = alerts
    BY <1>3 DEF RouteDirectly
  <2>4. \A a \in DOMAIN alerts : Announcing(notices', a) = Announcing(notices, a)
    BY <1>0, <2>1, <2>2 DEF Announcing, NoRecord
  <2>5. \A a \in DOMAIN alerts \ DOMAIN FixtureAlerts :
          AnnouncedAs(alerts[a].severity, notices', a)
    BY <2>2, <2>4 DEF AlertsInv, AnnouncedAs
  <2> QED
    BY <2>1, <2>2, <2>3, <2>4, <2>5 DEF AlertsInv
<1> QED
  BY <1>1, <1>2, <1>3

LEMMA AlertsKeep ==
  ASSUME AlertsInv, AlertsCalls
  PROVE  AlertsInv'
<1>1. CASE UNCHANGED <<alerts, notices>>
  BY <1>1 DEF AlertsInv
<1> QED
  BY <1>1, IngestKeeps, OtherAlertsCallsKeep DEF AlertsCalls

LEMMA AlertsStart == ServicesInit => AlertsInv
<1> SUFFICES ASSUME ServicesInit
             PROVE  AlertsInv
  OBVIOUS
<1>1. alerts = FixtureAlerts /\ notices = FixtureNotices
  BY DEF ServicesInit, AlertsInit
<1>2. /\ Listed(FixtureAlerts) /\ DOMAIN FixtureAlerts = {1} /\ Len(FixtureAlerts) = 1
      /\ AlertFields \subseteq DOMAIN FixtureAlerts[1]
  <2> DEFINE first == [monitor |-> 1, mention |-> 2, severity |-> "critical", resolved |-> FALSE]
  <2>1. FixtureAlerts = <<first>> /\ AlertFields \subseteq DOMAIN first
    BY DEF FixtureAlerts, AlertFields
  <2> HIDE DEF first
  <2>2. <<first>> \in Seq({first})
    OBVIOUS
  <2>3. Listed(FixtureAlerts)
    BY <2>1, <2>2 DEF Listed
  <2> QED
    BY <2>1, <2>3
<1>3. /\ Listed(FixtureNotices) /\ DOMAIN FixtureNotices = {1, 2}
      /\ \A n \in {1, 2} : /\ NoticeFields \subseteq DOMAIN FixtureNotices[n]
                           /\ FixtureNotices[n].alert = 0
                           /\ FixtureNotices[n].priority # "critical"
                           /\ FixtureNotices[n].attempts = FixtureAttempts[n]
  <2> DEFINE first == [user |-> DemoUser, type |-> "approval_request", priority |-> "normal",
                       alert |-> NoRecord, read |-> FALSE, attempts |-> FixtureAttempts[1]]
  <2> DEFINE second == [user |-> DemoUser, type |-> "account_issue", priority |-> "high",
                        alert |-> NoRecord, read |-> FALSE, attempts |-> FixtureAttempts[2]]
  <2>1. FixtureNotices = <<first, second>>
    BY DEF FixtureNotices
  <2>2. /\ NoticeFields \subseteq DOMAIN first /\ NoticeFields \subseteq DOMAIN second
        /\ first.alert = 0 /\ first.priority = "normal" /\ first.attempts = FixtureAttempts[1]
        /\ second.alert = 0 /\ second.priority = "high" /\ second.attempts = FixtureAttempts[2]
    BY DEF NoticeFields, NoRecord
  <2> HIDE DEF first, second
  <2>3. <<first, second>> \in Seq({first, second})
    OBVIOUS
  <2>4. Listed(FixtureNotices)
    BY <2>1, <2>3 DEF Listed
  <2> QED
    BY <2>1, <2>2, <2>4
<1>4. /\ DOMAIN FixtureAttempts[1] = {"in_app"} /\ FixtureAttempts[1]["in_app"] = "sent"
      /\ DOMAIN FixtureAttempts[2] = {"email", "slack"} \cap ChannelNames
      /\ \A c \in DOMAIN FixtureAttempts[2] :
           FixtureAttempts[2][c] = IF c = "email" THEN "sent" ELSE "quiet"
  BY AlertsAssumption DEF FixtureAttempts, AlertsAssumption
<1>5. \A n \in {1, 2} : TriedInOrder(FixtureNotices[n])
  BY <1>3, <1>4, AlertsAssumption DEF TriedInOrder, AlertsAssumption
<1> QED
  BY <1>1, <1>2, <1>3, <1>5 DEF AlertsInv, NoticeKept

\* Every alert that a person should act on is announced once and with its urgency, whatever is
\* ingested, routed and muted meanwhile (listening.service.ts, createAlertForMention;
\* notifications.service.ts, route).
THEOREM AlertsReachSomebody == ServicesSpec => []AlertsAreAnnounced
<1>1. AlertsInv /\ [ServicesNext]_servicesVars => AlertsInv'
  BY WhoMoves, AlertsMove, AlertsKeep
<1>2. AlertsInv => AlertsAreAnnounced
  <2> SUFFICES ASSUME AlertsInv
               PROVE  AlertsAreAnnounced
    OBVIOUS
  <2>1. ASSUME NEW a \in DOMAIN alerts \ DOMAIN FixtureAlerts
        PROVE  IF alerts[a].severity = "info" THEN NoticesOf(a) = {}
               ELSE /\ Cardinality(NoticesOf(a)) = 1
                    /\ \A n \in NoticesOf(a) :
                         notices[n].priority = "critical" <=> alerts[a].severity = "critical"
    <3>1. AnnouncedAs(alerts[a].severity, notices, a)
      BY DEF AlertsInv
    <3> QED
      BY <3>1, FS_Singleton DEF AnnouncedAs, Announcing, NoticesOf
  <2>2. \A n \in DOMAIN notices : TriedInOrder(notices[n])
    BY DEF AlertsInv, NoticeKept
  <2> QED
    BY <2>1, <2>2 DEF AlertsAreAnnounced, TriedInOrder
<1> QED
  BY <1>1, <1>2, AlertsStart, PTL DEF ServicesSpec
-----------------------------------------------------------------------------
(* Content safety.  A check is made and, when it blocks, its item with it; *)
(* a call has no check until it is answered, and no other caller makes one *)
(* in its name.                                                            *)

Items(Q, k) == {q \in DOMAIN Q : Q[q].check = k}
ReviewedAs(status, Q, k) ==
  IF status = "blocked" THEN \E q : Items(Q, k) = {q} ELSE Items(Q, k) = {}

ChecksFor(K, c) == {k \in DOMAIN K : K[k].source = c}
CheckedAs(stage, K, c) ==
  IF stage = "answered" THEN \E k : ChecksFor(K, c) = {k} ELSE ChecksFor(K, c) = {}

\* An entry of the log tells whose check it is, and is blocked when that is.
LoggedAs(entry, K) ==
  /\ entry.check \in DOMAIN K
  /\ K[entry.check].source = entry.call
  /\ K[entry.check].status = "blocked" => entry.blocked

SafetyInv ==
  /\ Listed(checks) /\ Listed(queue)
  /\ \A q \in DOMAIN queue : {"check", "status"} \subseteq DOMAIN queue[q]
  /\ \A q \in DOMAIN queue : queue[q].check \in DOMAIN checks
  /\ \A k \in DOMAIN checks : ReviewedAs(checks[k].status, queue, k)

GenerationInv ==
  /\ SafetyInv
  /\ Listed(generations)
  /\ DOMAIN calls = Calls
  /\ \A c \in Calls : {"stage", "attempts"} \subseteq DOMAIN calls[c]
  /\ \A c \in Calls : CheckedAs(calls[c].stage, checks, c)
  /\ \A g \in DOMAIN generations : LoggedAs(generations[g], checks)

\* The services' methods as callers and the panel use them.
GenerationCalls ==
  \/ UNCHANGED generationVars
  \/ \E policy : CreatePolicy(policy)
  \/ \E text : Evaluate(text)
  \/ \E q, status : ResolveModerationItem(q, status)
  \/ \E vocabulary : UpdateVoice(vocabulary)
  \/ \E c \in Calls : Generate(c) \/ ProviderFails(c)
  \/ \E c \in Calls : \E text, voiced : ProviderAnswers(c, text, voiced)

LEMMA GenerationMoves ==
  ASSUME GenerationNext \/ SafetyPanel \/ UNCHANGED generationVars
  PROVE  GenerationCalls
<1>1. CASE GenerationNext
  BY <1>1 DEF GenerationNext, GenerationCalls
<1>2. CASE SafetyPanel
  BY <1>2 DEF SafetyPanel, evaluate, resolve, GenerationCalls
<1> QED
  BY <1>1, <1>2 DEF GenerationCalls

\* The log with one more entry and cut at its length: the entry is the newest still
\* (ai.service.ts, recordGeneration).
CutAt(cap, log) == IF Len(log) > cap THEN Tail(log) ELSE log

LEMMA CutLog ==
  ASSUME NEW list, Listed(list), NEW row, NEW cap \in Nat \ {0}
  PROVE  LET kept == CutAt(cap, Append(list, row))
         IN /\ Listed(kept)
            /\ kept[Len(kept)] = row
            /\ \A g \in DOMAIN kept :
                 kept[g] = row \/ \E h \in DOMAIN list : kept[g] = list[h]
<1>1. PICK S : list \in Seq(S) /\ row \in S
  BY ListedWith
<1> DEFINE log == Append(list, row)
<1> DEFINE kept == CutAt(cap, log)
<1>2. /\ log \in Seq(S) /\ Len(log) = Len(list) + 1 /\ Len(list) \in Nat
      /\ DOMAIN log = DOMAIN list \cup {Len(list) + 1}
      /\ DOMAIN list = 1 .. Len(list)
      /\ log[Len(list) + 1] = row
      /\ \A j \in DOMAIN list : log[j] = list[j]
  BY <1>1, AppendedTo
<1>3. kept = IF Len(log) > cap THEN Tail(log) ELSE log
  BY DEF CutAt
<1> SUFFICES /\ Listed(kept) /\ kept[Len(kept)] = row
             /\ \A g \in DOMAIN kept :
                  kept[g] = row \/ \E h \in DOMAIN list : kept[g] = list[h]
  OBVIOUS
<1> HIDE DEF log, kept
<1>4. CASE Len(log) > cap
  <2>1. /\ Tail(log) \in Seq(S) /\ Len(Tail(log)) = Len(list)
        /\ \A j \in 1 .. Len(list) : Tail(log)[j] = log[j + 1]
    BY <1>2, <1>4
  <2>2. kept = Tail(log) /\ Len(list) >= 1
    BY <1>2, <1>3, <1>4
  <2>3. DOMAIN kept = 1 .. Len(list)
    BY <1>2, <2>1, <2>2
  <2>4. ASSUME NEW g \in DOMAIN kept
        PROVE  kept[g] = row \/ \E h \in DOMAIN list : kept[g] = list[h]
    BY <1>2, <2>1, <2>2, <2>3
  <2>5. kept[Len(kept)] = row
    BY <1>2, <2>1, <2>2
  <2>6. kept \in Seq(S)
    BY <2>1, <2>2
  <2>7. Listed(kept)
    BY <2>6 DEF Listed
  <2> QED
    BY <2>4, <2>5, <2>7
<1>5. CASE ~(Len(log) > cap)
  <2>1. kept = log
    BY <1>3, <1>5
  <2>2. kept \in Seq(S)
    BY <1>2, <2>1
  <2>3. Listed(kept)
    BY <2>2 DEF Listed
  <2>4. DOMAIN kept = DOMAIN list \cup {Len(list) + 1}
    BY <1>2, <2>1
  <2>5. \A g \in DOMAIN kept : kept[g] = row \/ \E h \in DOMAIN list : kept[g] = list[h]
    BY <1>2, <2>1, <2>4
  <2> QED
    BY <1>2, <2>1, <2>3, <2>5
<1> QED
  BY <1>4, <1>5

\* What evaluateContent says of the checks and the queue (safety.service.ts).
LEMMA EvaluationKeeps ==
  ASSUME SafetyInv, NEW source, NEW text, EvaluateContent(source, text)
  PROVE  LET k == Len(checks) + 1
         IN /\ SafetyInv'
            /\ k \in DOMAIN checks'
            /\ checks'[k].source = source
            /\ checks'[k].status = CheckOf(source, text).status
            /\ \A j \in DOMAIN checks : j \in DOMAIN checks' /\ checks'[j] = checks[j]
            /\ ChecksFor(checks', source) = ChecksFor(checks, source) \cup {k}
            /\ \A c : c # source => ChecksFor(checks', c) = ChecksFor(checks, c)
<1> DEFINE check == CheckOf(source, text)
<1> DEFINE k == Len(checks) + 1
<1> DEFINE item == [check |-> k, status |-> "open"]
<1>0. check.source = source
  BY DEF CheckOf
<1>1. /\ checks' = Append(checks, check)
      /\ IF check.status = "blocked"
         THEN queue' = Append(queue, [check |-> Len(checks'), status |-> "open"])
         ELSE queue' = queue
  BY DEF EvaluateContent
<1>2. item.check = k /\ {"check", "status"} \subseteq DOMAIN item
  OBVIOUS
<1> HIDE DEF check, item
<1>3. /\ Listed(checks') /\ Len(checks') = k
      /\ DOMAIN checks' = DOMAIN checks \cup {k} /\ checks'[k] = check
      /\ \A j \in DOMAIN checks : checks'[j] = checks[j]
      /\ k \notin DOMAIN checks
  BY <1>1, ListedAppend, ListedLength DEF SafetyInv
<1>4. Items(queue, k) = {}
  BY <1>3 DEF SafetyInv, Items
<1>5. CASE check.status # "blocked"
  <2>1. queue' = queue
    BY <1>1, <1>5
  <2>2. \A j \in DOMAIN checks' : ReviewedAs(checks'[j].status, queue, j)
    BY <1>3, <1>4, <1>5 DEF SafetyInv, ReviewedAs
  <2>3. SafetyInv'
    BY <1>3, <2>1, <2>2 DEF SafetyInv
  <2> QED
    BY <1>0, <1>3, <2>3 DEF ChecksFor, check
<1>6. CASE check.status = "blocked"
  <2> DEFINE q == Len(queue) + 1
  <2>1. queue' = Append(queue, item)
    BY <1>1, <1>3, <1>6 DEF item
  <2>2. /\ Listed(queue') /\ DOMAIN queue' = DOMAIN queue \cup {q}
        /\ queue'[q] = item /\ q \notin DOMAIN queue
        /\ \A i \in DOMAIN queue : queue'[i] = queue[i]
    BY <2>1, ListedAppend, ListedLength DEF SafetyInv
  <2>3. /\ Items(queue', k) = {q}
        /\ \A j \in DOMAIN checks : Items(queue', j) = Items(queue, j)
    BY <1>2, <1>3, <1>4, <2>2 DEF Items
  <2>4. \A j \in DOMAIN checks' : ReviewedAs(checks'[j].status, queue', j)
    BY <1>3, <1>6, <2>3 DEF SafetyInv, ReviewedAs
  <2>5. \A i \in DOMAIN queue' : /\ {"check", "status"} \subseteq DOMAIN queue'[i]
                                 /\ queue'[i].check \in DOMAIN checks'
    BY <1>2, <1>3, <2>2 DEF SafetyInv
  <2>6. SafetyInv'
    BY <1>3, <2>2, <2>4, <2>5 DEF SafetyInv
  <2> QED
    BY <1>0, <1>3, <2>6 DEF ChecksFor, check
<1> QED
  BY <1>5, <1>6

\* A generation is answered by the newest policy there is.
JudgedNow ==
  \A c \in Calls : calls[c].stage = "waiting" /\ calls'[c].stage = "answered" =>
    LET entry == generations'[Len(generations')]
        newest == Len(policies)
    IN entry.call = c /\
       (RiskScore(entry.text, newest) >= policies[newest].maxRisk => entry.blocked)

LEMMA AnswerKeeps ==
  ASSUME GenerationInv, NEW c \in Calls, NEW text, NEW voiced, ProviderAnswers(c, text, voiced)
  PROVE  GenerationInv' /\ JudgedNow
<1> DEFINE check == CheckOf(c, text)
<1> DEFINE k == Len(checks) + 1
<1> DEFINE penalty == IF voiced /\ VoiceScore(text) < 75 THEN 12 ELSE 0
<1> DEFINE blocked == \/ check.status = "blocked"
                      \/ check.risk + penalty >= 75
                      \/ voiced /\ BannedTerms(text) # {}
<1> DEFINE entry == [call |-> c, provider |-> Trying(c), fallbackUsed |-> Failed(c),
                     text |-> text, blocked |-> blocked, check |-> k]
<1> DEFINE attempts == Append(calls[c].attempts, [provider |-> Trying(c), status |-> "succeeded"])
<1> DEFINE request == [calls[c] EXCEPT !.stage = "answered", !.attempts = attempts]
<1>1. /\ calls[c].stage = "waiting"
      /\ EvaluateContent(c, text)
      /\ calls' = [calls EXCEPT ![c] = request]
      /\ generations' = IF Len(Append(generations, entry)) > LogCap
                        THEN Tail(Append(generations, entry)) ELSE Append(generations, entry)
  BY DEF ProviderAnswers
<1>2. /\ entry.call = c /\ entry.text = text /\ entry.check = k
      /\ entry.blocked = blocked
  OBVIOUS
<1>3. check.status = "blocked" => blocked
  OBVIOUS
<1>4. RiskScore(text, Len(policies)) >= policies[Len(policies)].maxRisk => check.status = "blocked"
  BY DEF CheckOf, ActivePolicy
<1>5. request.stage = "answered" /\ {"stage", "attempts"} \subseteq DOMAIN request
  BY DEF GenerationInv
<1> HIDE DEF check, entry, blocked, request
<1>6. /\ SafetyInv'
      /\ k \in DOMAIN checks' /\ checks'[k].source = c /\ checks'[k].status = check.status
      /\ \A j \in DOMAIN checks : j \in DOMAIN checks' /\ checks'[j] = checks[j]
      /\ ChecksFor(checks', c) = ChecksFor(checks, c) \cup {k}
      /\ \A d : d # c => ChecksFor(checks', d) = ChecksFor(checks, d)
  BY <1>1, EvaluationKeeps DEF GenerationInv, check
<1>7. /\ Listed(generations')
      /\ generations'[Len(generations')] = entry
      /\ \A g \in DOMAIN generations' :
           generations'[g] = entry \/ \E h \in DOMAIN generations : generations'[g] = generations[h]
  <2>1. Listed(generations) /\ LogCap \in Nat \ {0}
    BY GenerationAssumption DEF GenerationInv, GenerationAssumption
  <2>2. generations' = CutAt(LogCap, Append(generations, entry))
    BY <1>1 DEF CutAt
  <2> DEFINE log == CutAt(LogCap, Append(generations, entry))
  <2>3. /\ Listed(log) /\ log[Len(log)] = entry
        /\ \A g \in DOMAIN log :
             log[g] = entry \/ \E h \in DOMAIN generations : log[g] = generations[h]
    BY <2>1, CutLog
  <2> HIDE DEF log
  <2>4. generations' = log
    BY <2>2 DEF log
  <2> QED
    BY <2>3, <2>4
<1>8. /\ DOMAIN calls' = Calls /\ calls'[c] = request
      /\ \A d \in Calls : d # c => calls'[d] = calls[d]
  BY <1>1 DEF GenerationInv
<1>9. ASSUME NEW g \in DOMAIN generations'
      PROVE  LoggedAs(generations'[g], checks')
  <2>1. LoggedAs(entry, checks')
    BY <1>2, <1>3, <1>6 DEF LoggedAs
  <2>2. \A h \in DOMAIN generations : LoggedAs(generations[h], checks')
    BY <1>6 DEF GenerationInv, LoggedAs
  <2> QED
    BY <1>7, <2>1, <2>2
<1>10. ASSUME NEW d \in Calls
       PROVE  CheckedAs(calls'[d].stage, checks', d)
  <2>1. CASE d = c
    <3>1. ChecksFor(checks, c) = {}
      BY <1>1 DEF GenerationInv, CheckedAs
    <3> QED
      BY <1>5, <1>6, <1>8, <2>1, <3>1 DEF CheckedAs
  <2>2. CASE d # c
    BY <1>6, <1>8, <2>2 DEF GenerationInv, CheckedAs
  <2> QED
    BY <2>1, <2>2
<1>11. GenerationInv'
  <2>1. \A d \in Calls : {"stage", "attempts"} \subseteq DOMAIN calls'[d]
    BY <1>5, <1>8 DEF GenerationInv
  <2> QED
    BY <1>6, <1>7, <1>8, <1>9, <1>10, <2>1 DEF GenerationInv
<1>12. JudgedNow
  <2>1. \A d \in Calls : calls[d].stage = "waiting" /\ calls'[d].stage = "answered" => d = c
    BY <1>8
  <2> QED
    BY <1>2, <1>3, <1>4, <1>7, <2>1 DEF JudgedNow
<1> QED
  BY <1>11, <1>12

LEMMA GenerationKeeps ==
  ASSUME GenerationInv, GenerationCalls
  PROVE  GenerationInv' /\ [JudgedNow]_generationVars
<1>1. CASE UNCHANGED generationVars
  BY <1>1 DEF generationVars, GenerationInv, SafetyInv
<1>2. ASSUME UNCHANGED <<calls, checks, queue, generations>>
      PROVE  GenerationInv' /\ JudgedNow
  <2>1. GenerationInv'
    BY <1>2 DEF GenerationInv, SafetyInv
  <2>2. JudgedNow
    BY <1>2 DEF JudgedNow
  <2> QED
    BY <2>1, <2>2
<1>3. ASSUME NEW text, Evaluate(text)
      PROVE  GenerationInv' /\ JudgedNow
  <2>1. EvaluateContent("manual", text) /\ UNCHANGED <<calls, generations>>
    BY <1>3 DEF Evaluate
  <2>2. /\ SafetyInv'
        /\ \A j \in DOMAIN checks : j \in DOMAIN checks' /\ checks'[j] = checks[j]
        /\ \A c : c # "manual" => ChecksFor(checks', c) = ChecksFor(checks, c)
    BY <2>1, EvaluationKeeps DEF GenerationInv
  <2>3. "manual" \notin Calls
    BY GenerationAssumption DEF GenerationAssumption
  <2>4. \A c \in Calls : CheckedAs(calls[c].stage, checks', c)
    BY <2>2, <2>3 DEF GenerationInv, CheckedAs
  <2>5. \A g \in DOMAIN generations : LoggedAs(generations[g], checks')
    BY <2>2 DEF GenerationInv, LoggedAs
  <2>6. GenerationInv'
    BY <2>1, <2>2, <2>4, <2>5 DEF GenerationInv
  <2>7. JudgedNow
    BY <2>1 DEF JudgedNow
  <2> QED
    BY <2>6, <2>7
<1>4. ASSUME NEW q, NEW status, ResolveModerationItem(q, status)
      PROVE  GenerationInv' /\ JudgedNow
  <2> DEFINE item == [queue[q] EXCEPT !.status = status]
  <2>1. queue' = [queue EXCEPT ![q] = item] /\ UNCHANGED <<calls, checks, generations>>
    BY <1>4 DEF ResolveModerationItem
  <2>2. q \in DOMAIN queue =>
          item.check = queue[q].check /\ {"check", "status"} \subseteq DOMAIN item
    BY DEF GenerationInv, SafetyInv
  <2> HIDE DEF item
  <2>3. /\ Listed(queue') /\ DOMAIN queue' = DOMAIN queue
        /\ \A i \in DOMAIN queue : queue'[i] = IF i = q THEN item ELSE queue[i]
    BY <2>1, ListedWrite DEF GenerationInv, SafetyInv
  <2>4. \A i \in DOMAIN queue : /\ queue'[i].check = queue[i].check
                                /\ {"check", "status"} \subseteq DOMAIN queue'[i]
    BY <2>2, <2>3 DEF GenerationInv, SafetyInv
  <2>5. \A k : Items(queue', k) = Items(queue, k)
    BY <2>3, <2>4 DEF Items
  <2>6. SafetyInv'
    BY <2>1, <2>3, <2>4, <2>5 DEF GenerationInv, SafetyInv, ReviewedAs
  <2>7. GenerationInv'
    BY <2>1, <2>6 DEF GenerationInv
  <2>8. JudgedNow
    BY <2>1 DEF JudgedNow
  <2> QED
    BY <2>7, <2>8
<1>5. ASSUME NEW c \in Calls, NEW request, {"stage", "attempts"} \subseteq DOMAIN request,
             calls' = [calls EXCEPT ![c] = request],
             request.stage = "waiting", calls[c].stage # "answered",
             UNCHANGED <<checks, queue, generations>>
      PROVE  GenerationInv' /\ JudgedNow
  <2>1. /\ DOMAIN calls' = Calls /\ calls'[c] = request
        /\ \A d \in Calls : d # c => calls'[d] = calls[d]
    BY <1>5 DEF GenerationInv
  <2>2. \A d \in Calls : CheckedAs(calls'[d].stage, checks, d)
    BY <1>5, <2>1 DEF GenerationInv, CheckedAs
  <2>3. \A d \in Calls : {"stage", "attempts"} \subseteq DOMAIN calls'[d]
    BY <1>5, <2>1 DEF GenerationInv
  <2>4. GenerationInv'
    BY <1>5, <2>1, <2>2, <2>3 DEF GenerationInv, SafetyInv
  <2>5. JudgedNow
    BY <1>5, <2>1 DEF JudgedNow
  <2> QED
    BY <2>4, <2>5
<1>6. ASSUME NEW c \in Calls, Generate(c)
      PROVE  GenerationInv' /\ JudgedNow
  <2> DEFINE attempts == IF IsConfigured(CandidateOrder[1]) THEN <<>>
                         ELSE << [provider |-> CandidateOrder[1], status |-> "skipped"] >>
  <2> DEFINE request == [stage |-> "waiting", attempts |-> attempts]
  <2>1. /\ calls[c].stage = "idle" /\ calls' = [calls EXCEPT ![c] = request]
        /\ UNCHANGED <<checks, queue, generations>>
    BY <1>6 DEF Generate
  <2>2. {"stage", "attempts"} \subseteq DOMAIN request /\ request.stage = "waiting"
    OBVIOUS
  <2> HIDE DEF request
  <2> QED
    BY <1>5, <2>1, <2>2
<1>7. ASSUME NEW c \in Calls, ProviderFails(c)
      PROVE  GenerationInv' /\ JudgedNow
  <2> DEFINE attempts == Append(calls[c].attempts, [provider |-> Trying(c), status |-> "failed"])
  <2> DEFINE request == [calls[c] EXCEPT !.attempts = attempts]
  <2>1. /\ calls[c].stage = "waiting" /\ calls' = [calls EXCEPT ![c] = request]
        /\ UNCHANGED <<checks, queue, generations>>
    BY <1>7 DEF ProviderFails
  <2>2. {"stage", "attempts"} \subseteq DOMAIN request /\ request.stage = "waiting"
    BY <2>1 DEF GenerationInv
  <2> HIDE DEF request
  <2> QED
    BY <1>5, <2>1, <2>2
<1>8. ASSUME NEW policy, CreatePolicy(policy)
      PROVE  GenerationInv' /\ JudgedNow
  BY <1>2, <1>8 DEF CreatePolicy
<1>9. ASSUME NEW vocabulary, UpdateVoice(vocabulary)
      PROVE  GenerationInv' /\ JudgedNow
  BY <1>2, <1>9 DEF UpdateVoice
<1> QED
  BY <1>1, <1>3, <1>4, <1>6, <1>7, <1>8, <1>9, AnswerKeeps DEF GenerationCalls

LEMMA GenerationStart == ServicesInit => GenerationInv
<1> SUFFICES ASSUME ServicesInit
             PROVE  GenerationInv
  OBVIOUS
<1>1. /\ calls = [c \in Calls |-> [stage |-> "idle", attempts |-> <<>>]]
      /\ checks = FixtureChecks /\ queue = FixtureQueue /\ generations = <<>>
  BY DEF ServicesInit, GenerationInit
<1>2. /\ Listed(FixtureChecks) /\ DOMAIN FixtureChecks = {1}
      /\ FixtureChecks[1].source = "demo" /\ FixtureChecks[1].status = "blocked"
  <2> DEFINE first == [source |-> "demo", policy |-> 1, risk |-> 92, status |-> "blocked"]
  <2>1. FixtureChecks = <<first>> /\ first.source = "demo" /\ first.status = "blocked"
    BY DEF FixtureChecks
  <2> HIDE DEF first
  <2>2. <<first>> \in Seq({first})
    OBVIOUS
  <2>3. Listed(FixtureChecks)
    BY <2>1, <2>2 DEF Listed
  <2> QED
    BY <2>1, <2>3
<1>3. /\ Listed(FixtureQueue) /\ DOMAIN FixtureQueue = {1} /\ FixtureQueue[1].check = 1
      /\ {"check", "status"} \subseteq DOMAIN FixtureQueue[1]
  <2> DEFINE first == [check |-> 1, status |-> "open"]
  <2>1. /\ FixtureQueue = <<first>> /\ first.check = 1
        /\ {"check", "status"} \subseteq DOMAIN first
    BY DEF FixtureQueue
  <2> HIDE DEF first
  <2>2. <<first>> \in Seq({first})
    OBVIOUS
  <2>3. Listed(FixtureQueue)
    BY <2>1, <2>2 DEF Listed
  <2> QED
    BY <2>1, <2>3
<1>4. Items(queue, 1) = {1}
  BY <1>1, <1>3 DEF Items
<1>5. SafetyInv
  BY <1>1, <1>2, <1>3, <1>4 DEF SafetyInv, ReviewedAs
<1>6. Listed(generations) /\ DOMAIN generations = {}
  <2>1. <<>> \in Seq({})
    OBVIOUS
  <2> QED
    BY <1>1, <2>1 DEF Listed
<1>7. \A c \in Calls : CheckedAs(calls[c].stage, checks, c)
  <2>1. "demo" \notin Calls
    BY GenerationAssumption DEF GenerationAssumption
  <2>2. \A c \in Calls : ChecksFor(checks, c) = {}
    BY <1>1, <1>2, <2>1 DEF ChecksFor
  <2> QED
    BY <1>1, <2>2 DEF CheckedAs
<1> QED
  BY <1>1, <1>5, <1>6, <1>7 DEF GenerationInv

\* A moderator sees everything that was blocked, once, whoever had it checked and however the
\* items were closed; and no generation is answered twice or by another one's check
\* (safety.service.ts, evaluateContent; ai.service.ts, generate).
THEOREM BlockedIsSeen == ServicesSpec => []BlockedIsReviewed
<1>1. GenerationInv /\ [ServicesNext]_servicesVars => GenerationInv'
  BY WhoMoves, GenerationMoves, GenerationKeeps
<1>2. GenerationInv => BlockedIsReviewed
  <2> SUFFICES ASSUME GenerationInv
               PROVE  BlockedIsReviewed
    OBVIOUS
  <2>1. ASSUME NEW k \in DOMAIN checks
        PROVE  Cardinality(ItemsOf(k)) = IF checks[k].status = "blocked" THEN 1 ELSE 0
    <3>1. ReviewedAs(checks[k].status, queue, k) /\ ItemsOf(k) = Items(queue, k)
      BY DEF GenerationInv, SafetyInv, ItemsOf, Items
    <3> QED
      BY <3>1, FS_Singleton, FS_EmptySet DEF ReviewedAs
  <2>2. ASSUME NEW c \in Calls
        PROVE  Cardinality({k \in DOMAIN checks : checks[k].source = c}) =
                 IF calls[c].stage = "answered" THEN 1 ELSE 0
    <3>1. /\ CheckedAs(calls[c].stage, checks, c)
          /\ {k \in DOMAIN checks : checks[k].source = c} = ChecksFor(checks, c)
      BY DEF GenerationInv, ChecksFor
    <3> QED
      BY <3>1, FS_Singleton, FS_EmptySet DEF CheckedAs
  <2> QED
    BY <2>1, <2>2 DEF GenerationInv, LoggedAs, BlockedIsReviewed
<1> QED
  BY <1>1, <1>2, GenerationStart, PTL DEF ServicesSpec

\* Nothing is let through that the newest policy blocks, whichever policies were made while the
\* providers were asked (safety.service.ts, activePolicy; ai.service.ts, generate).
THEOREM NewestPolicyJudges == ServicesSpec => JudgedByTheNewestPolicy
<1>1. GenerationInv /\ [ServicesNext]_servicesVars =>
        GenerationInv' /\ [JudgedNow]_generationVars
  BY WhoMoves, GenerationMoves, GenerationKeeps
<1>2. JudgedNow <=>
        \A c \in Calls : calls[c].stage = "waiting" /\ calls'[c].stage = "answered" =>
          LET entry == generations'[Len(generations')]
              newest == Len(policies)
          IN entry.call = c /\
             (RiskScore(entry.text, newest) >= policies[newest].maxRisk => entry.blocked)
  BY DEF JudgedNow
<1> QED
  BY <1>1, <1>2, GenerationStart, PTL DEF ServicesSpec, JudgedByTheNewestPolicy

-----------------------------------------------------------------------------
(* Accounts and consents.  A consent is consumed while it is pending and   *)
(* in time, and makes one account at most; an account is made with its     *)
(* bucket, so that it is found again and no second one is made.            *)

StateFields == {"platform", "scopes", "status", "expiresAt", "consumedAt"}
StateKept(state) ==
  /\ StateFields \subseteq DOMAIN state
  /\ state.status = "pending" => state.consumedAt = Never
  /\ state.consumedAt # Never =>
       state.status = "consumed" /\ state.consumedAt < state.expiresAt

Consumed(S, platform) ==
  {i \in DOMAIN S : S[i].platform = platform /\ S[i].status = "consumed"}
Granted(S, platform) == UNION {S[i].scopes : i \in Consumed(S, platform)}

AccountFields == {"platform", "user", "permissions", "status"}
SameUser(one, other) == one.platform = other.platform /\ one.user = other.user
NewOn(A, platform) == {a \in DOMAIN A \ DOMAIN FixtureAccounts : A[a].platform = platform}
Given(a) == IF a \in DOMAIN FixtureAccounts THEN FixtureAccounts[a].permissions ELSE {}
Permitted(account, a, S) ==
  account.permissions \subseteq Granted(S, account.platform) \cup Given(a)

BucketKept(bucket) ==
  /\ {"account", "limit", "remaining"} \subseteq DOMAIN bucket
  /\ bucket.limit \in Nat /\ bucket.remaining \in Nat /\ bucket.remaining <= bucket.limit
BucketsOf(B, a) == {b \in DOMAIN B : B[b].account = a}

\* The accounts and the buckets, and the consents behind them.
AccountsInv ==
  /\ Listed(accounts) /\ Listed(buckets)
  /\ \A a \in DOMAIN accounts : AccountFields \subseteq DOMAIN accounts[a]
  /\ \A a, b \in DOMAIN accounts : SameUser(accounts[a], accounts[b]) => a = b
  /\ \A b \in DOMAIN buckets : BucketKept(buckets[b]) /\ buckets[b].account \in DOMAIN accounts
  /\ \A a \in DOMAIN accounts : \E b : BucketsOf(buckets, a) = {b}

ConsentsInv ==
  /\ Listed(oauthStates)
  /\ \A i \in DOMAIN oauthStates : StateKept(oauthStates[i])
  /\ DOMAIN FixtureAccounts \subseteq DOMAIN accounts
  /\ \A a \in DOMAIN accounts : Permitted(accounts[a], a, oauthStates)
  /\ \A platform : Cardinality(NewOn(accounts, platform))
                     <= Cardinality(Consumed(oauthStates, platform))

ChannelsInv == AccountsInv /\ ConsentsInv

\* Places in a list are finitely many.
LEMMA PlacesAreFinite ==
  ASSUME NEW list, Listed(list), NEW T \in SUBSET DOMAIN list
  PROVE  IsFiniteSet(T) /\ Cardinality(T) \in Nat
<1>1. IsFiniteSet(1 .. Len(list))
  BY ListedLength, FS_Interval
<1>2. IsFiniteSet(T)
  BY <1>1, ListedLength, FS_Subset
<1> QED
  BY <1>2, FS_CardinalityType

\* Consents grant what they granted while the consumed ones are the same.
LEMMA ConsentsStand ==
  ASSUME NEW S, NEW T, DOMAIN S \subseteq DOMAIN T,
         \A i \in DOMAIN S : /\ T[i].platform = S[i].platform /\ T[i].scopes = S[i].scopes
                             /\ T[i].status = "consumed" <=> S[i].status = "consumed",
         \A i \in DOMAIN T \ DOMAIN S : T[i].status # "consumed"
  PROVE  \A platform : /\ Consumed(T, platform) = Consumed(S, platform)
                       /\ Granted(T, platform) = Granted(S, platform)
<1> TAKE platform
<1>1. Consumed(T, platform) = Consumed(S, platform)
  BY DEF Consumed
<1>2. \A i \in Consumed(S, platform) : T[i].scopes = S[i].scopes
  BY DEF Consumed
<1> QED
  BY <1>1, <1>2 DEF Granted

\* What is looked for is found (upsertRateLimitBucket, completeOAuth).
LEMMA BucketFacts ==
  ASSUME AccountsInv, NEW a
  PROVE  /\ a \in DOMAIN accounts => /\ BucketOf(a) \in DOMAIN buckets
                                     /\ buckets[BucketOf(a)].account = a
                                     /\ BucketOf(a) # NoRecord
         /\ a \notin DOMAIN accounts => BucketOf(a) = NoRecord /\ BucketsOf(buckets, a) = {}
<1>0. DOMAIN buckets = 1 .. Len(buckets) /\ Len(buckets) \in Nat
  BY ListedLength DEF AccountsInv
<1>1. CASE a \in DOMAIN accounts
  <2>1. PICK b : BucketsOf(buckets, a) = {b}
    BY <1>1 DEF AccountsInv
  <2>2. b \in DOMAIN buckets /\ buckets[b].account = a
    BY <2>1 DEF BucketsOf
  <2>3. \A j \in DOMAIN buckets : buckets[j].account = a => j <= b
    BY <1>0, <2>1 DEF BucketsOf
  <2>4. BucketOf(a) \in DOMAIN buckets /\ buckets[BucketOf(a)].account = a
    BY <2>2, <2>3 DEF BucketOf, Newest
  <2> QED
    BY <1>0, <1>1, <2>4 DEF NoRecord
<1>2. CASE a \notin DOMAIN accounts
  <2>1. \A b \in DOMAIN buckets : buckets[b].account # a
    BY <1>2 DEF AccountsInv
  <2> QED
    BY <1>2, <2>1 DEF BucketOf, Newest, BucketsOf
<1> QED
  BY <1>1, <1>2

LEMMA AccountFacts ==
  ASSUME AccountsInv, NEW platform, NEW user
  PROVE  LET found == AccountOf(platform, user)
         IN \/ /\ found = NoRecord
               /\ \A a \in DOMAIN accounts :
                    accounts[a].platform # platform \/ accounts[a].user # user
            \/ /\ found # NoRecord /\ found \in DOMAIN accounts
               /\ accounts[found].platform = platform /\ accounts[found].user = user
<1>0. DOMAIN accounts = 1 .. Len(accounts) /\ Len(accounts) \in Nat
  BY ListedLength DEF AccountsInv
<1> DEFINE Found(a) == accounts[a].platform = platform /\ accounts[a].user = user
<1>1. CASE \A a \in DOMAIN accounts : ~Found(a)
  BY <1>1 DEF AccountOf, Newest
<1>2. ASSUME NEW a \in DOMAIN accounts, Found(a)
      PROVE  /\ AccountOf(platform, user) \in DOMAIN accounts
             /\ Found(AccountOf(platform, user))
  <2>1. \A b \in DOMAIN accounts : Found(b) => b <= a
    BY <1>0, <1>2 DEF AccountsInv, SameUser
  <2> QED
    BY <1>2, <2>1 DEF AccountOf, Newest
<1>3. NoRecord \notin DOMAIN accounts
  BY <1>0 DEF NoRecord
<1> QED
  BY <1>1, <1>2, <1>3

\* A consent that is asked for or expires changes nothing that was granted (startOAuth, and
\* completeOAuth when it is too late).
LEMMA AskingKeeps ==
  ASSUME ChannelsInv,
         (\E platform, scopes : StartOAuth(platform, scopes)) \/ \E i \in DOMAIN oauthStates : Expire(i)
  PROVE  ChannelsInv'
<1>1. accounts' = accounts /\ buckets' = buckets
  BY DEF StartOAuth, Expire
<1>2. /\ Listed(oauthStates') /\ DOMAIN oauthStates \subseteq DOMAIN oauthStates'
      /\ \A i \in DOMAIN oauthStates :
           /\ oauthStates'[i].platform = oauthStates[i].platform
           /\ oauthStates'[i].scopes = oauthStates[i].scopes
           /\ oauthStates'[i].status = "consumed" <=> oauthStates[i].status = "consumed"
      /\ \A i \in DOMAIN oauthStates' \ DOMAIN oauthStates : oauthStates'[i].status # "consumed"
      /\ \A i \in DOMAIN oauthStates' : StateKept(oauthStates'[i])
  <2>1. ASSUME NEW platform, NEW scopes, StartOAuth(platform, scopes)
        PROVE  <1>2!:
    <3> DEFINE asked == IF scopes = {} THEN DefaultScopes(platform) ELSE scopes
    <3> DEFINE new == [platform |-> platform, scopes |-> asked, status |-> "pending",
                       expiresAt |-> now + ConsentTtl, consumedAt |-> Never]
    <3>1. oauthStates' = Append(oauthStates, new)
      BY <2>1 DEF StartOAuth
    <3> HIDE DEF asked
    <3>2. StateKept(new) /\ new.status = "pending"
      BY DEF StateKept, StateFields
    <3> HIDE DEF new
    <3>3. /\ Listed(oauthStates')
          /\ DOMAIN oauthStates' = DOMAIN oauthStates \cup {Len(oauthStates) + 1}
          /\ oauthStates'[Len(oauthStates) + 1] = new
          /\ \A i \in DOMAIN oauthStates : oauthStates'[i] = oauthStates[i]
      BY <3>1, ListedAppend DEF ChannelsInv, ConsentsInv
    <3> QED
      BY <3>2, <3>3 DEF ChannelsInv, ConsentsInv
  <2>2. ASSUME NEW i \in DOMAIN oauthStates, Expire(i)
        PROVE  <1>2!:
    <3> DEFINE new == [oauthStates[i] EXCEPT !.status = "expired"]
    <3>1. oauthStates' = [oauthStates EXCEPT ![i] = new] /\ oauthStates[i].status = "pending"
      BY <2>2 DEF Expire
    <3>2. StateKept(oauthStates[i])
      BY DEF ChannelsInv, ConsentsInv
    <3>3. /\ StateFields \subseteq DOMAIN new
          /\ new.platform = oauthStates[i].platform /\ new.scopes = oauthStates[i].scopes
          /\ new.status = "expired" /\ new.consumedAt = oauthStates[i].consumedAt
      BY <3>2 DEF StateKept, StateFields
    <3> HIDE DEF new
    <3>4. StateKept(new)
      BY <3>1, <3>2, <3>3 DEF StateKept
    <3>5. /\ Listed(oauthStates') /\ DOMAIN oauthStates' = DOMAIN oauthStates
          /\ \A j \in DOMAIN oauthStates :
               oauthStates'[j] = IF j = i THEN new ELSE oauthStates[j]
      BY <3>1, ListedWrite DEF ChannelsInv, ConsentsInv
    <3> QED
      BY <3>1, <3>3, <3>4, <3>5 DEF ChannelsInv, ConsentsInv
  <2> QED
    BY <2>1, <2>2
<1>3. \A platform : /\ Consumed(oauthStates', platform) = Consumed(oauthStates, platform)
                    /\ Granted(oauthStates', platform) = Granted(oauthStates, platform)
  BY <1>2, ConsentsStand
<1>4. AccountsInv'
  BY <1>1 DEF ChannelsInv, AccountsInv
<1>5. \A a \in DOMAIN accounts : Permitted(accounts[a], a, oauthStates')
  BY <1>3 DEF ChannelsInv, ConsentsInv, Permitted
<1>6. ConsentsInv'
  BY <1>1, <1>2, <1>3, <1>5 DEF ChannelsInv, ConsentsInv
<1> QED
  BY <1>4, <1>6 DEF ChannelsInv

\* refreshToken: an account's bucket is filled up to three quarters.
LEMMA RefreshKeeps ==
  ASSUME ChannelsInv, NEW a \in DOMAIN accounts, RefreshToken(a)
  PROVE  ChannelsInv'
<1> DEFINE b == BucketOf(a)
<1> DEFINE floor == (3 * buckets[b].limit) \div 4
<1> DEFINE filled == IF buckets[b].remaining >= floor THEN buckets[b].remaining ELSE floor
<1> DEFINE bucket == [buckets[b] EXCEPT !.remaining = filled]
<1> DEFINE account == [accounts[a] EXCEPT !.status = "connected"]
<1>1. /\ b \in DOMAIN buckets /\ buckets[b].account = a /\ b # NoRecord
      /\ BucketKept(buckets[b])
  BY BucketFacts DEF ChannelsInv, AccountsInv
<1>2. /\ accounts' = [accounts EXCEPT ![a] = account]
      /\ buckets' = [buckets EXCEPT ![b] = bucket]
      /\ oauthStates' = oauthStates
  BY <1>1 DEF RefreshToken, UpsertBucket
<1>3. filled \in Nat /\ filled <= buckets[b].limit
  BY <1>1 DEF BucketKept
<1> HIDE DEF filled
<1>4. BucketKept(bucket) /\ bucket.account = a
  BY <1>1, <1>3 DEF BucketKept
<1>5. /\ AccountFields \subseteq DOMAIN account
      /\ account.platform = accounts[a].platform /\ account.user = accounts[a].user
      /\ account.permissions = accounts[a].permissions
  BY DEF ChannelsInv, AccountsInv, AccountFields
<1> HIDE DEF bucket, account, b
<1>6. /\ Listed(accounts') /\ DOMAIN accounts' = DOMAIN accounts
      /\ \A j \in DOMAIN accounts : accounts'[j] = IF j = a THEN account ELSE accounts[j]
  BY <1>2, ListedWrite DEF ChannelsInv, AccountsInv
<1>7. /\ Listed(buckets') /\ DOMAIN buckets' = DOMAIN buckets
      /\ \A j \in DOMAIN buckets : buckets'[j] = IF j = b THEN bucket ELSE buckets[j]
  BY <1>2, ListedWrite DEF ChannelsInv, AccountsInv
<1>8. /\ \A j \in DOMAIN accounts : /\ accounts'[j].platform = accounts[j].platform
                                    /\ accounts'[j].user = accounts[j].user
                                    /\ accounts'[j].permissions = accounts[j].permissions
                                    /\ AccountFields \subseteq DOMAIN accounts'[j]
      /\ \A j \in DOMAIN buckets : /\ buckets'[j].account = buckets[j].account
                                   /\ BucketKept(buckets'[j])
  BY <1>1, <1>4, <1>5, <1>6, <1>7 DEF ChannelsInv, AccountsInv
<1>9. \A c : BucketsOf(buckets', c) = BucketsOf(buckets, c)
  BY <1>7, <1>8 DEF BucketsOf
<1>10. AccountsInv'
  <2>1. \A c, d \in DOMAIN accounts' : SameUser(accounts'[c], accounts'[d]) => c = d
    BY <1>6, <1>8 DEF ChannelsInv, AccountsInv, SameUser
  <2> QED
    BY <1>6, <1>7, <1>8, <1>9, <2>1 DEF ChannelsInv, AccountsInv
<1>11. ConsentsInv'
  <2>1. \A platform : NewOn(accounts', platform) = NewOn(accounts, platform)
    BY <1>6, <1>8 DEF NewOn
  <2>2. \A c \in DOMAIN accounts : Permitted(accounts'[c], c, oauthStates)
    BY <1>8 DEF ChannelsInv, ConsentsInv, Permitted
  <2> QED
    BY <1>2, <1>6, <2>1, <2>2 DEF ChannelsInv, ConsentsInv
<1> QED
  BY <1>10, <1>11 DEF ChannelsInv

\* What a consumed consent does to the accounts and their buckets.
LEMMA ConnectKeeps ==
  ASSUME ChannelsInv, NEW i \in DOMAIN oauthStates, NEW user, Connect(i, user)
  PROVE  /\ AccountsInv'
         /\ DOMAIN accounts \subseteq DOMAIN accounts'
         /\ \A a \in DOMAIN accounts' :
              accounts'[a].permissions \subseteq
                (IF a \in DOMAIN accounts THEN accounts[a].permissions ELSE {})
                  \cup (IF accounts'[a].platform = oauthStates[i].platform
                        THEN oauthStates[i].scopes ELSE {})
         /\ \A a \in DOMAIN accounts : accounts'[a].platform = accounts[a].platform
         /\ \/ DOMAIN accounts' = DOMAIN accounts
            \/ \E k : /\ k \notin DOMAIN accounts /\ DOMAIN accounts' = DOMAIN accounts \cup {k}
                      /\ accounts'[k].platform = oauthStates[i].platform
<1> DEFINE state == oauthStates[i]
<1> DEFINE found == AccountOf(state.platform, user)
<1>0. AccountsInv
  BY DEF ChannelsInv
<1>1. CASE found = NoRecord
  <2> DEFINE k == Len(accounts) + 1
  <2> DEFINE account == [platform |-> state.platform, user |-> user,
                         permissions |-> state.scopes, status |-> "connected"]
  <2> DEFINE bucket == [account |-> k, limit |-> RateLimitDefaults(state.platform).limit,
                        remaining |-> RateLimitDefaults(state.platform).remaining]
  <2>1. k \notin DOMAIN accounts
    BY <1>0, ListedLength DEF AccountsInv
  <2>2. BucketOf(k) = NoRecord /\ BucketsOf(buckets, k) = {}
    BY <1>0, <2>1, BucketFacts
  <2>3. /\ accounts' = Append(accounts, account)
        /\ buckets' = Append(buckets, bucket)
    BY <1>1, <2>2 DEF Connect, UpsertBucket
  <2>4. /\ AccountFields \subseteq DOMAIN account
        /\ account.platform = state.platform /\ account.user = user
        /\ account.permissions = state.scopes
    BY DEF AccountFields
  <2>5. BucketKept(bucket) /\ bucket.account = k
    <3>1. /\ RateLimitDefaults(state.platform).limit \in Nat
          /\ RateLimitDefaults(state.platform).remaining \in Nat
          /\ RateLimitDefaults(state.platform).remaining
               <= RateLimitDefaults(state.platform).limit
      BY DEF RateLimitDefaults
    <3> QED
      BY <3>1 DEF BucketKept
  <2> HIDE DEF account, bucket, state
  <2>6. /\ Listed(accounts') /\ DOMAIN accounts' = DOMAIN accounts \cup {k}
        /\ accounts'[k] = account
        /\ \A a \in DOMAIN accounts : accounts'[a] = accounts[a]
    BY <1>0, <2>3, ListedAppend DEF AccountsInv
  <2> DEFINE n == Len(buckets) + 1
  <2>7. /\ Listed(buckets') /\ DOMAIN buckets' = DOMAIN buckets \cup {n}
        /\ buckets'[n] = bucket /\ n \notin DOMAIN buckets
        /\ \A b \in DOMAIN buckets : buckets'[b] = buckets[b]
    BY <1>0, <2>3, ListedAppend, ListedLength DEF AccountsInv
  <2>8. \A a \in DOMAIN accounts :
          accounts[a].platform # state.platform \/ accounts[a].user # user
    BY <1>0, <1>1, AccountFacts DEF state
  <2> HIDE DEF k, n
  <2>9. \A a, b \in DOMAIN accounts' : SameUser(accounts'[a], accounts'[b]) => a = b
    BY <1>0, <2>4, <2>6, <2>8 DEF AccountsInv, SameUser
  <2>10. /\ BucketsOf(buckets', k) = {n}
         /\ \A a \in DOMAIN accounts : BucketsOf(buckets', a) = BucketsOf(buckets, a)
    BY <2>1, <2>2, <2>5, <2>7 DEF BucketsOf
  <2>11. \A b \in DOMAIN buckets' : /\ BucketKept(buckets'[b])
                                    /\ buckets'[b].account \in DOMAIN accounts'
    BY <1>0, <2>5, <2>6, <2>7 DEF AccountsInv
  <2>12. /\ \A a \in DOMAIN accounts' : AccountFields \subseteq DOMAIN accounts'[a]
         /\ \A a \in DOMAIN accounts' : \E b : BucketsOf(buckets', a) = {b}
    BY <1>0, <2>4, <2>6, <2>10 DEF AccountsInv
  <2>13. AccountsInv'
    BY <2>6, <2>7, <2>9, <2>11, <2>12 DEF AccountsInv
  <2> QED
    BY <2>1, <2>4, <2>6, <2>13 DEF state
<1>2. CASE found # NoRecord
  <2> DEFINE permissions == accounts[found].permissions \cup state.scopes
  <2> DEFINE account == [accounts[found] EXCEPT !.permissions = permissions,
                                                !.status = "connected"]
  <2>1. /\ found \in DOMAIN accounts /\ accounts[found].platform = state.platform
        /\ accounts[found].user = user
    BY <1>0, <1>2, AccountFacts
  <2>2. BucketOf(found) # NoRecord
    BY <1>0, <2>1, BucketFacts
  <2>3. accounts' = [accounts EXCEPT ![found] = account] /\ buckets' = buckets
    BY <1>2, <2>2 DEF Connect, UpsertBucket
  <2>4. /\ AccountFields \subseteq DOMAIN account
        /\ account.platform = state.platform /\ account.user = user
        /\ account.permissions = permissions
    BY <1>0, <2>1 DEF AccountsInv, AccountFields
  <2> HIDE DEF account, found
  <2>5. /\ Listed(accounts') /\ DOMAIN accounts' = DOMAIN accounts
        /\ \A a \in DOMAIN accounts :
             accounts'[a] = IF a = found THEN account ELSE accounts[a]
    BY <1>0, <2>3, ListedWrite DEF AccountsInv
  <2>6. \A a \in DOMAIN accounts : /\ accounts'[a].platform = accounts[a].platform
                                   /\ accounts'[a].user = accounts[a].user
                                   /\ AccountFields \subseteq DOMAIN accounts'[a]
    BY <1>0, <2>1, <2>4, <2>5 DEF AccountsInv
  <2>7. \A a, b \in DOMAIN accounts' : SameUser(accounts'[a], accounts'[b]) => a = b
    BY <1>0, <2>5, <2>6 DEF AccountsInv, SameUser
  <2>8. AccountsInv'
    BY <1>0, <2>3, <2>5, <2>6, <2>7 DEF AccountsInv
  <2> QED
    BY <2>1, <2>4, <2>5, <2>6, <2>8
<1> QED
  BY <1>1, <1>2

\* A callback in time (completeOAuth): its consent is consumed, and counts for the account that it
\* may have made.
LEMMA CallbackKeeps ==
  ASSUME ChannelsInv, NEW i \in DOMAIN oauthStates, NEW user, CompleteOAuth(i, user)
  PROVE  ChannelsInv'
<1> DEFINE state == oauthStates[i]
<1> DEFINE new == [oauthStates[i] EXCEPT !.status = "consumed", !.consumedAt = now]
<1>1. /\ state.status = "pending" /\ now < state.expiresAt
      /\ oauthStates' = [oauthStates EXCEPT ![i] = new]
      /\ Connect(i, user)
  BY DEF CompleteOAuth
<1>2. /\ AccountsInv'
      /\ DOMAIN accounts \subseteq DOMAIN accounts'
      /\ \A a \in DOMAIN accounts' :
           accounts'[a].permissions \subseteq
             (IF a \in DOMAIN accounts THEN accounts[a].permissions ELSE {})
               \cup (IF accounts'[a].platform = state.platform THEN state.scopes ELSE {})
      /\ \A a \in DOMAIN accounts : accounts'[a].platform = accounts[a].platform
      /\ \/ DOMAIN accounts' = DOMAIN accounts
         \/ \E k : /\ k \notin DOMAIN accounts /\ DOMAIN accounts' = DOMAIN accounts \cup {k}
                   /\ accounts'[k].platform = state.platform
  BY <1>1, ConnectKeeps
<1>3. StateKept(state)
  BY DEF ChannelsInv, ConsentsInv
<1>4. /\ StateFields \subseteq DOMAIN new
      /\ new.platform = state.platform /\ new.scopes = state.scopes
      /\ new.expiresAt = state.expiresAt
      /\ new.status = "consumed" /\ new.consumedAt = now
  BY <1>3 DEF StateKept, StateFields
<1> HIDE DEF new
<1>5. StateKept(new)
  BY <1>1, <1>4 DEF StateKept
<1>6. /\ Listed(oauthStates') /\ DOMAIN oauthStates' = DOMAIN oauthStates
      /\ \A j \in DOMAIN oauthStates :
           oauthStates'[j] = IF j = i THEN new ELSE oauthStates[j]
  BY <1>1, ListedWrite DEF ChannelsInv, ConsentsInv
<1>7. /\ i \notin Consumed(oauthStates, state.platform)
      /\ \A platform : Consumed(oauthStates', platform) =
           IF platform = state.platform THEN Consumed(oauthStates, platform) \cup {i}
                                        ELSE Consumed(oauthStates, platform)
  BY <1>1, <1>4, <1>6 DEF Consumed
<1>8. \A platform :
        /\ Granted(oauthStates, platform) \subseteq Granted(oauthStates', platform)
        /\ platform = state.platform => state.scopes \subseteq Granted(oauthStates', platform)
  <2>1. \A j \in DOMAIN oauthStates : oauthStates'[j].scopes = oauthStates[j].scopes
    BY <1>4, <1>6
  <2>2. \A platform : \A j \in Consumed(oauthStates', platform) :
          oauthStates'[j].scopes \subseteq Granted(oauthStates', platform)
    BY DEF Granted
  <2>3. \A platform : Consumed(oauthStates, platform) \subseteq Consumed(oauthStates', platform)
    BY <1>7
  <2>4. \A platform : \A j \in Consumed(oauthStates, platform) : j \in DOMAIN oauthStates
    BY DEF Consumed
  <2>5. i \in Consumed(oauthStates', state.platform)
    BY <1>7
  <2>6. \A platform : Granted(oauthStates, platform) \subseteq Granted(oauthStates', platform)
    BY <2>1, <2>2, <2>3, <2>4 DEF Granted
  <2> QED
    BY <2>1, <2>2, <2>5, <2>6
<1>9. ASSUME NEW a \in DOMAIN accounts'
      PROVE  Permitted(accounts'[a], a, oauthStates')
  <2>1. CASE a \in DOMAIN accounts
    <3>1. accounts[a].permissions \subseteq Granted(oauthStates, accounts[a].platform) \cup Given(a)
      BY <2>1 DEF ChannelsInv, ConsentsInv, Permitted
    <3> QED
      BY <1>2, <1>8, <2>1, <3>1 DEF Permitted
  <2>2. CASE a \notin DOMAIN accounts
    BY <1>2, <1>8, <2>2 DEF Permitted
  <2> QED
    BY <2>1, <2>2
<1>10. ASSUME NEW platform
       PROVE  Cardinality(NewOn(accounts', platform))
                <= Cardinality(Consumed(oauthStates', platform))
  <2> DEFINE A == NewOn(accounts, platform)
  <2> DEFINE C == Consumed(oauthStates, platform)
  <2>1. /\ IsFiniteSet(A) /\ Cardinality(A) \in Nat
        /\ IsFiniteSet(C) /\ Cardinality(C) \in Nat
        /\ Cardinality(A) <= Cardinality(C)
    <3>1. A \in SUBSET DOMAIN accounts /\ C \in SUBSET DOMAIN oauthStates
      BY DEF NewOn, Consumed
    <3>2. Listed(accounts) /\ Listed(oauthStates) /\ Cardinality(A) <= Cardinality(C)
      BY DEF ChannelsInv, AccountsInv, ConsentsInv
    <3> HIDE DEF A, C
    <3> QED
      BY <3>1, <3>2, PlacesAreFinite
  <2>2. /\ platform # state.platform => NewOn(accounts', platform) = A
        /\ NewOn(accounts', platform) = A \/ \E k : NewOn(accounts', platform) = A \cup {k}
    <3>1. DOMAIN FixtureAccounts \subseteq DOMAIN accounts
      BY DEF ChannelsInv, ConsentsInv
    <3>2. CASE DOMAIN accounts' = DOMAIN accounts
      BY <1>2, <3>2 DEF NewOn
    <3>3. ASSUME NEW k, k \notin DOMAIN accounts, DOMAIN accounts' = DOMAIN accounts \cup {k},
                 accounts'[k].platform = state.platform
          PROVE  NewOn(accounts', platform) =
                   IF platform = state.platform THEN A \cup {k} ELSE A
      BY <1>2, <3>1, <3>3 DEF NewOn
    <3> HIDE DEF A
    <3> QED
      BY <1>2, <3>2, <3>3
  <2>3. /\ platform # state.platform => Consumed(oauthStates', platform) = C
        /\ platform = state.platform => Consumed(oauthStates', platform) = C \cup {i} /\ i \notin C
    BY <1>7
  <2> HIDE DEF A, C
  <2>4. \A k : /\ Cardinality(A \cup {k}) \in {Cardinality(A), Cardinality(A) + 1}
               /\ i \notin C => Cardinality(C \cup {i}) = Cardinality(C) + 1
    <3>1. ASSUME NEW k
          PROVE  Cardinality(A \cup {k}) \in {Cardinality(A), Cardinality(A) + 1}
      BY <2>1, FS_AddElement
    <3>2. i \notin C => Cardinality(C \cup {i}) = Cardinality(C) + 1
      BY <2>1, FS_AddElement
    <3> QED
      BY <2>1, <3>1, <3>2
  <2>5. CASE platform # state.platform
    BY <2>1, <2>2, <2>3, <2>5
  <2>6. CASE platform = state.platform
    <3>1. Cardinality(Consumed(oauthStates', platform)) = Cardinality(C) + 1
      BY <2>3, <2>4, <2>6
    <3>2. Cardinality(NewOn(accounts', platform)) \in {Cardinality(A), Cardinality(A) + 1}
      <4>1. CASE NewOn(accounts', platform) = A
        BY <4>1
      <4>2. ASSUME NEW k, NewOn(accounts', platform) = A \cup {k}
            PROVE  Cardinality(NewOn(accounts', platform)) \in {Cardinality(A), Cardinality(A) + 1}
        <5>1. Cardinality(A \cup {k}) \in {Cardinality(A), Cardinality(A) + 1}
          BY <2>4
        <5> QED
          BY <4>2, <5>1
      <4> QED
        BY <2>2, <4>1, <4>2
    <3> QED
      BY <2>1, <3>1, <3>2
  <2> QED
    BY <2>5, <2>6
<1>11. ConsentsInv'
  <2>1. DOMAIN FixtureAccounts \subseteq DOMAIN accounts'
    BY <1>2 DEF ChannelsInv, ConsentsInv
  <2>2. \A j \in DOMAIN oauthStates' : StateKept(oauthStates'[j])
    BY <1>5, <1>6 DEF ChannelsInv, ConsentsInv
  <2> QED
    BY <1>6, <1>9, <1>10, <2>1, <2>2 DEF ConsentsInv
<1> QED
  BY <1>2, <1>11 DEF ChannelsInv

LEMMA ChannelsKeep ==
  ASSUME ChannelsInv, ChannelsNext \/ UNCHANGED channelsVars
  PROVE  ChannelsInv'
<1>1. CASE UNCHANGED channelsVars
  BY <1>1 DEF channelsVars, ChannelsInv, AccountsInv, ConsentsInv
<1> QED
  BY <1>1, AskingKeeps, RefreshKeeps, CallbackKeeps DEF ChannelsNext

\* A list of accounts of networks that are all different, and two such lists joined.
PlatformsOf(list) == {list[a].platform : a \in DOMAIN list}
Apart(list) == \A a, b \in DOMAIN list : list[a].platform = list[b].platform => a = b

LEMMA JoinedApart ==
  ASSUME NEW S, NEW f \in Seq(S), NEW t \in Seq(S),
         Apart(f), Apart(t), PlatformsOf(f) \cap PlatformsOf(t) = {}
  PROVE  /\ f \o t \in Seq(S) /\ Apart(f \o t)
         /\ PlatformsOf(f \o t) \subseteq PlatformsOf(f) \cup PlatformsOf(t)
<1> DEFINE joined == f \o t
<1>1. /\ joined \in Seq(S) /\ Len(joined) = Len(f) + Len(t)
      /\ \A i \in 1 .. Len(f) + Len(t) :
           joined[i] = IF i <= Len(f) THEN f[i] ELSE t[i - Len(f)]
  OBVIOUS
<1>2. /\ Len(f) \in Nat /\ DOMAIN f = 1 .. Len(f)
      /\ Len(t) \in Nat /\ DOMAIN t = 1 .. Len(t)
      /\ DOMAIN joined = 1 .. Len(f) + Len(t)
  BY <1>1
<1> HIDE DEF joined
<1>3. ASSUME NEW i \in DOMAIN joined
      PROVE  IF i <= Len(f) THEN i \in DOMAIN f /\ joined[i] = f[i]
                            ELSE i - Len(f) \in DOMAIN t /\ joined[i] = t[i - Len(f)]
  BY <1>1, <1>2
<1>4. \A i \in DOMAIN f, k \in DOMAIN t : f[i].platform # t[k].platform
  BY DEF PlatformsOf
<1>5. Apart(joined)
  <2> SUFFICES ASSUME NEW a \in DOMAIN joined, NEW b \in DOMAIN joined,
                      joined[a].platform = joined[b].platform
               PROVE  a = b
    BY DEF Apart
  <2>1. CASE a <= Len(f) /\ b <= Len(f)
    BY <1>3, <2>1 DEF Apart
  <2>2. CASE ~(a <= Len(f)) /\ ~(b <= Len(f))
    <3>1. a - Len(f) = b - Len(f)
      BY <1>3, <2>2 DEF Apart
    <3> QED
      BY <1>2, <3>1
  <2>3. CASE (a <= Len(f)) # (b <= Len(f))
    BY <1>3, <1>4, <2>3
  <2> QED
    BY <2>1, <2>2, <2>3
<1>6. PlatformsOf(joined) \subseteq PlatformsOf(f) \cup PlatformsOf(t)
  BY <1>3 DEF PlatformsOf
<1> QED
  BY <1>1, <1>5, <1>6 DEF joined

LEMMA OneOnNetwork ==
  ASSUME NEW S, NEW row \in S
  PROVE  /\ OnNetwork(row) \in Seq(S) /\ Apart(OnNetwork(row))
         /\ PlatformsOf(OnNetwork(row)) \subseteq {row.platform}
<1>1. /\ <<row>> \in Seq(S) /\ DOMAIN <<row>> = {1} /\ <<row>>[1] = row
      /\ <<>> \in Seq(S) /\ DOMAIN <<>> = {}
  OBVIOUS
<1>2. OnNetwork(row) = <<row>> \/ OnNetwork(row) = <<>>
  BY DEF OnNetwork
<1>3. CASE OnNetwork(row) = <<row>>
  BY <1>1, <1>3 DEF Apart, PlatformsOf
<1>4. CASE OnNetwork(row) = <<>>
  BY <1>1, <1>4 DEF Apart, PlatformsOf
<1> QED
  BY <1>2, <1>3, <1>4

\* The fixtures' accounts, whichever of their networks there are.
LEMMA FixtureAccountsAre ==
  /\ Listed(FixtureAccounts)
  /\ \A a \in DOMAIN FixtureAccounts :
       /\ AccountFields \subseteq DOMAIN FixtureAccounts[a]
       /\ FixtureAccounts[a].platform \in {"instagram", "linkedin", "x"}
  /\ \A a, b \in DOMAIN FixtureAccounts :
       SameUser(FixtureAccounts[a], FixtureAccounts[b]) => a = b
<1> DEFINE demo == [from |-> "caller", id |-> 1]
<1> DEFINE first == [platform |-> "instagram", user |-> demo, status |-> "connected",
                     permissions |-> {"publish", "insights", "comments"}]
<1> DEFINE second == [platform |-> "linkedin", user |-> demo, status |-> "connected",
                      permissions |-> {"publish", "insights", "comments"}]
<1> DEFINE third == [platform |-> "x", user |-> demo, status |-> "expired",
                     permissions |-> {"publish", "insights"}]
<1> DEFINE S == {first, second, third}
<1> DEFINE two == OnNetwork(first) \o OnNetwork(second)
<1> DEFINE F == two \o OnNetwork(third)
<1>1. FixtureAccounts = F
  BY DEF FixtureAccounts
<1>2. /\ first.platform = "instagram" /\ AccountFields \subseteq DOMAIN first
      /\ second.platform = "linkedin" /\ AccountFields \subseteq DOMAIN second
      /\ third.platform = "x" /\ AccountFields \subseteq DOMAIN third
  BY DEF AccountFields
<1>3. first \in S /\ second \in S /\ third \in S
  OBVIOUS
<1>4. \A row \in S : /\ AccountFields \subseteq DOMAIN row
                     /\ row.platform \in {"instagram", "linkedin", "x"}
  BY <1>2
<1> HIDE DEF first, second, third, S
<1>5. /\ OnNetwork(first) \in Seq(S) /\ Apart(OnNetwork(first))
      /\ PlatformsOf(OnNetwork(first)) \subseteq {"instagram"}
      /\ OnNetwork(second) \in Seq(S) /\ Apart(OnNetwork(second))
      /\ PlatformsOf(OnNetwork(second)) \subseteq {"linkedin"}
      /\ OnNetwork(third) \in Seq(S) /\ Apart(OnNetwork(third))
      /\ PlatformsOf(OnNetwork(third)) \subseteq {"x"}
  BY <1>2, <1>3, OneOnNetwork
<1>6. two \in Seq(S) /\ Apart(two) /\ PlatformsOf(two) \subseteq {"instagram", "linkedin"}
  <2>1. PlatformsOf(OnNetwork(first)) \cap PlatformsOf(OnNetwork(second)) = {}
    BY <1>5
  <2>2. /\ two \in Seq(S) /\ Apart(two)
        /\ PlatformsOf(two)
             \subseteq PlatformsOf(OnNetwork(first)) \cup PlatformsOf(OnNetwork(second))
    BY <1>5, <2>1, JoinedApart
  <2> HIDE DEF two
  <2> QED
    BY <1>5, <2>2
<1> HIDE DEF two
<1>7. F \in Seq(S) /\ Apart(F)
  <2>1. PlatformsOf(two) \cap PlatformsOf(OnNetwork(third)) = {}
    BY <1>5, <1>6
  <2> QED
    BY <1>5, <1>6, <2>1, JoinedApart
<1> HIDE DEF F
<1>8. \A a \in DOMAIN F : F[a] \in S
  BY <1>7, RowsOf
<1>9. Listed(F)
  BY <1>7 DEF Listed
<1>10. \A a, b \in DOMAIN F : SameUser(F[a], F[b]) => a = b
  BY <1>7 DEF Apart, SameUser
<1> QED
  BY <1>1, <1>4, <1>8, <1>9, <1>10

LEMMA ChannelsStart == ServicesInit => ChannelsInv
<1> SUFFICES ASSUME ServicesInit
             PROVE  ChannelsInv
  OBVIOUS
<1>1. PICK expiresAt \in {1, MaxTime + 1} : oauthStates = FixtureStates(expiresAt)
  BY DEF ServicesInit, ChannelsInit
<1>2. accounts = FixtureAccounts /\ buckets = FixtureBuckets
  BY DEF ServicesInit, ChannelsInit
<1> DEFINE n == Len(FixtureAccounts)
<1>3. n \in Nat /\ DOMAIN FixtureAccounts = 1 .. n
  BY FixtureAccountsAre, ListedLength
<1>4. /\ Listed(FixtureBuckets) /\ DOMAIN FixtureBuckets = 1 .. n
      /\ \A b \in 1 .. n : BucketKept(FixtureBuckets[b]) /\ FixtureBuckets[b].account = b
  <2>1. DOMAIN FixtureBuckets = 1 .. n
    BY <1>3 DEF FixtureBuckets
  <2>2. ASSUME NEW b \in 1 .. n
        PROVE  BucketKept(FixtureBuckets[b]) /\ FixtureBuckets[b].account = b
    BY <1>3, FixtureAccountsAre DEF FixtureBuckets, BucketKept
  <2> DEFINE R == {FixtureBuckets[b] : b \in 1 .. n}
  <2>3. FixtureBuckets \in [1 .. n -> R]
    BY <2>1 DEF FixtureBuckets
  <2> HIDE DEF R, n
  <2>4. FixtureBuckets \in Seq(R)
    BY <1>3, <2>3
  <2>5. Listed(FixtureBuckets)
    BY <2>4 DEF Listed
  <2> QED
    BY <2>1, <2>2, <2>5
<1>5. AccountsInv
  <2>1. \A a \in DOMAIN accounts : BucketsOf(buckets, a) = {a}
    BY <1>2, <1>3, <1>4 DEF BucketsOf
  <2> QED
    BY <1>2, <1>3, <1>4, <2>1, FixtureAccountsAre DEF AccountsInv
<1>6. Listed(oauthStates) /\ \A i \in DOMAIN oauthStates : StateKept(oauthStates[i])
  <2> DEFINE state == [platform |-> "instagram", scopes |-> {"publish", "insights", "comments"},
                       status |-> "pending", expiresAt |-> expiresAt, consumedAt |-> Never]
  <2>1. StateKept(state)
    BY DEF StateKept, StateFields
  <2>2. oauthStates = OnNetwork(state)
    BY <1>1 DEF FixtureStates
  <2> HIDE DEF state
  <2>3. oauthStates \in {<<state>>, <<>>}
    BY <2>2 DEF OnNetwork
  <2>4. oauthStates \in Seq({state})
    <3>1. <<state>> \in Seq({state}) /\ <<>> \in Seq({state})
      OBVIOUS
    <3> QED
      BY <2>3, <3>1
  <2>5. Listed(oauthStates)
    BY <2>4 DEF Listed
  <2> QED
    BY <2>1, <2>4, <2>5
<1>7. \A a \in DOMAIN accounts : Permitted(accounts[a], a, oauthStates)
  BY <1>2 DEF Permitted, Given
<1>8. \A platform : Cardinality(NewOn(accounts, platform))
                      <= Cardinality(Consumed(oauthStates, platform))
  <2> TAKE platform
  <2>1. NewOn(accounts, platform) = {}
    BY <1>2 DEF NewOn
  <2>2. Cardinality(NewOn(accounts, platform)) = 0
    BY <2>1, FS_EmptySet
  <2>3. Cardinality(Consumed(oauthStates, platform)) \in Nat
    BY <1>6, PlacesAreFinite DEF Consumed
  <2> QED
    BY <2>2, <2>3
<1>9. ConsentsInv
  BY <1>2, <1>6, <1>7, <1>8 DEF ConsentsInv
<1> QED
  BY <1>5, <1>9 DEF ChannelsInv

LEMMA ChannelsSay == ChannelsInv => ConsentBehindEveryAccount /\ AccountsApart
<1> SUFFICES ASSUME ChannelsInv
             PROVE  ConsentBehindEveryAccount /\ AccountsApart
  OBVIOUS
<1>1. \A platform : /\ NewAccountsOn(platform) = NewOn(accounts, platform)
                    /\ ConsumedFor(platform) = Consumed(oauthStates, platform)
  BY DEF NewAccountsOn, NewOn, ConsumedFor, Consumed
<1>2. ASSUME NEW a \in DOMAIN accounts
      PROVE  accounts[a].permissions \subseteq
               (UNION {oauthStates[i].scopes : i \in ConsumedFor(accounts[a].platform)})
                 \cup (IF a \in DOMAIN FixtureAccounts THEN FixtureAccounts[a].permissions ELSE {})
  <2>1. Permitted(accounts[a], a, oauthStates)
    BY DEF ChannelsInv, ConsentsInv
  <2>2. ConsumedFor(accounts[a].platform) = Consumed(oauthStates, accounts[a].platform)
    BY <1>1
  <2> QED
    BY <2>1, <2>2 DEF Permitted, Granted, Given
<1>3. \A i \in DOMAIN oauthStates : oauthStates[i].consumedAt # Never =>
        oauthStates[i].status = "consumed" /\ oauthStates[i].consumedAt < oauthStates[i].expiresAt
  BY DEF ChannelsInv, ConsentsInv, StateKept
<1>4. ConsentBehindEveryAccount
  BY <1>1, <1>2, <1>3 DEF ChannelsInv, ConsentsInv, ConsentBehindEveryAccount
<1>5. ASSUME NEW a \in DOMAIN accounts
      PROVE  Cardinality({b \in DOMAIN buckets : buckets[b].account = a}) = 1
  <2>1. PICK b : BucketsOf(buckets, a) = {b}
    BY DEF ChannelsInv, AccountsInv
  <2> QED
    BY <2>1, FS_Singleton DEF BucketsOf
<1>6. AccountsApart
  BY <1>5 DEF ChannelsInv, AccountsInv, SameUser, BucketKept, AccountsApart
<1> QED
  BY <1>4, <1>6

\* Nobody is connected without having consented in time, once for every account, and no account
\* may do what no consent of its network asked for (social.service.ts, completeOAuth).
THEOREM ConsentsStandBehindAccounts == ServicesSpec => [](ConsentBehindEveryAccount /\ AccountsApart)
<1>1. ChannelsInv /\ [ServicesNext]_servicesVars => ChannelsInv'
  BY WhoMoves, ChannelsKeep
<1> QED
  BY <1>1, ChannelsStart, ChannelsSay, PTL DEF ServicesSpec

-----------------------------------------------------------------------------
(* The composer, for all networks, texts and bounds.  The posts at the API *)
(* only grow in number, and a post that is not as it was has been written  *)
(* once more (Onward): what the page, or a handler under way, knows of a   *)
(* post by its token stays true until the token is old.                    *)

TabsOf(R) == UNION {[D -> R] : D \in (SUBSET Platforms) \ {{}}}

Form ==
  [master : Texts, tabs : TabsOf(Tab), media : BOOLEAN, at : Times, dirty : BOOLEAN]

Payload ==
  [content : TabsOf([text : Texts, extras : BOOLEAN]), media : BOOLEAN, at : Times]

Draft ==
  [saved : Payload, writes : Nat,
   status : {"draft", "in_review", "revisions_needed", "approved", "scheduled", "archived"}]

CallStates == {"sent", "done"}

SaveCall ==
  [kind : {"save"}, mode : {"draft", "review"}, sent : Form, state : CallStates, post : Nat,
   token : Nat, heard : BOOLEAN]

PostCalls == {"submit", "duplicate", "archive"}

PostCall == [kind : PostCalls, state : CallStates, post : Nat, heard : BOOLEAN]

CallOf == {Idle} \cup SaveCall \cup PostCall

\* A tab that does not say it was customised shows the shared text.
Unforked(f) == \A n \in DOMAIN f.tabs : ~f.tabs[n].forked => f.tabs[n].text = f.master

\* The form f shows what is saved as p; a time taken out of the form is excepted.
Agrees(f, p) ==
  /\ ToPostPayload(f).content = p.content
  /\ ToPostPayload(f).media = p.media
  /\ ToPostPayload(f).at \in {Never, p.at}

PageKnows(pg, f, D) ==
  pg.post # NoRecord =>
    /\ pg.post \in 1 .. Len(D)
    /\ pg.token <= D[pg.post].writes
    /\ (~f.dirty /\ D[pg.post].writes = pg.token) => Agrees(f, D[pg.post].saved)

CallKnows(c, D) ==
  /\ c.kind \in PostCalls => c.post \in 1 .. Len(D)
  /\ c.kind = "save" =>
       /\ Unforked(c.sent)
       /\ c.post # NoRecord => c.post \in 1 .. Len(D) /\ c.token <= D[c.post].writes
       /\ c.state = "done" =>
            /\ c.post # NoRecord
            /\ D[c.post].writes = c.token => Agrees(c.sent, D[c.post].saved)

TypeInv ==
  /\ form \in Form
  /\ page \in [open : BOOLEAN, post : Nat, token : Nat]
  /\ handlers \in [Clicks -> CallOf]
  /\ drafts \in Seq(Draft)

\* What all handlers know of the posts.
HandlersKnow(hs, D) == \A k \in Clicks : CallKnows(hs[k], D)

ComposerInv ==
  /\ TypeInv
  /\ Unforked(form)
  /\ PageKnows(page, form, drafts)
  /\ HandlersKnow(handlers, drafts)

\* The posts are those there were, some of them written, and perhaps more.
Onward(D, E) ==
  /\ Len(D) <= Len(E)
  /\ \A i \in 1 .. Len(D) : E[i] = D[i] \/ E[i].writes > D[i].writes

-----------------------------------------------------------------------------
(* The form.                                                               *)

LEMMA TimesAreNat == Times \subseteq Nat
  BY DEF Times, Never

LEMMA FormTabs ==
  ASSUME NEW f \in Form
  PROVE  /\ f.tabs \in [DOMAIN f.tabs -> Tab]
         /\ DOMAIN f.tabs \subseteq Platforms /\ DOMAIN f.tabs # {}
<1>1. PICK D \in (SUBSET Platforms) \ {{}} : f.tabs \in [D -> Tab]
  BY DEF Form, TabsOf
<1> QED
  BY <1>1

LEMMA NewTabs ==
  ASSUME NEW R, NEW g, NEW D \in SUBSET Platforms, D # {}, g \in [D -> R]
  PROVE  g \in TabsOf(R)
  BY DEF TabsOf

LEMMA BlankFacts ==
  ASSUME NEW D \in SUBSET Platforms, D # {}
  PROVE  Blank(D) \in Form /\ Unforked(Blank(D))
<1>1. PICK e \in Texts : e = ""
  BY ComposerAssumption DEF ComposerAssumption
<1> DEFINE g == [n \in D |-> [text |-> e, extras |-> FALSE, forked |-> FALSE]]
<1>2. g \in [D -> Tab]
  BY DEF Tab
<1>3. g \in TabsOf(Tab) /\ DOMAIN g = D
  BY <1>2, NewTabs
<1>4. Blank(D) = [master |-> e, tabs |-> g, media |-> FALSE, at |-> Never, dirty |-> FALSE]
  BY <1>1 DEF Blank
<1>5. \A n \in D : g[n].text = e
  OBVIOUS
<1> HIDE DEF g
<1>6. Blank(D) \in Form
  BY <1>3, <1>4 DEF Form, Times, Never
<1>7. Blank(D).tabs = g /\ Blank(D).master = e
  BY <1>4
<1> QED
  BY <1>3, <1>5, <1>6, <1>7 DEF Unforked

\* A form whose tabs are replaced.
LEMMA WithTabs ==
  ASSUME NEW f \in Form, NEW D \in SUBSET Platforms, D # {}, NEW g \in [D -> Tab], NEW m \in Texts,
         \A n \in D : ~g[n].forked => g[n].text = m
  PROVE  /\ [f EXCEPT !.master = m, !.tabs = g] \in Form
         /\ Unforked([f EXCEPT !.master = m, !.tabs = g])
<1>1. g \in TabsOf(Tab)
  BY NewTabs
<1>2. [f EXCEPT !.master = m, !.tabs = g] \in Form
  BY <1>1 DEF Form
<1>3. /\ [f EXCEPT !.master = m, !.tabs = g].tabs = g
      /\ [f EXCEPT !.master = m, !.tabs = g].master = m
  BY DEF Form
<1> QED
  BY <1>2, <1>3 DEF Unforked

\* No change of the form lets a tab that was not customised differ from the shared text.
LEMMA ChangedFacts ==
  ASSUME NEW f \in Form, Unforked(f), NEW g \in Changed(f)
  PROVE  g \in Form /\ Unforked(g)
<1> DEFINE D == DOMAIN f.tabs
<1>0. f.tabs \in [D -> Tab] /\ D \subseteq Platforms /\ D # {} /\ f.master \in Texts
  BY FormTabs DEF Form
<1>w. ASSUME NEW E \in SUBSET Platforms, E # {}, NEW h \in [E -> Tab], NEW m \in Texts,
             \A n \in E : ~h[n].forked => h[n].text = m,
             g = [f EXCEPT !.master = m, !.tabs = h]
      PROVE  g \in Form /\ Unforked(g)
  BY <1>w, WithTabs
<1>1. ASSUME NEW t \in Texts, g = SetMaster(f, t)
      PROVE  g \in Form /\ Unforked(g)
  <2> DEFINE h == [n \in D |-> IF f.tabs[n].forked THEN f.tabs[n]
                               ELSE [f.tabs[n] EXCEPT !.text = t]]
  <2>1. g = [f EXCEPT !.master = t, !.tabs = h]
    BY <1>1 DEF SetMaster, Form
  <2>2. h \in [D -> Tab]
    BY <1>0 DEF Tab
  <2>3. \A n \in D : ~h[n].forked => h[n].text = t
    BY <1>0 DEF Tab
  <2> HIDE DEF h
  <2> QED
    BY <1>0, <1>w, <2>1, <2>2, <2>3
<1>2. ASSUME NEW n \in D, NEW b \in Tab, g = [f EXCEPT !.tabs[n] = b],
             ~b.forked => b.text = f.master
      PROVE  g \in Form /\ Unforked(g)
  <2> DEFINE h == [f.tabs EXCEPT ![n] = b]
  <2>1. g = [f EXCEPT !.master = f.master, !.tabs = h]
    BY <1>2 DEF Form
  <2>2. h \in [D -> Tab]
    BY <1>0
  <2>3. \A k \in D : ~h[k].forked => h[k].text = f.master
    BY <1>0, <1>2 DEF Unforked
  <2> HIDE DEF h
  <2> QED
    BY <1>0, <1>w, <2>1, <2>2, <2>3
<1>3. ASSUME NEW n \in D, NEW t \in Texts, g = SetVariantText(f, n, t)
      PROVE  g \in Form /\ Unforked(g)
  <2> DEFINE b == [f.tabs[n] EXCEPT !.text = t, !.forked = t # f.master]
  <2>1. b \in Tab /\ b.forked = (t # f.master) /\ b.text = t
    BY <1>0 DEF Tab
  <2>2. g = [f EXCEPT !.tabs[n] = b]
    BY <1>3 DEF SetVariantText
  <2> HIDE DEF b
  <2> QED
    BY <1>2, <2>1, <2>2
<1>4. ASSUME NEW n \in D, g = ResetVariant(f, n)
      PROVE  g \in Form /\ Unforked(g)
  <2> DEFINE b == [f.tabs[n] EXCEPT !.text = f.master, !.forked = FALSE]
  <2>1. b \in Tab /\ b.text = f.master
    BY <1>0 DEF Tab
  <2>2. g = [f EXCEPT !.tabs[n] = b]
    BY <1>4 DEF ResetVariant
  <2> HIDE DEF b
  <2> QED
    BY <1>2, <2>1, <2>2
<1>5. ASSUME NEW n \in D, g = SetExtras(f, n)
      PROVE  g \in Form /\ Unforked(g)
  <2> DEFINE b == [f.tabs[n] EXCEPT !.extras = ~@]
  <2>1. b \in Tab /\ b.text = f.tabs[n].text /\ b.forked = f.tabs[n].forked
    BY <1>0 DEF Tab
  <2>2. g = [f EXCEPT !.tabs[n] = b]
    BY <1>5 DEF SetExtras
  <2> HIDE DEF b
  <2> QED
    BY <1>2, <2>1, <2>2 DEF Unforked
<1>6. ASSUME NEW n \in Platforms, g = TogglePlatform(f, n)
      PROVE  g \in Form /\ Unforked(g)
  <2> DEFINE E == IF n \in D THEN D \ {n} ELSE D \cup {n}
             h == [k \in E |-> IF k \in D THEN f.tabs[k]
                               ELSE [text |-> f.master, extras |-> FALSE, forked |-> FALSE]]
  <2>1. g = f \/ (E # {} /\ g = [f EXCEPT !.master = f.master, !.tabs = h])
    BY <1>6 DEF TogglePlatform, Form
  <2>2. E \in SUBSET Platforms
    BY <1>0
  <2>3. h \in [E -> Tab]
    BY <1>0 DEF Tab
  <2>4. \A k \in E : ~h[k].forked => h[k].text = f.master
    BY DEF Unforked
  <2> HIDE DEF h, E
  <2> QED
    BY <1>0, <1>w, <2>1, <2>2, <2>3, <2>4
<1>7. ASSUME g = [f EXCEPT !.media = ~@] \/ \E t \in Times : g = [f EXCEPT !.at = t]
      PROVE  g \in Form /\ Unforked(g)
  <2>1. g \in Form /\ g.tabs = f.tabs /\ g.master = f.master
    BY <1>7, TimesAreNat DEF Form
  <2> QED
    BY <2>1 DEF Unforked
<1> QED
  BY <1>1, <1>3, <1>4, <1>5, <1>6, <1>7 DEF Changed

\* What is saved of a form.
LEMMA PayloadFacts ==
  ASSUME NEW f \in Form
  PROVE  ToPostPayload(f) \in Payload
<1> DEFINE g == [n \in DOMAIN f.tabs |-> [text |-> f.tabs[n].text, extras |-> f.tabs[n].extras]]
<1>1. g \in [DOMAIN f.tabs -> [text : Texts, extras : BOOLEAN]]
  BY FormTabs DEF Tab
<1>2. g \in TabsOf([text : Texts, extras : BOOLEAN])
  BY <1>1, FormTabs, NewTabs
<1>3. ToPostPayload(f) = [content |-> g, media |-> f.media, at |-> f.at]
  BY DEF ToPostPayload
<1> HIDE DEF g
<1> QED
  BY <1>2, <1>3 DEF Form, Payload

\* A form made of a post shows the post, and its unforked tabs the shared text.
LEMMA FromPostFacts ==
  ASSUME NEW p \in Payload
  PROVE  /\ FromPost(p) \in Form
         /\ Unforked(FromPost(p))
         /\ Agrees(FromPost(p), p)
<1>1. PICK D \in (SUBSET Platforms) \ {{}} :
        p.content \in [D -> [text : Texts, extras : BOOLEAN]]
  BY DEF Payload, TabsOf
<1>2. DOMAIN p.content = D
  BY <1>1
<1> DEFINE texts == {p.content[n].text : n \in DOMAIN p.content}
           uniform == \E t \in Texts : texts = {t}
           m == IF uniform THEN CHOOSE t \in texts : TRUE ELSE ""
           g == [n \in DOMAIN p.content |->
                   [text |-> p.content[n].text, extras |-> p.content[n].extras,
                    forked |-> ~uniform]]
<1>3. FromPost(p) = [master |-> m, tabs |-> g, media |-> p.media, at |-> p.at, dirty |-> FALSE]
  BY DEF FromPost
<1>4. m \in Texts /\ (uniform => texts = {m})
  <2>1. CASE uniform
    <3>1. PICK t \in Texts : texts = {t}
      BY <2>1
    <3>2. m \in {t}
      BY <2>1, <3>1
    <3> QED
      BY <3>1, <3>2
  <2>2. CASE ~uniform
    BY <2>2, ComposerAssumption DEF ComposerAssumption
  <2> QED
    BY <2>1, <2>2
<1>5. uniform \in BOOLEAN
  OBVIOUS
<1>6. \A n \in D : p.content[n].text \in texts
  BY <1>2
<1> HIDE DEF texts, uniform, m
<1>7. g \in [D -> Tab]
  BY <1>1, <1>2, <1>5 DEF Tab
<1>8. \A n \in D : ~g[n].forked => g[n].text = m
  <2> SUFFICES ASSUME NEW n \in D, ~g[n].forked
               PROVE  g[n].text = m
    OBVIOUS
  <2>1. g[n].forked = ~uniform /\ g[n].text = p.content[n].text
    BY <1>2
  <2> QED
    BY <1>4, <1>5, <1>6, <2>1
<1>9. [n \in D |-> [text |-> g[n].text, extras |-> g[n].extras]] = p.content
  BY <1>1, <1>2
<1>10. g \in TabsOf(Tab) /\ DOMAIN g = D
  BY <1>7, NewTabs
<1> HIDE DEF g
<1>11. FromPost(p) \in Form
  BY <1>3, <1>4, <1>10 DEF Form, Payload
<1>12. Unforked(FromPost(p))
  BY <1>3, <1>8, <1>10 DEF Unforked
<1>13. Agrees(FromPost(p), p)
  BY <1>3, <1>9, <1>10 DEF Agrees, ToPostPayload
<1> QED
  BY <1>11, <1>12, <1>13

-----------------------------------------------------------------------------
(* The posts go onward, and what is known of them stays true.              *)

LEMMA DraftFacts ==
  ASSUME NEW D \in Seq(Draft), NEW i \in 1 .. Len(D)
  PROVE  /\ D[i] \in Draft
         /\ D[i].writes \in Nat
         /\ D[i].saved \in Payload
<1>1. D[i] \in Draft
  OBVIOUS
<1> QED
  BY <1>1 DEF Draft

LEMMA OnwardKeepsPage ==
  ASSUME drafts \in Seq(Draft), drafts' \in Seq(Draft), Onward(drafts, drafts'),
         NEW f \in Form, NEW pg \in [open : BOOLEAN, post : Nat, token : Nat],
         PageKnows(pg, f, drafts)
  PROVE  PageKnows(pg, f, drafts')
<1> SUFFICES ASSUME pg.post # NoRecord
             PROVE  /\ pg.post \in 1 .. Len(drafts')
                    /\ pg.token <= drafts'[pg.post].writes
                    /\ (~f.dirty /\ drafts'[pg.post].writes = pg.token)
                         => Agrees(f, drafts'[pg.post].saved)
  BY DEF PageKnows
<1>1. pg.post \in 1 .. Len(drafts) /\ pg.post \in 1 .. Len(drafts')
  BY DEF PageKnows, Onward
<1>2. /\ drafts[pg.post].writes \in Nat
      /\ drafts'[pg.post].writes \in Nat
      /\ pg.token \in Nat
  BY <1>1, DraftFacts
<1>3. pg.token <= drafts[pg.post].writes
  BY DEF PageKnows
<1>4. CASE drafts'[pg.post] = drafts[pg.post]
  BY <1>1, <1>4 DEF PageKnows
<1>5. CASE drafts'[pg.post].writes > drafts[pg.post].writes
  BY <1>1, <1>2, <1>3, <1>5
<1> QED
  BY <1>1, <1>4, <1>5 DEF Onward

LEMMA OnwardKeepsCall ==
  ASSUME drafts \in Seq(Draft), drafts' \in Seq(Draft), Onward(drafts, drafts'),
         NEW c \in CallOf, CallKnows(c, drafts)
  PROVE  CallKnows(c, drafts')
<1>1. Len(drafts) \in Nat /\ Len(drafts') \in Nat /\ Len(drafts) <= Len(drafts')
  BY DEF Onward
<1>2. c.kind \in PostCalls => c.post \in 1 .. Len(drafts')
  BY <1>1 DEF CallKnows
<1>3. ASSUME c.kind = "save", c.post # NoRecord
      PROVE  /\ c.post \in 1 .. Len(drafts') /\ c.token <= drafts'[c.post].writes
             /\ (c.state = "done" /\ drafts'[c.post].writes = c.token)
                  => Agrees(c.sent, drafts'[c.post].saved)
  <2>1. c.post \in 1 .. Len(drafts) /\ c.token <= drafts[c.post].writes /\ c.token \in Nat
    BY <1>3 DEF CallKnows, CallOf, SaveCall, PostCall, PostCalls, Idle
  <2>2. c.post \in 1 .. Len(drafts')
    BY <1>1, <2>1
  <2>3. drafts[c.post].writes \in Nat /\ drafts'[c.post].writes \in Nat
    BY <2>1, <2>2, DraftFacts
  <2>4. CASE drafts'[c.post] = drafts[c.post]
    BY <1>3, <2>1, <2>2, <2>4 DEF CallKnows
  <2>5. CASE drafts'[c.post].writes > drafts[c.post].writes
    BY <2>1, <2>2, <2>3, <2>5
  <2> QED
    BY <2>1, <2>4, <2>5 DEF Onward
<1> QED
  BY <1>2, <1>3 DEF CallKnows

LEMMA NothingWritten ==
  ASSUME drafts \in Seq(Draft), UNCHANGED drafts
  PROVE  drafts' \in Seq(Draft) /\ Onward(drafts, drafts')
  BY DEF Onward

LEMMA WrittenFacts ==
  ASSUME drafts \in Seq(Draft), NEW p \in 1 .. Len(drafts), NEW r \in Draft,
         r.writes = drafts[p].writes, Written(p, r)
  PROVE  /\ drafts' \in Seq(Draft)
         /\ Onward(drafts, drafts')
         /\ Len(drafts') = Len(drafts)
         /\ drafts'[p].writes = drafts[p].writes + 1
         /\ drafts'[p].saved = r.saved
<1> DEFINE w == [r EXCEPT !.writes = @ + 1]
<1>1. w \in Draft /\ w.writes = r.writes + 1 /\ w.saved = r.saved
  BY DEF Draft
<1>2. drafts' = [drafts EXCEPT ![p] = w]
  BY DEF Written
<1>3. drafts[p].writes \in Nat
  BY DraftFacts
<1> HIDE DEF w
<1>4. drafts' \in Seq(Draft) /\ Len(drafts') = Len(drafts)
  BY <1>1, <1>2
<1>5. drafts'[p] = w
  BY <1>2
<1>6. \A i \in 1 .. Len(drafts) : i # p => drafts'[i] = drafts[i]
  BY <1>2
<1>7. Onward(drafts, drafts')
  BY <1>1, <1>3, <1>4, <1>5, <1>6 DEF Onward
<1> QED
  BY <1>1, <1>4, <1>5, <1>7

LEMMA AppendedFacts ==
  ASSUME drafts \in Seq(Draft), NEW r \in Draft, drafts' = Append(drafts, r)
  PROVE  /\ drafts' \in Seq(Draft)
         /\ Onward(drafts, drafts')
         /\ Len(drafts') = Len(drafts) + 1
         /\ drafts'[Len(drafts) + 1] = r
<1>1. /\ drafts' \in Seq(Draft)
      /\ Len(drafts') = Len(drafts) + 1
      /\ drafts'[Len(drafts) + 1] = r
      /\ \A i \in 1 .. Len(drafts) : drafts'[i] = drafts[i]
  OBVIOUS
<1>2. Len(drafts) \in Nat
  OBVIOUS
<1> QED
  BY <1>1, <1>2 DEF Onward

-----------------------------------------------------------------------------
(* The actions.                                                            *)

LEMMA TypeKeeps ==
  ASSUME ComposerInv, Type
  PROVE  ComposerInv'
<1>1. PICK g \in Changed(form) : form' = [g EXCEPT !.dirty = TRUE]
  BY DEF Type
<1>2. g \in Form /\ Unforked(g)
  BY <1>1, ChangedFacts DEF ComposerInv, TypeInv
<1>3. /\ form' \in Form
      /\ form'.tabs = g.tabs
      /\ form'.master = g.master
      /\ form'.dirty = TRUE
  BY <1>1, <1>2 DEF Form
<1>4. Unforked(form')
  BY <1>2, <1>3 DEF Unforked
<1>5. PageKnows(page, form', drafts)
  BY <1>3 DEF PageKnows, ComposerInv
<1>6. UNCHANGED <<page, handlers, drafts>>
  BY DEF Type
<1> QED
  BY <1>3, <1>4, <1>5, <1>6 DEF ComposerInv, TypeInv

\* One handler goes on, over posts that went onward.
LEMMA BecomesFacts ==
  ASSUME ComposerInv, drafts' \in Seq(Draft), Onward(drafts, drafts'),
         NEW k \in Clicks, NEW h \in CallOf, CallKnows(h, drafts'), Becomes(k, h)
  PROVE  handlers' \in [Clicks -> CallOf] /\ HandlersKnow(handlers', drafts')
<1>1. handlers \in [Clicks -> CallOf] /\ drafts \in Seq(Draft)
  BY DEF ComposerInv, TypeInv
<1>2. handlers' \in [Clicks -> CallOf]
  BY <1>1 DEF Becomes
<1>3. ASSUME NEW j \in Clicks
      PROVE  CallKnows(handlers'[j], drafts')
  <2>1. CASE j = k
    BY <1>1, <2>1 DEF Becomes
  <2>2. CASE j # k
    <3>1. handlers'[j] = handlers[j] /\ handlers[j] \in CallOf
      BY <1>1, <2>2 DEF Becomes
    <3>2. CallKnows(handlers[j], drafts)
      BY DEF ComposerInv, HandlersKnow
    <3>3. CallKnows(handlers[j], drafts')
      BY <1>1, <3>1, <3>2, OnwardKeepsCall
    <3> QED
      BY <3>1, <3>3
  <2> QED
    BY <2>1, <2>2
<1> QED
  BY <1>2, <1>3 DEF HandlersKnow

\* A page that is left takes nothing from what its handlers know.
LEMMA UnheardFacts ==
  ASSUME NEW hs \in [Clicks -> CallOf], NEW D, HandlersKnow(hs, D)
  PROVE  Unheard(hs) \in [Clicks -> CallOf] /\ HandlersKnow(Unheard(hs), D)
<1>1. ASSUME NEW j \in Clicks
      PROVE  Unheard(hs)[j] \in CallOf /\ CallKnows(Unheard(hs)[j], D)
  <2>1. hs[j] \in CallOf /\ CallKnows(hs[j], D)
    BY DEF HandlersKnow
  <2>2. CASE hs[j] = Idle
    BY <2>1, <2>2 DEF Unheard
  <2>3. CASE hs[j] # Idle
    <3> DEFINE h == [hs[j] EXCEPT !.heard = FALSE]
    <3>1. Unheard(hs)[j] = h
      BY <2>3 DEF Unheard
    <3>2. CASE hs[j] \in SaveCall
      <4>1. /\ h \in SaveCall
            /\ h.kind = hs[j].kind /\ h.sent = hs[j].sent /\ h.state = hs[j].state
            /\ h.post = hs[j].post /\ h.token = hs[j].token
        BY <3>2 DEF SaveCall
      <4> HIDE DEF h
      <4> QED
        BY <2>1, <3>1, <4>1 DEF CallOf, CallKnows
    <3>3. CASE hs[j] \in PostCall
      <4>1. /\ h \in PostCall
            /\ h.kind = hs[j].kind /\ h.post = hs[j].post /\ h.kind # "save"
        BY <3>3 DEF PostCall, PostCalls
      <4> HIDE DEF h
      <4> QED
        BY <2>1, <3>1, <4>1 DEF CallOf, CallKnows
    <3> QED
      BY <2>1, <2>3, <3>2, <3>3 DEF CallOf
  <2> QED
    BY <2>2, <2>3
<1> QED
  BY <1>1 DEF Unheard, HandlersKnow

LEMMA IdleFacts ==
  ASSUME NEW D
  PROVE  Idle \in CallOf /\ CallKnows(Idle, D)
BY DEF CallOf, CallKnows, Idle, PostCalls

LEMMA HandlerFacts ==
  ASSUME ComposerInv, NEW k \in Clicks
  PROVE  /\ handlers[k] \in CallOf
         /\ CallKnows(handlers[k], drafts)
         /\ handlers[k].kind = "save" => handlers[k] \in SaveCall
         /\ handlers[k].kind \in PostCalls =>
              handlers[k] \in PostCall /\ handlers[k].post \in 1 .. Len(drafts)
<1>1. handlers[k] \in CallOf /\ CallKnows(handlers[k], drafts)
  BY DEF ComposerInv, TypeInv, HandlersKnow
<1>2. handlers[k].kind = "save" => handlers[k] \in SaveCall
  BY <1>1 DEF CallOf, PostCall, PostCalls, Idle
<1>3. handlers[k].kind \in PostCalls => handlers[k] \in PostCall
  BY <1>1 DEF CallOf, SaveCall, PostCalls, Idle
<1> QED
  BY <1>1, <1>2, <1>3 DEF CallKnows

LEMMA SaveKeeps ==
  ASSUME ComposerInv, NEW k \in Clicks, Save(k)
  PROVE  ComposerInv'
<1>1. PICK asked \in {"draft", "review"} :
        Becomes(k, [kind |-> "save", mode |-> asked, sent |-> form, state |-> "sent",
                    post |-> page.post, token |-> page.token, heard |-> TRUE])
  BY DEF Save
<1> DEFINE h == [kind |-> "save", mode |-> asked, sent |-> form, state |-> "sent",
                 post |-> page.post, token |-> page.token, heard |-> TRUE]
<1>2. h \in CallOf
  BY DEF ComposerInv, TypeInv, CallOf, SaveCall, CallStates
<1>3. CallKnows(h, drafts)
  BY DEF ComposerInv, CallKnows, PageKnows, PostCalls
<1>4. UNCHANGED <<form, page, drafts>> /\ drafts \in Seq(Draft)
  BY DEF Save, ComposerInv, TypeInv
<1>5. handlers' \in [Clicks -> CallOf] /\ HandlersKnow(handlers', drafts')
  BY <1>1, <1>2, <1>3, <1>4, NothingWritten, BecomesFacts
<1> QED
  BY <1>4, <1>5 DEF ComposerInv, TypeInv

LEMMA DuplicateOrArchiveKeeps ==
  ASSUME ComposerInv, NEW k \in Clicks, DuplicateOrArchive(k)
  PROVE  ComposerInv'
<1>1. PICK asked \in {"duplicate", "archive"} :
        Becomes(k, [kind |-> asked, state |-> "sent", post |-> page.post, heard |-> TRUE])
  BY DEF DuplicateOrArchive
<1> DEFINE h == [kind |-> asked, state |-> "sent", post |-> page.post, heard |-> TRUE]
<1>2. h \in CallOf
  BY DEF ComposerInv, TypeInv, CallOf, PostCall, PostCalls, CallStates
<1>3. CallKnows(h, drafts)
  BY DEF DuplicateOrArchive, ComposerInv, CallKnows, PageKnows, PostCalls
<1>4. UNCHANGED <<form, page, drafts>> /\ drafts \in Seq(Draft)
  BY DEF DuplicateOrArchive, ComposerInv, TypeInv
<1>5. handlers' \in [Clicks -> CallOf] /\ HandlersKnow(handlers', drafts')
  BY <1>1, <1>2, <1>3, <1>4, NothingWritten, BecomesFacts
<1> QED
  BY <1>4, <1>5 DEF ComposerInv, TypeInv

\* What is left to show of a step of the API, when the page waits.
LEMMA ApiKeeps ==
  ASSUME ComposerInv, UNCHANGED <<form, page>>, drafts' \in Seq(Draft), Onward(drafts, drafts'),
         NEW k \in Clicks, NEW h \in CallOf, CallKnows(h, drafts'), Becomes(k, h)
  PROVE  ComposerInv'
<1>1. PageKnows(page, form, drafts')
  BY OnwardKeepsPage DEF ComposerInv, TypeInv
<1>2. handlers' \in [Clicks -> CallOf] /\ HandlersKnow(handlers', drafts')
  BY BecomesFacts
<1> QED
  BY <1>1, <1>2 DEF ComposerInv, TypeInv

LEMMA SaveCallFacts ==
  ASSUME NEW c \in SaveCall
  PROVE  c.sent \in Form /\ c.post \in Nat /\ c.token \in Nat
  BY DEF SaveCall

\* A call other than a save that the API has done.
LEMMA PostCallDone ==
  ASSUME NEW c \in PostCall, NEW p \in Nat, NEW D, p \in 1 .. Len(D)
  PROVE  /\ [c EXCEPT !.state = "done", !.post = p] \in CallOf
         /\ CallKnows([c EXCEPT !.state = "done", !.post = p], D)
<1> DEFINE h == [c EXCEPT !.state = "done", !.post = p]
<1>1. h \in PostCall /\ h.post = p /\ h.kind # "save"
  BY DEF PostCall, PostCalls, CallStates
<1> HIDE DEF h
<1>2. h \in CallOf /\ CallKnows(h, D)
  BY <1>1 DEF CallOf, CallKnows
<1> QED
  BY <1>2 DEF h

LEMMA CreatePostKeeps ==
  ASSUME ComposerInv, NEW k \in Clicks, handlers[k].kind = "save", UNCHANGED <<form, page>>,
         CreatePost(k)
  PROVE  ComposerInv'
<1> DEFINE c == handlers[k]
<1>1. /\ c \in SaveCall /\ Unforked(c.sent)
      /\ drafts \in Seq(Draft)
  BY HandlerFacts DEF ComposerInv, TypeInv, CallKnows
<1> DEFINE p == ToPostPayload(c.sent)
           r == [saved |-> p, writes |-> 1, status |-> IF p.at = Never THEN "draft" ELSE "scheduled"]
           h == [c EXCEPT !.state = "done", !.post = Len(drafts) + 1, !.token = 1]
<1>2. p \in Payload
  BY <1>1, SaveCallFacts, PayloadFacts
<1>3. drafts' = Append(drafts, r) /\ Becomes(k, h)
  BY DEF CreatePost, SaveDone
<1>4. Agrees(c.sent, p)
  BY DEF Agrees
<1> HIDE DEF p
<1>5. r \in Draft /\ r.saved = p /\ r.writes = 1
  BY <1>2 DEF Draft
<1> HIDE DEF r
<1>6. /\ drafts' \in Seq(Draft) /\ Onward(drafts, drafts')
      /\ Len(drafts') = Len(drafts) + 1 /\ drafts'[Len(drafts) + 1] = r
  BY <1>1, <1>3, <1>5, AppendedFacts
<1>7. Len(drafts) \in Nat
  BY <1>1
<1>8. /\ h \in CallOf
      /\ h.kind = "save" /\ h.sent = c.sent /\ h.state = "done"
      /\ h.post = Len(drafts) + 1 /\ h.token = 1
  <2>1. Len(drafts) + 1 \in Nat /\ 1 \in Nat
    BY <1>7
  <2>2. h \in SaveCall
    BY <1>1, <2>1 DEF SaveCall, CallStates
  <2>3. /\ h.kind = "save" /\ h.sent = c.sent /\ h.state = "done"
        /\ h.post = Len(drafts) + 1 /\ h.token = 1
    BY <1>1 DEF SaveCall
  <2> QED
    BY <2>2, <2>3 DEF CallOf
<1> HIDE DEF h
<1>9. CallKnows(h, drafts')
  BY <1>1, <1>4, <1>5, <1>6, <1>7, <1>8 DEF CallKnows, NoRecord, PostCalls
<1> QED
  BY <1>3, <1>6, <1>8, <1>9, ApiKeeps

LEMMA UpdatePostKeeps ==
  ASSUME ComposerInv, NEW k \in Clicks, handlers[k].kind = "save", UNCHANGED <<form, page>>,
         UpdatePost(k)
  PROVE  ComposerInv'
<1> DEFINE c == handlers[k]
<1>1. /\ c \in SaveCall /\ Unforked(c.sent)
      /\ drafts \in Seq(Draft)
      /\ c.post \in 1 .. Len(drafts)
  BY HandlerFacts DEF ComposerInv, TypeInv, CallKnows, UpdatePost
<1> DEFINE r == drafts[c.post]
           p == ToPostPayload(c.sent)
           s == [p EXCEPT !.at = IF @ = Never THEN r.saved.at ELSE @]
           q == [r EXCEPT !.saved = s]
           h == [c EXCEPT !.state = "done", !.post = c.post, !.token = r.writes + 1]
<1>2. r \in Draft
  BY <1>1
<1>3. /\ Written(c.post, q)
      /\ r.writes = c.token
      /\ Becomes(k, h)
  BY DEF UpdatePost, SaveDone
<1>4. p \in Payload
  BY <1>1, SaveCallFacts, PayloadFacts
<1>5. s \in Payload
  BY <1>2, <1>4 DEF Payload, Draft
<1>6. Agrees(c.sent, s)
  BY <1>2, <1>4 DEF Agrees, Payload
<1> HIDE DEF s
<1>7. q \in Draft /\ q.writes = r.writes /\ q.saved = s /\ r.writes \in Nat
  BY <1>2, <1>5 DEF Draft
<1> HIDE DEF q
<1>8. /\ drafts' \in Seq(Draft)
      /\ Onward(drafts, drafts')
      /\ Len(drafts') = Len(drafts)
      /\ drafts'[c.post].writes = r.writes + 1
      /\ drafts'[c.post].saved = s
  BY <1>1, <1>3, <1>7, WrittenFacts
<1>9. /\ h \in CallOf
      /\ h.kind = "save" /\ h.sent = c.sent /\ h.state = "done"
      /\ h.post = c.post /\ h.token = r.writes + 1
  <2>1. c.post \in Nat /\ r.writes + 1 \in Nat
    BY <1>1, <1>7
  <2>2. h \in SaveCall
    BY <1>1, <2>1 DEF SaveCall, CallStates
  <2>3. /\ h.kind = "save" /\ h.sent = c.sent /\ h.state = "done"
        /\ h.post = c.post /\ h.token = r.writes + 1
    BY <1>1 DEF SaveCall
  <2> QED
    BY <2>2, <2>3 DEF CallOf
<1> HIDE DEF h
<1>10. CallKnows(h, drafts')
  BY <1>1, <1>6, <1>7, <1>8, <1>9 DEF CallKnows, NoRecord, PostCalls
<1> QED
  BY <1>3, <1>8, <1>9, <1>10, ApiKeeps

LEMMA ApiSavesKeeps ==
  ASSUME ComposerInv, NEW k \in Clicks, ApiSaves(k)
  PROVE  ComposerInv'
<1>1. handlers[k].kind = "save" /\ UNCHANGED <<form, page>> /\ (CreatePost(k) \/ UpdatePost(k))
  BY DEF ApiSaves
<1> QED
  BY <1>1, CreatePostKeeps, UpdatePostKeeps

\* A submission or an archiving: the status of the post is written, or nothing.
LEMMA StatusKeeps ==
  ASSUME ComposerInv, NEW k \in Clicks, handlers[k].kind \in PostCalls, UNCHANGED <<form, page>>,
         NEW s \in {"in_review", "archived"},
         UNCHANGED drafts
           \/ Written(handlers[k].post, [drafts[handlers[k].post] EXCEPT !.status = s]),
         Done(k, handlers[k].post)
  PROVE  ComposerInv'
<1> DEFINE c == handlers[k]
           q == [drafts[c.post] EXCEPT !.status = s]
           h == [c EXCEPT !.state = "done", !.post = c.post]
<1>1. c \in PostCall /\ c.post \in 1 .. Len(drafts) /\ drafts \in Seq(Draft)
  BY HandlerFacts DEF ComposerInv, TypeInv
<1>2. /\ drafts' \in Seq(Draft) /\ Onward(drafts, drafts')
      /\ Len(drafts') = Len(drafts)
  <2>1. CASE UNCHANGED drafts
    BY <1>1, <2>1, NothingWritten
  <2>2. CASE Written(c.post, q)
    <3>1. drafts[c.post] \in Draft
      BY <1>1
    <3>2. q \in Draft /\ q.writes = drafts[c.post].writes
      BY <3>1 DEF Draft
    <3> HIDE DEF q
    <3> QED
      BY <1>1, <2>2, <3>2, WrittenFacts
  <2> QED
    BY <2>1, <2>2
<1>3. c.post \in Nat /\ c.post \in 1 .. Len(drafts')
  BY <1>1, <1>2
<1>4. h \in CallOf /\ CallKnows(h, drafts')
  BY <1>1, <1>3, PostCallDone
<1>5. Becomes(k, h)
  BY DEF Done
<1> HIDE DEF h
<1> QED
  BY <1>2, <1>4, <1>5, ApiKeeps

LEMMA ApiSubmitsKeeps ==
  ASSUME ComposerInv, NEW k \in Clicks, ApiSubmits(k)
  PROVE  ComposerInv'
<1>1. /\ handlers[k].kind \in PostCalls /\ UNCHANGED <<form, page>>
      /\ Written(handlers[k].post, [drafts[handlers[k].post] EXCEPT !.status = "in_review"])
      /\ Done(k, handlers[k].post)
  BY DEF ApiSubmits, PostCalls
<1> QED
  BY <1>1, StatusKeeps

LEMMA ApiArchivesKeeps ==
  ASSUME ComposerInv, NEW k \in Clicks, ApiArchives(k)
  PROVE  ComposerInv'
<1>1. /\ handlers[k].kind \in PostCalls /\ UNCHANGED <<form, page>>
      /\ \/ UNCHANGED drafts
         \/ Written(handlers[k].post, [drafts[handlers[k].post] EXCEPT !.status = "archived"])
      /\ Done(k, handlers[k].post)
  BY DEF ApiArchives, PostCalls
<1> QED
  BY <1>1, StatusKeeps

LEMMA ApiDuplicatesKeeps ==
  ASSUME ComposerInv, NEW k \in Clicks, ApiDuplicates(k)
  PROVE  ComposerInv'
<1> DEFINE c == handlers[k]
           copy == [drafts[c.post].saved EXCEPT !.at = Never]
           r == [saved |-> copy, writes |-> 1, status |-> "draft"]
           h == [c EXCEPT !.state = "done", !.post = Len(drafts) + 1]
<1>1. c.kind \in PostCalls /\ UNCHANGED <<form, page>> /\ drafts' = Append(drafts, r) /\ Becomes(k, h)
  BY DEF ApiDuplicates, PostCalls, Done
<1>2. c \in PostCall /\ c.post \in 1 .. Len(drafts) /\ drafts \in Seq(Draft)
  BY <1>1, HandlerFacts DEF ComposerInv, TypeInv
<1>3. drafts[c.post].saved \in Payload
  BY <1>2, DraftFacts
<1>4. copy \in Payload
  BY <1>3 DEF Payload, Times, Never
<1> HIDE DEF copy
<1>5. r \in Draft
  BY <1>4 DEF Draft
<1> HIDE DEF r
<1>6. /\ drafts' \in Seq(Draft) /\ Onward(drafts, drafts')
      /\ Len(drafts') = Len(drafts) + 1
  BY <1>1, <1>2, <1>5, AppendedFacts
<1>7. Len(drafts) + 1 \in Nat /\ Len(drafts) + 1 \in 1 .. Len(drafts')
  BY <1>2, <1>6
<1>8. h \in CallOf /\ CallKnows(h, drafts')
  BY <1>2, <1>7, PostCallDone
<1> HIDE DEF h
<1> QED
  BY <1>1, <1>6, <1>8, ApiKeeps

\* The answer to a save, heard or not: what was sent is what the page shows then, and what the API
\* holds as long as nobody has written the post since.
LEMMA SavedKeeps ==
  ASSUME ComposerInv, NEW k \in Clicks, Saved(k)
  PROVE  ComposerInv'
<1> DEFINE c == handlers[k]
<1>1. /\ c.kind = "save" /\ c.state = "done"
      /\ c \in SaveCall
      /\ CallKnows(c, drafts)
      /\ UNCHANGED drafts /\ drafts \in Seq(Draft)
  BY HandlerFacts DEF Saved, ComposerInv, TypeInv
<1>2. handlers' \in [Clicks -> CallOf] /\ HandlersKnow(handlers', drafts')
  <2> DEFINE h == AfterSave(k)
  <2>1. Becomes(k, h)
    BY DEF Saved
  <2>2. h = Idle \/ h = [kind |-> "submit", state |-> "sent", post |-> c.post, heard |-> c.heard]
    BY DEF AfterSave
  <2> HIDE DEF h
  <2>3. CASE h = Idle
    BY <1>1, <2>1, <2>3, IdleFacts, NothingWritten, BecomesFacts
  <2>4. CASE h = [kind |-> "submit", state |-> "sent", post |-> c.post, heard |-> c.heard]
    <3>1. c.post \in Nat /\ c.heard \in BOOLEAN /\ c.post \in 1 .. Len(drafts)
      BY <1>1 DEF SaveCall, CallKnows
    <3>2. h \in PostCall /\ h.kind = "submit" /\ h.post = c.post
      BY <2>4, <3>1 DEF PostCall, PostCalls, CallStates
    <3>3. h \in CallOf /\ CallKnows(h, drafts')
      BY <1>1, <3>1, <3>2 DEF CallOf, CallKnows
    <3> QED
      BY <1>1, <2>1, <3>3, NothingWritten, BecomesFacts
  <2> QED
    BY <2>2, <2>3, <2>4
<1>3. CASE UNCHANGED <<form, page>>
  BY <1>1, <1>2, <1>3 DEF ComposerInv, TypeInv
<1>4. CASE /\ page' = [page EXCEPT !.post = c.post, !.token = c.token]
           /\ form' = [c.sent EXCEPT !.dirty = FALSE]
  <2>1. /\ form' \in Form /\ form'.tabs = c.sent.tabs /\ form'.master = c.sent.master
        /\ form'.media = c.sent.media /\ form'.at = c.sent.at
    BY <1>1, <1>4, SaveCallFacts DEF Form
  <2>2. Unforked(form')
    BY <1>1, <2>1 DEF Unforked, CallKnows
  <2>3. ToPostPayload(form') = ToPostPayload(c.sent)
    BY <2>1 DEF ToPostPayload
  <2>4. /\ page' \in [open : BOOLEAN, post : Nat, token : Nat]
        /\ page'.post = c.post /\ page'.token = c.token
    BY <1>1, <1>4, SaveCallFacts DEF ComposerInv, TypeInv
  <2>5. PageKnows(page', form', drafts)
    BY <1>1, <2>3, <2>4 DEF CallKnows, PageKnows, Agrees
  <2> QED
    BY <1>1, <1>2, <2>1, <2>2, <2>4, <2>5 DEF ComposerInv, TypeInv
<1> QED
  BY <1>3, <1>4 DEF Saved

LEMMA CallFailedKeeps ==
  ASSUME ComposerInv, NEW k \in Clicks, CallFailed(k)
  PROVE  ComposerInv'
<1>1. UNCHANGED <<form, page, drafts>> /\ drafts \in Seq(Draft) /\ Becomes(k, Idle)
  BY DEF CallFailed, ComposerInv, TypeInv
<1> QED
  BY <1>1, IdleFacts, NothingWritten, ApiKeeps

\* A handler ends, and the page it was made on is left.
LEMMA LeftFacts ==
  ASSUME ComposerInv, NEW k \in Clicks, UNCHANGED drafts,
         handlers' = Unheard([handlers EXCEPT ![k] = Idle])
  PROVE  handlers' \in [Clicks -> CallOf] /\ HandlersKnow(handlers', drafts')
<1> DEFINE hs == [handlers EXCEPT ![k] = Idle]
<1>1. hs \in [Clicks -> CallOf] /\ HandlersKnow(hs, drafts')
  BY IdleFacts DEF ComposerInv, TypeInv, HandlersKnow
<1> HIDE DEF hs
<1> QED
  BY <1>1, UnheardFacts DEF hs

\* The page of no post.
LEMMA NoPostFacts ==
  ASSUME NEW open \in BOOLEAN, NEW D
  PROVE  /\ New \in Form /\ Unforked(New)
         /\ NoPost(open) \in [open : BOOLEAN, post : Nat, token : Nat]
         /\ PageKnows(NoPost(open), New, D)
<1>1. {CHOOSE n \in Platforms \ MediaPlatforms : TRUE} \in SUBSET Platforms
  BY ComposerAssumption DEF ComposerAssumption
<1>2. New \in Form /\ Unforked(New)
  BY <1>1, BlankFacts DEF New
<1>3. NoPost(open) \in [open : BOOLEAN, post : Nat, token : Nat] /\ NoPost(open).post = NoRecord
  BY DEF NoPost, NoRecord
<1> QED
  BY <1>2, <1>3 DEF PageKnows

LEMMA LeavesKeeps ==
  ASSUME ComposerInv, NEW k \in Clicks, Leaves(k)
  PROVE  ComposerInv'
<1>1. /\ page' = NoPost(FALSE) /\ form' = New /\ UNCHANGED drafts
      /\ drafts \in Seq(Draft)
      /\ handlers' = Unheard([handlers EXCEPT ![k] = Idle])
  BY DEF Leaves, ComposerInv, TypeInv
<1> QED
  BY <1>1, LeftFacts, NoPostFacts DEF ComposerInv, TypeInv

LEMMA OpenedFacts ==
  ASSUME NEW D \in Seq(Draft), NEW p \in 1 .. Len(D),
         NEW t, t = D[p].writes
  PROVE  /\ [open |-> TRUE, post |-> p, token |-> t] \in [open : BOOLEAN, post : Nat, token : Nat]
         /\ FromPost(D[p].saved) \in Form /\ Unforked(FromPost(D[p].saved))
         /\ PageKnows([open |-> TRUE, post |-> p, token |-> t], FromPost(D[p].saved), D)
<1>1. D[p].saved \in Payload /\ t \in Nat
  BY DraftFacts
<1>2. /\ FromPost(D[p].saved) \in Form
      /\ Unforked(FromPost(D[p].saved))
      /\ Agrees(FromPost(D[p].saved), D[p].saved)
  BY <1>1, FromPostFacts
<1> QED
  BY <1>1, <1>2 DEF PageKnows

LEMMA ShowsPostFacts ==
  ASSUME drafts \in Seq(Draft), NEW p \in 1 .. Len(drafts), ShowsPost(p)
  PROVE  /\ page' \in [open : BOOLEAN, post : Nat, token : Nat]
         /\ form' \in Form /\ Unforked(form') /\ PageKnows(page', form', drafts)
BY OpenedFacts DEF ShowsPost

LEMMA OpenPostKeeps ==
  ASSUME ComposerInv, OpenPost
  PROVE  ComposerInv'
<1>1. UNCHANGED drafts /\ drafts \in Seq(Draft)
  BY DEF OpenPost, ComposerInv, TypeInv
<1>2. handlers' \in [Clicks -> CallOf] /\ HandlersKnow(handlers', drafts')
  BY <1>1, UnheardFacts DEF OpenPost, ComposerInv, TypeInv
<1>3. ASSUME NEW p \in DOMAIN drafts, ShowsPost(p)
      PROVE  ComposerInv'
  <2>1. p \in 1 .. Len(drafts)
    BY <1>1
  <2> QED
    BY <1>1, <1>2, <1>3, <2>1, ShowsPostFacts DEF ComposerInv, TypeInv
<1>4. ASSUME page' = NoPost(TRUE), form' = New
      PROVE  ComposerInv'
  BY <1>1, <1>2, <1>4, NoPostFacts DEF ComposerInv, TypeInv
<1> QED
  BY <1>3, <1>4 DEF OpenPost

LEMMA DuplicatedKeeps ==
  ASSUME ComposerInv, NEW k \in Clicks, Duplicated(k)
  PROVE  ComposerInv'
<1>1. /\ handlers[k].post \in 1 .. Len(drafts)
      /\ UNCHANGED drafts /\ drafts \in Seq(Draft)
  BY HandlerFacts DEF Duplicated, PostCalls, ComposerInv, TypeInv
<1>2. CASE Becomes(k, Idle) /\ UNCHANGED <<form, page>>
  BY <1>1, <1>2, IdleFacts, NothingWritten, ApiKeeps
<1>3. CASE ShowsPost(handlers[k].post) /\ handlers' = Unheard([handlers EXCEPT ![k] = Idle])
  BY <1>1, <1>3, LeftFacts, ShowsPostFacts DEF ComposerInv, TypeInv
<1> QED
  BY <1>2, <1>3 DEF Duplicated

LEMMA OthersWriteKeeps ==
  ASSUME ComposerInv, OthersWrite
  PROVE  ComposerInv'
<1>1. drafts \in Seq(Draft) /\ UNCHANGED <<form, page, handlers>>
  BY DEF OthersWrite, ComposerInv, TypeInv
<1>2. PICK p \in DOMAIN drafts :
        \/ \E n \in DOMAIN drafts[p].saved.content, t \in Texts \ {""} :
             Written(p, [drafts[p] EXCEPT !.saved.content[n].text = t])
        \/ \E s \in {"approved", "revisions_needed"} :
             Written(p, [drafts[p] EXCEPT !.status = s])
  BY DEF OthersWrite
<1>3. p \in 1 .. Len(drafts) /\ drafts[p] \in Draft
  BY <1>1
<1>4. drafts' \in Seq(Draft) /\ Onward(drafts, drafts')
  <2>1. ASSUME NEW n \in DOMAIN drafts[p].saved.content, NEW t \in Texts,
               Written(p, [drafts[p] EXCEPT !.saved.content[n].text = t])
        PROVE  drafts' \in Seq(Draft) /\ Onward(drafts, drafts')
    <3> DEFINE R == [text : Texts, extras : BOOLEAN]
               q == [drafts[p] EXCEPT !.saved.content[n].text = t]
               s == drafts[p].saved
               c == [s.content EXCEPT ![n] = [s.content[n] EXCEPT !.text = t]]
    <3>1. PICK D \in SUBSET Platforms : s.content \in [D -> R]
      BY <1>3 DEF Draft, Payload, TabsOf
    <3>2. c \in [D -> R]
      BY <2>1, <3>1
    <3>3. c \in TabsOf(R)
      BY <3>2, NewTabs
    <3>4. q = [drafts[p] EXCEPT !.saved = [s EXCEPT !.content = c]]
      BY <1>3 DEF Draft, Payload
    <3> HIDE DEF c
    <3>5. [s EXCEPT !.content = c] \in Payload
      BY <1>3, <3>3 DEF Draft, Payload
    <3>6. q \in Draft /\ q.writes = drafts[p].writes
      BY <1>3, <3>4, <3>5 DEF Draft
    <3> HIDE DEF q, s
    <3> QED
      BY <1>1, <1>3, <2>1, <3>6, WrittenFacts DEF q
  <2>2. ASSUME NEW s \in {"approved", "revisions_needed"},
               Written(p, [drafts[p] EXCEPT !.status = s])
        PROVE  drafts' \in Seq(Draft) /\ Onward(drafts, drafts')
    <3>1. /\ [drafts[p] EXCEPT !.status = s] \in Draft
          /\ [drafts[p] EXCEPT !.status = s].writes = drafts[p].writes
      BY <1>3 DEF Draft
    <3> QED
      BY <1>1, <1>3, <2>2, <3>1, WrittenFacts
  <2> QED
    BY <1>2, <2>1, <2>2
<1>5. HandlersKnow(handlers', drafts')
  BY <1>1, <1>4, OnwardKeepsCall DEF ComposerInv, TypeInv, HandlersKnow
<1>6. PageKnows(page, form, drafts')
  BY <1>4, OnwardKeepsPage DEF ComposerInv, TypeInv
<1> QED
  BY <1>1, <1>4, <1>5, <1>6 DEF ComposerInv, TypeInv

LEMMA ComposerStart == ComposerInit => ComposerInv
<1> SUFFICES ASSUME ComposerInit
             PROVE  ComposerInv
  OBVIOUS
<1>1. handlers \in [Clicks -> CallOf] /\ HandlersKnow(handlers, drafts)
  BY IdleFacts DEF ComposerInit, HandlersKnow
<1>2. drafts \in Seq(Draft)
  BY DEF ComposerInit
<1> QED
  BY <1>1, <1>2, NoPostFacts DEF ComposerInit, ComposerInv, TypeInv

LEMMA ComposerKeeps ==
  ASSUME ComposerInv, ComposerNext \/ UNCHANGED composerVars
  PROVE  ComposerInv'
<1>1. CASE UNCHANGED composerVars
  BY <1>1 DEF composerVars, ComposerInv, TypeInv
<1>2. ASSUME NEW k \in Clicks,
             \/ Save(k) \/ DuplicateOrArchive(k)
             \/ ApiSaves(k) \/ ApiSubmits(k) \/ ApiDuplicates(k) \/ ApiArchives(k)
             \/ Saved(k) \/ Duplicated(k) \/ Leaves(k) \/ CallFailed(k)
      PROVE  ComposerInv'
  BY <1>2, SaveKeeps, DuplicateOrArchiveKeeps, ApiSavesKeeps, ApiSubmitsKeeps, ApiDuplicatesKeeps,
     ApiArchivesKeeps, SavedKeeps, DuplicatedKeeps, LeavesKeeps, CallFailedKeeps
<1> QED
  BY <1>1, <1>2, TypeKeeps, OpenPostKeeps, OthersWriteKeeps DEF ComposerNext

LEMMA ComposerSays == ComposerInv => ComposerShowsWhatIsSaved
BY DEF ComposerInv, PageKnows, Unforked, Agrees, ComposerShowsWhatIsSaved

\* The form, the page and the handlers under way, of this page and of pages that were left, agree
\* with the posts as far as their tokens go (post-composer.tsx:88-153; composer.ts:105-183).
THEOREM ComposerInvariance == ServicesSpec => []ComposerInv
<1>1. ServicesInit => ComposerInv
  BY ComposerStart DEF ServicesInit
<1>2. ComposerInv /\ [ServicesNext]_servicesVars => ComposerInv'
  BY WhoMoves, ComposerKeeps
<1> QED
  BY <1>1, <1>2, PTL DEF ServicesSpec

\* Whatever is typed, lost, refused or written by others meanwhile, and however saves overlap with
\* duplicating, archiving and leaving the page, a form that is not dirty shows what the API holds
\* of its post unless somebody has written it since, and a tab that does not say it was customised
\* shows the shared text (post-composer.tsx:88-153, 460-487; composer.ts:105-183):
\* of the composer alone, and among the services.
THEOREM CleanFormsShowTheirPosts ==
  (ComposerSpec => []ComposerShowsWhatIsSaved) /\ (ServicesSpec => []ComposerShowsWhatIsSaved)
<1>1. ComposerInv /\ [ComposerNext]_<<now, composerVars>> => ComposerInv'
  <2> SUFFICES ASSUME ComposerInv, [ComposerNext]_<<now, composerVars>>
               PROVE  ComposerInv'
    OBVIOUS
  <2>1. ComposerNext \/ UNCHANGED composerVars
    OBVIOUS
  <2> QED
    BY <2>1, ComposerKeeps
<1> QED
  BY <1>1, ComposerStart, ComposerSays, ComposerInvariance, PTL DEF ComposerSpec

-----------------------------------------------------------------------------
(* The services together.                                                  *)

ApartInv ==
  MembersInv /\ ChannelsInv /\ MediaInv /\ VoicesInv /\ TemplatesInv /\ BudgetInv /\ TasksInv

\* What is looked for before it is made is never made twice: an invitation, an account and its
\* bucket, a job of an upload, a voice, a template and a budget line (the upserts and the checks
\* for a conflict of members, social, media, brand-voices, templates and campaigns).
THEOREM NothingIsMadeTwice == ServicesSpec => []NothingTwice
<1>1. ServicesInit => ApartInv
  BY MembersStart, ChannelsStart, MediaStart, VoicesStart, TemplatesStart, CampaignsStart
     DEF ApartInv
<1>2. ApartInv /\ [ServicesNext]_servicesVars => ApartInv'
  <2> SUFFICES ASSUME ApartInv, [ServicesNext]_servicesVars
               PROVE  ApartInv'
    OBVIOUS
  <2>1. now' \in Instants
    BY ClockKeeps DEF ApartInv, BudgetInv
  <2>2. MembersInv' /\ ChannelsInv' /\ MediaInv' /\ VoicesInv'
    BY WhoMoves, MembersKeep, ChannelsKeep, MediaKeeps, VoicesKeep DEF ApartInv
  <2>3. TemplatesInv'
    BY WhoMoves, TemplatesMove, TemplatesKeep DEF ApartInv
  <2>4. BudgetInv' /\ TasksInv'
    BY <2>1, WhoMoves, CampaignsMove, BudgetKeeps, TasksMove, TasksKeep DEF ApartInv
  <2> QED
    BY <2>2, <2>3, <2>4 DEF ApartInv
<1>3. ApartInv => NothingTwice
  <2> SUFFICES ASSUME ApartInv
               PROVE  NothingTwice
    OBVIOUS
  <2>1. AccountsApart
    BY ChannelsSay DEF ApartInv
  <2>2. InvitationsApart /\ OneJobPerUpload /\ VoicesApart /\ TemplatesApart
    BY DEF ApartInv, MembersInv, MediaInv, VoicesInv, TemplatesInv
  <2>3. BudgetLinesApart
    BY DEF ApartInv, BudgetInv, TasksInv, Stamped, BudgetLinesApart
  <2> QED
    BY <2>1, <2>2, <2>3 DEF NothingTwice
<1> QED
  BY <1>1, <1>2, <1>3, PTL DEF ServicesSpec

-----------------------------------------------------------------------------
(* Panels.  A table is shown as the service holds it, but for the rows     *)
(* that were not heard of; while an answer is under way, it is what will   *)
(* make up for the rows it is about.  Showing says so of one table, and    *)
(* the lemmas say what asking, hearing and typing do to it, whichever the  *)
(* table; a panel is one such clause for each of its tables.               *)

\* What an edit does to the rows S, and which rows it is about.
AboutRows(S, e) ==
  CASE e.how = "refill" -> DOMAIN S
    [] e.how = "end" -> {s \in DOMAIN S : S[s].device = e.device}
    [] e.how \in {"add", "replace", "confirm"} -> {e.id}
EditRows(S, e) ==
  CASE e.how = "add" -> [i \in DOMAIN S \cup {e.id} |-> IF i = e.id THEN e.row ELSE S[i]]
    [] e.how = "replace" -> [S EXCEPT ![e.id] = e.row]
    [] e.how = "refill" -> e.rows
    [] e.how = "end" ->
         [s \in DOMAIN S |-> IF s \in AboutRows(S, e) /\ S[s].status = "active"
                             THEN [S[s] EXCEPT !.status = "revoked"] ELSE S[s]]
    [] e.how = "confirm" -> S

\* The row i is shown in S as it is in T.
ShownSo(S, T, i) == i \in DOMAIN T /\ i \in DOMAIN S /\ S[i] = T[i]

Agree(S, T, t, U) == \A i \in DOMAIN T \cup DOMAIN S : <<t, i>> \notin U => ShownSo(S, T, i)

\* The edit e on its way brings the rows it is about to what they are in T.
Fits(S, T, t, U, e) ==
  /\ \A i \in DOMAIN T \cup DOMAIN S :
       <<t, i>> \notin U => i \in AboutRows(S, e) \/ ShownSo(S, T, i)
  /\ e.how \in {"add", "replace", "confirm", "refill", "end"}
  /\ e.how \in {"add", "replace", "confirm"} => e.id \in DOMAIN T /\ e.row = T[e.id]
  /\ e.how \in {"replace", "confirm"} => e.id \in DOMAIN S
  /\ e.how = "confirm" => S[e.id] = e.row \/ <<t, e.id>> \in U
  /\ e.how = "refill" => e.rows = T /\ DOMAIN T \subseteq DOMAIN S
  /\ e.how = "end" => \A i \in AboutRows(S, e) : i \in DOMAIN T /\ EditRows(S, e)[i] = T[i]

Shows(S, T, t, E, U) ==
  /\ DOMAIN S \subseteq DOMAIN T
  /\ IF t \in DOMAIN E THEN Fits(S, T, t, U, E[t]) ELSE Agree(S, T, t, U)

Showing(t, T) == Shows(shown[t], T, t, edits, unheard)

LEMMA NoEdits == \A t : t \notin DOMAIN <<>>
OBVIOUS

LEMMA EditedIs ==
  ASSUME NEW t, NEW e
  PROVE  /\ About(t, e) = AboutRows(shown[t], e)
         /\ Edited(t, e) = EditRows(shown[t], e)
BY DEF About, Edited, AboutRows, EditRows

\* An edit that fits leaves nothing wrong but what was not its business.
LEMMA EditSetsRight ==
  ASSUME NEW S, NEW T, NEW t, NEW U, NEW e, DOMAIN S \subseteq DOMAIN T, Fits(S, T, t, U, e)
  PROVE  /\ DOMAIN EditRows(S, e) \subseteq DOMAIN T
         /\ \A i \in DOMAIN T \cup DOMAIN EditRows(S, e) :
              (<<t, i>> \notin U \/ (i \in AboutRows(S, e) /\ (e.how = "confirm" => S[e.id] = e.row)))
                => ShownSo(EditRows(S, e), T, i)
<1>1. CASE e.how = "add"
  BY <1>1 DEF Fits, AboutRows, EditRows, ShownSo
<1>2. CASE e.how = "replace"
  BY <1>2 DEF Fits, AboutRows, EditRows, ShownSo
<1>3. CASE e.how = "confirm"
  <2>1. EditRows(S, e) = S /\ AboutRows(S, e) = {e.id}
    BY <1>3 DEF AboutRows, EditRows
  <2>2. e.id \in DOMAIN T /\ e.id \in DOMAIN S /\ e.row = T[e.id]
    BY <1>3 DEF Fits
  <2> QED
    BY <1>3, <2>1, <2>2 DEF Fits, ShownSo
<1>4. CASE e.how = "refill"
  BY <1>4 DEF Fits, AboutRows, EditRows, ShownSo
<1>5. CASE e.how = "end"
  <2>1. DOMAIN EditRows(S, e) = DOMAIN S
    BY <1>5 DEF EditRows
  <2>2. \A i \in DOMAIN S \ AboutRows(S, e) : EditRows(S, e)[i] = S[i]
    BY <1>5 DEF EditRows
  <2>3. AboutRows(S, e) \subseteq DOMAIN S
    BY <1>5 DEF AboutRows
  <2> QED
    BY <1>5, <2>1, <2>2, <2>3 DEF Fits, ShownSo
<1> QED
  BY <1>1, <1>2, <1>3, <1>4, <1>5 DEF Fits

\* The answer arrives and is worked in, or it is lost (the setRows of the handlers; their catch).
LEMMA HearsKeeps ==
  ASSUME Hears, NEW t \in DOMAIN shown, NEW T, Showing(t, T)
  PROVE  Shows(shown'[t], T, t, edits', unheard')
<1>1. edits' = <<>> /\ t \notin DOMAIN edits'
  BY NoEdits DEF Hears, Answered, Lost
<1>2. CASE Answered /\ t \in DOMAIN edits
  <2> DEFINE e == edits[t]
  <2>1. shown'[t] = EditRows(shown[t], e)
    BY <1>2, EditedIs DEF Answered
  <2>2. \A i : <<t, i>> \notin unheard' => <<t, i>> \notin unheard \/ i \in SetRight(t, e)
    BY <1>2 DEF Answered, Rows
  <2>3. \A i : i \in SetRight(t, e) =>
          i \in AboutRows(shown[t], e) /\ (e.how = "confirm" => shown[t][e.id] = e.row)
    BY EditedIs DEF SetRight
  <2>4. DOMAIN shown[t] \subseteq DOMAIN T /\ Fits(shown[t], T, t, unheard, e)
    BY <1>2 DEF Showing, Shows
  <2> HIDE DEF e
  <2> QED
    BY <1>1, <2>1, <2>2, <2>3, <2>4, EditSetsRight DEF Shows, Agree
<1>3. CASE Answered /\ t \notin DOMAIN edits
  <2>1. shown'[t] = shown[t]
    BY <1>3 DEF Answered
  <2>2. \A i : <<t, i>> \notin unheard' => <<t, i>> \notin unheard
    BY <1>3 DEF Answered, Rows
  <2> QED
    BY <1>1, <1>3, <2>1, <2>2 DEF Showing, Shows, Agree
<1>4. CASE Lost /\ t \in DOMAIN edits
  <2>1. shown'[t] = shown[t]
    BY <1>4 DEF Lost
  <2>2. \A i : <<t, i>> \notin unheard' =>
          <<t, i>> \notin unheard /\ i \notin AboutRows(shown[t], edits[t])
    BY <1>4, EditedIs DEF Lost, Rows
  <2> QED
    BY <1>1, <1>4, <2>1, <2>2 DEF Showing, Shows, Agree, Fits
<1>5. CASE Lost /\ t \notin DOMAIN edits
  BY <1>1, <1>5 DEF Lost, Showing, Shows, Agree
<1> QED
  BY <1>2, <1>3, <1>4, <1>5 DEF Hears

\* A change of one row is asked for, and the answer will carry the row.
LEMMA AsksAbout ==
  ASSUME NEW answer, Asks(answer), edits = <<>>, NEW t \in DOMAIN answer, NEW T, Showing(t, T),
         NEW T2, NEW id, DOMAIN T2 = DOMAIN T \cup {id}, \A j \in DOMAIN T : j # id => T2[j] = T[j],
         answer[t].how \in {"add", "replace"}, answer[t].id = id, answer[t].row = T2[id],
         answer[t].how = "replace" => id \in DOMAIN shown[t]
  PROVE  Shows(shown'[t], T2, t, edits', unheard')
<1>1. shown' = shown /\ edits' = answer /\ unheard' = unheard
  BY DEF Asks
<1>2. Agree(shown[t], T, t, unheard) /\ DOMAIN shown[t] \subseteq DOMAIN T
  BY NoEdits DEF Showing, Shows
<1>3. AboutRows(shown[t], answer[t]) = {id}
  BY DEF AboutRows
<1>4. Fits(shown[t], T2, t, unheard, answer[t])
  BY <1>2, <1>3 DEF Fits, Agree, ShownSo
<1> QED
  BY <1>1, <1>2, <1>4 DEF Shows

\* A change is asked for that the table has no part in.
LEMMA AsksElsewhere ==
  ASSUME NEW answer, Asks(answer), edits = <<>>, NEW t, t \notin DOMAIN answer,
         NEW T, Showing(t, T)
  PROVE  Shows(shown'[t], T, t, edits', unheard')
BY NoEdits DEF Asks, Showing, Shows

\* A form of one row is typed in, while its answer may be under way.
LEMMA TypedKeeps ==
  ASSUME NEW t \in DOMAIN shown, NEW row, Typed(t, row), NEW T, Showing(t, T), DOMAIN T = {1},
         t \in DOMAIN edits => edits[t].how \in {"replace", "confirm"}
  PROVE  Shows(shown'[t], T, t, edits', unheard')
<1>1. shown'[t] = <<row>> /\ edits' = edits /\ unheard' = unheard \cup {<<t, 1>>}
  BY DEF Typed
<1>2. DOMAIN <<row>> = {1}
  OBVIOUS
<1>3. CASE t \in DOMAIN edits
  <2>1. Fits(shown[t], T, t, unheard, edits[t])
    BY <1>3 DEF Showing, Shows
  <2>2. Fits(<<row>>, T, t, unheard \cup {<<t, 1>>}, edits[t])
    BY <1>2, <1>3, <2>1 DEF Fits
  <2> QED
    BY <1>1, <1>2, <1>3, <2>2 DEF Shows
<1>4. CASE t \notin DOMAIN edits
  BY <1>1, <1>2, <1>4 DEF Shows, Agree
<1> QED
  BY <1>3, <1>4

LEMMA TypedElsewhere ==
  ASSUME NEW t \in DOMAIN shown, NEW u, u # t, NEW row, Typed(u, row), NEW T, Showing(t, T)
  PROVE  Shows(shown'[t], T, t, edits', unheard')
BY DEF Typed, Showing, Shows, Agree, Fits

-----------------------------------------------------------------------------
(* Each panel and its tables.                                              *)

LEMMA TablesOfAccess ==
  /\ Table("connections") = connections /\ Table("connections")' = connections'
  /\ Table("devices") = devices /\ Table("devices")' = devices'
  /\ Table("sessions") = authSessions /\ Table("sessions")' = authSessions'
BY DEF Table

LEMMA TablesOfCampaigns ==
  /\ Table("milestones") = milestones /\ Table("milestones")' = milestones'
  /\ Table("budgetLines") = budgetLines /\ Table("budgetLines")' = budgetLines'
  /\ Table("reports") = reports /\ Table("reports")' = reports'
  /\ Table("tasks") = tasks /\ Table("tasks")' = tasks'
  /\ Table("templates") = templates /\ Table("templates")' = templates'
BY DEF Table

Counted(n) == [m \in 1 .. n |-> m]

LEMMA TablesOfAlerts ==
  /\ Table("monitors") = monitors /\ Table("monitors")' = monitors'
  /\ Table("mentions") = Counted(mentions) /\ Table("mentions")' = Counted(mentions')
  /\ Table("alerts") = alerts /\ Table("alerts")' = alerts'
BY DEF Table, Counted

LEMMA TablesOfReports ==
  /\ Table("reportTemplates") = Counted(reportTemplates)
  /\ Table("reportTemplates")' = Counted(reportTemplates')
  /\ Table("schedules") = schedules /\ Table("schedules")' = schedules'
  /\ Table("exports") = exports /\ Table("exports")' = exports'
  /\ Table("shareLinks") = shareLinks /\ Table("shareLinks")' = shareLinks'
BY DEF Table, Counted

LEMMA TablesOfSafety ==
  /\ Table("checks") = checks /\ Table("checks")' = checks'
  /\ Table("queue") = queue /\ Table("queue")' = queue'
  /\ Table("steps") = steps /\ Table("steps")' = steps'
BY DEF Table

FormFields == {"channels", "digest", "mutedTypes"}
FormOf(preference) == [f \in FormFields |-> preference[f]]

LEMMA TablesOfForms ==
  /\ Table("localePref") = << localPreferences[DemoUser] >>
  /\ Table("localePref")' = << localPreferences'[DemoUser] >>
  /\ Table("profile") = << compliance >> /\ Table("profile")' = << compliance' >>
  /\ Table("preferences") = << FormOf(preferences[DemoUser]) >>
  /\ Table("preferences")' = << FormOf(preferences'[DemoUser]) >>
BY DEF Table, FormOf, FormFields

\* Which tables there are, and that a panel has one call under way at most.
PanelsFormed ==
  /\ \A p \in Panels : PanelTables[p] \subseteq DOMAIN shown
  /\ loading \in BOOLEAN
  /\ ~loading => edits = <<>>

LEMMA FormedStays ==
  ASSUME PanelsFormed
  PROVE  /\ Hears => PanelsFormed'
         /\ \A answer : Asks(answer) => edits = <<>> /\ PanelsFormed'
         /\ \A t, row : Typed(t, row) => PanelsFormed'
         /\ UNCHANGED panelVars => PanelsFormed'
<1>1. Hears => DOMAIN shown' = DOMAIN shown
  BY DEF Hears, Answered, Lost
<1>2. \A t, row : Typed(t, row) => DOMAIN shown' = DOMAIN shown
  BY DEF Typed
<1> QED
  BY <1>1, <1>2 DEF PanelsFormed, Hears, Answered, Lost, Asks, Typed, panelVars

\* A list that got one record more, or whose record id was written.
LEMMA GrownBy ==
  ASSUME NEW list, Listed(list), NEW row
  PROVE  /\ DOMAIN Append(list, row) = DOMAIN list \cup {Len(Append(list, row))}
         /\ \A j \in DOMAIN list :
              j # Len(Append(list, row)) => Append(list, row)[j] = list[j]
         /\ Listed(Append(list, row))
BY ListedAppend

LEMMA WrittenBy ==
  ASSUME NEW list, NEW id \in DOMAIN list, NEW row
  PROVE  /\ DOMAIN [list EXCEPT ![id] = row] = DOMAIN list \cup {id}
         /\ \A j \in DOMAIN list : j # id => [list EXCEPT ![id] = row][j] = list[j]
OBVIOUS

LEMMA CountedOn ==
  ASSUME NEW n \in Nat
  PROVE  /\ DOMAIN Counted(n + 1) = DOMAIN Counted(n) \cup {n + 1}
         /\ \A j \in DOMAIN Counted(n) : Counted(n + 1)[j] = Counted(n)[j]
BY DEF Counted

LEMMA StartsSo ==
  ASSUME PanelsInit, NEW t \in DOMAIN shown
  PROVE  Showing(t, Table(t))
BY NoEdits DEF PanelsInit, Showing, Shows, Agree, ShownSo

LEMMA PanelsStart ==
  ASSUME PanelsInit
  PROVE  PanelsFormed
BY DEF PanelsInit, PanelsFormed

\* One more record is asked for, or a change of a record that is shown.
LEMMA AsksForNew ==
  ASSUME NEW answer, Asks(answer), edits = <<>>, NEW t \in DOMAIN answer, NEW T, Showing(t, T),
         Listed(T), NEW T2, NEW row, T2 = Append(T, row),
         answer[t] = [how |-> "add", id |-> Len(T2), row |-> T2[Len(T2)]]
  PROVE  Shows(shown'[t], T2, t, edits', unheard') /\ Listed(T2)
<1>1. /\ DOMAIN T2 = DOMAIN T \cup {Len(T2)} /\ Listed(T2)
      /\ \A j \in DOMAIN T : j # Len(T2) => T2[j] = T[j]
  BY GrownBy
<1>2. answer[t].how = "add" /\ answer[t].id = Len(T2) /\ answer[t].row = T2[Len(T2)]
  OBVIOUS
<1> DEFINE id == Len(T2)
<1> HIDE DEF id
<1>3. Shows(shown'[t], T2, t, edits', unheard')
  <2>1. DOMAIN T2 = DOMAIN T \cup {id} /\ \A j \in DOMAIN T : j # id => T2[j] = T[j]
    BY <1>1 DEF id
  <2>2. /\ answer[t].how \in {"add", "replace"} /\ answer[t].id = id /\ answer[t].row = T2[id]
        /\ answer[t].how = "replace" => id \in DOMAIN shown[t]
    BY <1>2 DEF id
  <2>3. \A new : DOMAIN new = DOMAIN T \cup {id} /\ (\A j \in DOMAIN T : j # id => new[j] = T[j])
                 /\ answer[t].row = new[id]
                   => Shows(shown'[t], new, t, edits', unheard')
    BY <2>2, AsksAbout
  <2> QED
    BY <2>1, <2>2, <2>3
<1> QED
  BY <1>1, <1>3

LEMMA AsksToChange ==
  ASSUME NEW answer, Asks(answer), edits = <<>>, NEW t \in DOMAIN answer, NEW T, Showing(t, T),
         NEW id \in DOMAIN shown[t], NEW T2, NEW row, T2 = [T EXCEPT ![id] = row] \/ T2 = T,
         answer[t] = [how |-> "replace", id |-> id, row |-> T2[id]]
  PROVE  Shows(shown'[t], T2, t, edits', unheard') /\ (Listed(T) => Listed(T2))
<1>1. id \in DOMAIN T
  BY DEF Showing, Shows
<1>2. /\ DOMAIN T2 = DOMAIN T \cup {id}
      /\ \A j \in DOMAIN T : j # id => T2[j] = T[j]
  BY <1>1, WrittenBy
<1>3. Listed(T) => Listed(T2)
  BY ListedWrite
<1> QED
  BY <1>2, <1>3, AsksAbout

\* Connections, devices and their sessions: a session shown as ended has ended, and the device of a
\* session never changes.
SessionsAlike(S, T) ==
  /\ DOMAIN S = DOMAIN T
  /\ \A s \in DOMAIN T :
       /\ T[s] \in [device : Nat, status : {"active", "revoked"}]
       /\ S[s] \in [device : Nat, status : {"active", "revoked"}]
       /\ S[s].device = T[s].device
       /\ S[s].status = "revoked" => T[s].status = "revoked"

IdentityShown ==
  /\ PanelsFormed
  /\ Showing("connections", connections)
  /\ Showing("devices", devices)
  /\ Showing("sessions", authSessions)
  /\ Listed(connections)
  /\ SessionsAlike(shown["sessions"], authSessions)

LEMMA IdentityTables ==
  /\ "identityPanel" \in Panels
  /\ PanelTables["identityPanel"] = {"connections", "devices", "sessions"}
BY DEF Panels, PanelTables

LEMMA IdentityPanelKeeps ==
  ASSUME IdentityShown, IdentityPanel \/ UNCHANGED <<identityVars, panelVars>>
  PROVE  IdentityShown'
<1> USE IdentityTables
<1>1. {"connections", "devices", "sessions"} \subseteq DOMAIN shown
  BY DEF IdentityShown, PanelsFormed
<1>2. Showing("connections", connections) /\ Showing("devices", devices) /\ Showing("sessions", authSessions)
  BY DEF IdentityShown
<1>3. DOMAIN shown["connections"] \subseteq DOMAIN connections
      /\ DOMAIN shown["devices"] \subseteq DOMAIN devices
  BY <1>2 DEF Showing, Shows
<1>4. CASE UNCHANGED <<identityVars, panelVars>>
  BY <1>4 DEF IdentityShown, PanelsFormed, Showing, identityVars, panelVars
<1>5. CASE Hears /\ UNCHANGED identityVars
  <2>1. Showing("connections", connections)' /\ Showing("devices", devices)'
        /\ Showing("sessions", authSessions)'
    BY <1>1, <1>2, <1>5, HearsKeeps DEF Showing, identityVars
  <2>2. SessionsAlike(shown'["sessions"], authSessions)
    <3> DEFINE S == shown["sessions"]
    <3>1. SessionsAlike(S, authSessions)
      BY DEF IdentityShown
    <3>2. CASE "sessions" \in DOMAIN edits /\ Answered
      <4> DEFINE e == edits["sessions"]
      <4>1. shown'["sessions"] = EditRows(S, e) /\ Fits(S, authSessions, "sessions", unheard, e)
        BY <1>1, <1>2, <3>2, EditedIs DEF Answered, Showing, Shows
      <4> HIDE DEF e
      <4>2. CASE e.how = "add"
        <5>1. e.id \in DOMAIN authSessions /\ e.row = authSessions[e.id]
          BY <4>1, <4>2 DEF Fits
        <5>2. /\ DOMAIN EditRows(S, e) = DOMAIN S
              /\ \A s \in DOMAIN S :
                   EditRows(S, e)[s] = IF s = e.id THEN authSessions[s] ELSE S[s]
          BY <3>1, <4>2, <5>1 DEF EditRows, SessionsAlike
        <5> QED
          BY <3>1, <4>1, <5>2 DEF SessionsAlike
      <4>3. CASE e.how = "replace"
        BY <3>1, <4>1, <4>3 DEF EditRows, Fits, SessionsAlike
      <4>4. CASE e.how = "refill"
        BY <3>1, <4>1, <4>4 DEF EditRows, Fits, SessionsAlike
      <4>5. CASE e.how = "confirm"
        BY <3>1, <4>1, <4>5 DEF EditRows, SessionsAlike
      <4>6. CASE e.how = "end"
        <5>1. DOMAIN EditRows(S, e) = DOMAIN S
          BY <4>6 DEF EditRows
        <5>2. \A s \in DOMAIN S : EditRows(S, e)[s] = IF s \in AboutRows(S, e) THEN authSessions[s] ELSE S[s]
          <6>1. \A s \in DOMAIN S \ AboutRows(S, e) : EditRows(S, e)[s] = S[s]
            BY <4>6 DEF EditRows
          <6>2. \A s \in AboutRows(S, e) : EditRows(S, e)[s] = authSessions[s]
            BY <4>1, <4>6 DEF Fits
          <6> QED
            BY <6>1, <6>2
        <5> QED
          BY <3>1, <4>1, <5>1, <5>2 DEF SessionsAlike
      <4> QED
        BY <4>1, <4>2, <4>3, <4>4, <4>5, <4>6 DEF Fits
    <3>3. CASE ~("sessions" \in DOMAIN edits /\ Answered)
      <4>1. shown'["sessions"] = S
        BY <1>1, <1>5, <3>3 DEF Hears, Answered, Lost
      <4> QED
        BY <3>1, <4>1
    <3> QED
      BY <3>2, <3>3
  <2> QED
    BY <1>5, <2>1, <2>2, FormedStays DEF IdentityShown, identityVars
<1>6. CASE createSsoConnection
  <2> DEFINE answer == [connections |-> Adds("connections", Len(connections'))]
  <2>1. PICK row : connections' = Append(connections, row) /\ UNCHANGED <<devices, authSessions>>
    BY <1>6 DEF createSsoConnection, CreateConnection
  <2>2. Asks(answer) /\ DOMAIN answer = {"connections"}
    BY <1>6 DEF createSsoConnection
  <2>3. answer["connections"]
          = [how |-> "add", id |-> Len(connections'), row |-> connections'[Len(connections')]]
    BY TablesOfAccess DEF Adds
  <2>4. edits = <<>> /\ PanelsFormed' /\ shown' = shown
    BY <2>2, FormedStays DEF IdentityShown, Asks
  <2> HIDE DEF answer
  <2>5. Showing("connections", connections)' /\ Listed(connections')
    BY <1>2, <2>1, <2>2, <2>3, <2>4, AsksForNew DEF Showing, IdentityShown
  <2>6. Showing("devices", devices)' /\ Showing("sessions", authSessions)'
    BY <1>2, <2>1, <2>2, <2>4, AsksElsewhere DEF Showing
  <2> QED
    BY <2>1, <2>4, <2>5, <2>6 DEF IdentityShown
<1>7. ASSUME NEW i \in DOMAIN shown["connections"], testSsoConnection(i) \/ disableSsoConnection(i)
      PROVE  IdentityShown'
  <2> DEFINE answer == [connections |-> Replaces("connections", i)]
  <2>1. PICK row : connections' = [connections EXCEPT ![i] = row] /\ UNCHANGED <<devices, authSessions>>
    BY <1>7 DEF testSsoConnection, disableSsoConnection, TestConnection, DisableConnection
  <2>2. Asks(answer) /\ DOMAIN answer = {"connections"}
    BY <1>7 DEF testSsoConnection, disableSsoConnection
  <2>3. answer["connections"] = [how |-> "replace", id |-> i, row |-> connections'[i]]
    BY TablesOfAccess DEF Replaces
  <2>4. edits = <<>> /\ PanelsFormed' /\ shown' = shown
    BY <2>2, FormedStays DEF IdentityShown, Asks
  <2> HIDE DEF answer
  <2>5. Showing("connections", connections)' /\ Listed(connections')
    BY <1>2, <2>1, <2>2, <2>3, <2>4, AsksToChange DEF Showing, IdentityShown
  <2>6. Showing("devices", devices)' /\ Showing("sessions", authSessions)'
    BY <1>2, <2>1, <2>2, <2>4, AsksElsewhere DEF Showing
  <2> QED
    BY <2>1, <2>4, <2>5, <2>6 DEF IdentityShown
<1>8. ASSUME NEW s \in DOMAIN shown["sessions"], revokeSession(s)
      PROVE  IdentityShown'
  <2> DEFINE answer == [sessions |-> Replaces("sessions", s)]
  <2>1. /\ authSessions' = [authSessions EXCEPT ![s].status = "revoked"]
        /\ UNCHANGED <<connections, devices>>
    BY <1>8 DEF revokeSession, RevokeAuthSession
  <2>2. Asks(answer) /\ DOMAIN answer = {"sessions"}
    BY <1>8 DEF revokeSession
  <2>3. /\ answer["sessions"].how = "replace" /\ answer["sessions"].id = s
        /\ answer["sessions"].row = authSessions'[s]
    BY TablesOfAccess DEF Replaces
  <2>4. edits = <<>> /\ PanelsFormed' /\ shown' = shown
    BY <2>2, FormedStays DEF IdentityShown, Asks
  <2>5. s \in DOMAIN authSessions
    BY DEF IdentityShown, SessionsAlike
  <2>6. /\ DOMAIN authSessions' = DOMAIN authSessions \cup {s}
        /\ \A j \in DOMAIN authSessions : j # s => authSessions'[j] = authSessions[j]
    BY <2>1, <2>5
  <2> HIDE DEF answer
  <2>7. Showing("sessions", authSessions)'
    BY <1>2, <2>2, <2>3, <2>4, <2>6, AsksAbout DEF Showing
  <2>8. Showing("connections", connections)' /\ Showing("devices", devices)'
    BY <1>2, <2>1, <2>2, <2>4, AsksElsewhere DEF Showing
  <2>9. SessionsAlike(shown'["sessions"], authSessions')
    BY <2>1, <2>4 DEF IdentityShown, SessionsAlike
  <2> QED
    BY <2>1, <2>4, <2>7, <2>8, <2>9 DEF IdentityShown
<1>9. ASSUME NEW d \in DOMAIN shown["devices"], trustDevice(d)
      PROVE  IdentityShown'
  <2> DEFINE answer == [devices |-> Replaces("devices", d)]
  <2>1. devices' = [devices EXCEPT ![d] = "trusted"] /\ UNCHANGED <<connections, authSessions>>
    BY <1>9 DEF trustDevice, TrustDevice
  <2>2. Asks(answer) /\ DOMAIN answer = {"devices"}
    BY <1>9 DEF trustDevice
  <2>3. /\ answer["devices"].how = "replace" /\ answer["devices"].id = d
        /\ answer["devices"].row = devices'[d]
    BY TablesOfAccess DEF Replaces
  <2>4. edits = <<>> /\ PanelsFormed' /\ shown' = shown
    BY <2>2, FormedStays DEF IdentityShown, Asks
  <2>5. /\ DOMAIN devices' = DOMAIN devices \cup {d}
        /\ \A j \in DOMAIN devices : j # d => devices'[j] = devices[j]
    BY <1>3, <2>1, WrittenBy
  <2> HIDE DEF answer
  <2>6. Showing("devices", devices)'
    BY <1>2, <2>2, <2>3, <2>4, <2>5, AsksAbout DEF Showing
  <2>7. Showing("connections", connections)' /\ Showing("sessions", authSessions)'
    BY <1>2, <2>1, <2>2, <2>4, AsksElsewhere DEF Showing
  <2> QED
    BY <2>1, <2>4, <2>6, <2>7 DEF IdentityShown
<1>10. ASSUME NEW d \in DOMAIN shown["devices"], revokeDevice(d)
       PROVE  IdentityShown'
  <2> DEFINE answer == [devices |-> Replaces("devices", d), sessions |-> EndsSessionsOf(d)]
  <2> DEFINE S == shown["sessions"]
  <2>1. /\ devices' = [devices EXCEPT ![d] = "revoked"] /\ UNCHANGED connections
        /\ authSessions' = [s \in DOMAIN authSessions |->
             IF authSessions[s].device = d
             THEN [authSessions[s] EXCEPT !.status = "revoked"] ELSE authSessions[s]]
    BY <1>10 DEF revokeDevice, RevokeDevice
  <2>2. Asks(answer) /\ DOMAIN answer = {"devices", "sessions"}
    BY <1>10 DEF revokeDevice
  <2>3. /\ answer["devices"].how = "replace" /\ answer["devices"].id = d
        /\ answer["devices"].row = devices'[d]
        /\ answer["sessions"].how = "end" /\ answer["sessions"].device = d
    BY TablesOfAccess DEF Replaces, EndsSessionsOf
  <2>4. /\ edits = <<>> /\ PanelsFormed'
        /\ shown' = shown /\ edits' = answer /\ unheard' = unheard
    BY <2>2, FormedStays DEF IdentityShown, Asks
  <2>5. /\ DOMAIN devices' = DOMAIN devices \cup {d}
        /\ \A j \in DOMAIN devices : j # d => devices'[j] = devices[j]
    BY <1>3, <2>1, WrittenBy
  <2> HIDE DEF answer
  <2>6. Showing("devices", devices)'
    BY <1>2, <2>2, <2>3, <2>4, <2>5, AsksAbout DEF Showing
  <2>7. Showing("connections", connections)'
    BY <1>2, <2>1, <2>2, <2>4, AsksElsewhere DEF Showing
  <2>8. SessionsAlike(S, authSessions)
    BY DEF IdentityShown
  <2>9. SessionsAlike(S, authSessions')
    BY <2>1, <2>8 DEF SessionsAlike
  <2>10. Agree(S, authSessions, "sessions", unheard)
    BY <1>2, <2>4, NoEdits DEF Showing, Shows
  <2> DEFINE e == answer["sessions"]
  <2>11. AboutRows(S, e) = {s \in DOMAIN S : S[s].device = d}
    BY <2>3 DEF AboutRows
  <2>12. \A s \in DOMAIN S \ AboutRows(S, e) : authSessions'[s] = authSessions[s]
    BY <2>1, <2>8, <2>11 DEF SessionsAlike
  <2>13. \A s \in AboutRows(S, e) : EditRows(S, e)[s] = authSessions'[s]
    <3> SUFFICES ASSUME NEW s \in AboutRows(S, e)
                 PROVE  EditRows(S, e)[s] = authSessions'[s]
      OBVIOUS
    <3>1. s \in DOMAIN S /\ S[s].device = d
      BY <2>11
    <3>2. authSessions'[s] = [authSessions[s] EXCEPT !.status = "revoked"]
      BY <2>1, <2>8, <3>1 DEF SessionsAlike
    <3>3. EditRows(S, e)[s] = IF S[s].status = "active" THEN [S[s] EXCEPT !.status = "revoked"] ELSE S[s]
      BY <2>3, <3>1 DEF EditRows
    <3>4. \A a, b \in [device : Nat, status : {"active", "revoked"}] : a.device = b.device =>
            [a EXCEPT !.status = "revoked"]
              = IF b.status = "active" THEN [b EXCEPT !.status = "revoked"] ELSE b
      OBVIOUS
    <3> QED
      BY <2>8, <3>1, <3>2, <3>3, <3>4 DEF SessionsAlike
  <2>14. Fits(S, authSessions', "sessions", unheard, e)
    BY <2>3, <2>9, <2>10, <2>11, <2>12, <2>13 DEF Fits, Agree, ShownSo, SessionsAlike
  <2>15. Showing("sessions", authSessions)'
    BY <2>2, <2>4, <2>9, <2>14 DEF Showing, Shows, SessionsAlike
  <2> QED
    BY <2>1, <2>4, <2>6, <2>7, <2>9, <2>15 DEF IdentityShown
<1> QED
  BY <1>4, <1>5, <1>6, <1>7, <1>8, <1>9, <1>10 DEF IdentityPanel

\* Milestones, budget lines and reports.
CampaignsShown ==
  /\ PanelsFormed
  /\ Showing("milestones", milestones)
  /\ Showing("budgetLines", budgetLines)
  /\ Showing("reports", reports)
  /\ Listed(reports)

LEMMA CampaignsTables ==
  /\ "campaignsPanel" \in Panels
  /\ PanelTables["campaignsPanel"] = {"milestones", "budgetLines", "reports"}
BY DEF Panels, PanelTables

LEMMA CampaignsPanelKeeps ==
  ASSUME CampaignsShown, BudgetInv, CampaignsPanel \/ UNCHANGED <<campaignsVars, panelVars>>
  PROVE  CampaignsShown'
<1> USE CampaignsTables
<1>1. {"milestones", "budgetLines", "reports"} \subseteq DOMAIN shown
  BY DEF CampaignsShown, PanelsFormed
<1>2. /\ Showing("milestones", milestones) /\ Showing("budgetLines", budgetLines)
      /\ Showing("reports", reports) /\ Listed(reports) /\ Listed(budgetLines)
  BY DEF CampaignsShown, BudgetInv, Listed
<1>3. CASE UNCHANGED <<campaignsVars, panelVars>>
  BY <1>3 DEF CampaignsShown, PanelsFormed, Showing, campaignsVars, panelVars
<1>4. CASE Hears /\ UNCHANGED campaignsVars
  BY <1>1, <1>2, <1>4, HearsKeeps, FormedStays DEF CampaignsShown, Showing, campaignsVars
<1>5. ASSUME NEW m \in DOMAIN shown["milestones"], completeMilestone(m)
      PROVE  CampaignsShown'
  <2> DEFINE answer == [milestones |-> Replaces("milestones", m)]
  <2>1. PICK row : (milestones' = [milestones EXCEPT ![m] = row] \/ milestones' = milestones)
                   /\ UNCHANGED <<budgetLines, reports>>
    BY <1>5 DEF completeMilestone, CompleteMilestone, campaignsVars
  <2>2. Asks(answer) /\ DOMAIN answer = {"milestones"}
    BY <1>5 DEF completeMilestone
  <2>3. answer["milestones"] = [how |-> "replace", id |-> m, row |-> milestones'[m]]
    BY TablesOfCampaigns DEF Replaces
  <2>4. edits = <<>> /\ PanelsFormed'
    BY <2>2, FormedStays DEF CampaignsShown
  <2> HIDE DEF answer
  <2>5. Showing("milestones", milestones)'
    BY <1>2, <2>1, <2>2, <2>3, <2>4, AsksToChange DEF Showing
  <2>6. Showing("budgetLines", budgetLines)' /\ Showing("reports", reports)'
    BY <1>2, <2>1, <2>2, <2>4, AsksElsewhere DEF Showing
  <2> QED
    BY <1>2, <2>1, <2>4, <2>5, <2>6 DEF CampaignsShown
<1>6. ASSUME NEW category, NEW spent, saveBudgetLine(category, 1, spent)
      PROVE  CampaignsShown'
  <2> DEFINE line == LineOf(category)
  <2> DEFINE id == IF line = NoRecord THEN Len(budgetLines') ELSE line
  <2> DEFINE answer == [budgetLines |-> Adds("budgetLines", id)]
  <2>1. UpsertBudgetLine(category, 1, spent) /\ UNCHANGED <<milestones, reports>>
    BY <1>6 DEF saveBudgetLine, UpsertBudgetLine
  <2>2. Asks(answer) /\ DOMAIN answer = {"budgetLines"}
    BY <1>6 DEF saveBudgetLine
  <2>3. /\ answer["budgetLines"].how = "add" /\ answer["budgetLines"].id = id
        /\ answer["budgetLines"].row = budgetLines'[id]
    BY TablesOfCampaigns DEF Adds
  <2>4. edits = <<>> /\ PanelsFormed'
    BY <2>2, FormedStays DEF CampaignsShown
  <2>5. /\ DOMAIN budgetLines' = DOMAIN budgetLines \cup {id}
        /\ \A j \in DOMAIN budgetLines : j # id => budgetLines'[j] = budgetLines[j]
    <3>1. CASE line = NoRecord
      <4>1. PICK row : budgetLines' = Append(budgetLines, row)
        BY <2>1, <3>1 DEF UpsertBudgetLine
      <4> QED
        BY <1>2, <3>1, <4>1, GrownBy
    <3>2. CASE line # NoRecord
      <4>1. line \in DOMAIN budgetLines
        BY <3>2, LineOfFacts
      <4>2. PICK row : budgetLines' = [budgetLines EXCEPT ![line] = row]
        BY <2>1, <3>2 DEF UpsertBudgetLine
      <4> HIDE DEF line
      <4> QED
        BY <3>2, <4>1, <4>2, WrittenBy
    <3> QED
      BY <3>1, <3>2
  <2> HIDE DEF answer, id
  <2>6. Showing("budgetLines", budgetLines)'
    BY <1>2, <2>2, <2>3, <2>4, <2>5, AsksAbout DEF Showing
  <2>7. Showing("milestones", milestones)' /\ Showing("reports", reports)'
    BY <1>2, <2>1, <2>2, <2>4, AsksElsewhere DEF Showing
  <2> QED
    BY <1>2, <2>1, <2>4, <2>6, <2>7 DEF CampaignsShown
<1>7. CASE generateReport
  <2> DEFINE answer == [reports |-> Adds("reports", Len(reports'))]
  <2>1. PICK row : reports' = Append(reports, row) /\ UNCHANGED <<milestones, budgetLines>>
    BY <1>7 DEF generateReport, GenerateReport
  <2>2. Asks(answer) /\ DOMAIN answer = {"reports"}
    BY <1>7 DEF generateReport
  <2>3. answer["reports"] = [how |-> "add", id |-> Len(reports'), row |-> reports'[Len(reports')]]
    BY TablesOfCampaigns DEF Adds
  <2>4. edits = <<>> /\ PanelsFormed'
    BY <2>2, FormedStays DEF CampaignsShown
  <2> HIDE DEF answer
  <2>5. Showing("reports", reports)' /\ Listed(reports')
    BY <1>2, <2>1, <2>2, <2>3, <2>4, AsksForNew DEF Showing
  <2>6. Showing("milestones", milestones)' /\ Showing("budgetLines", budgetLines)'
    BY <1>2, <2>1, <2>2, <2>4, AsksElsewhere DEF Showing
  <2> QED
    BY <2>4, <2>5, <2>6 DEF CampaignsShown
<1> QED
  BY <1>3, <1>4, <1>5, <1>6, <1>7 DEF CampaignsPanel

\* Tasks.
TasksShown == PanelsFormed /\ Showing("tasks", tasks) /\ Listed(tasks)

LEMMA TasksTables == "tasksPanel" \in Panels /\ PanelTables["tasksPanel"] = {"tasks"}
BY DEF Panels, PanelTables

LEMMA TasksPanelKeeps ==
  ASSUME TasksShown, TasksPanel \/ UNCHANGED <<tasksVars, panelVars>>
  PROVE  TasksShown'
<1>1. "tasks" \in DOMAIN shown /\ Showing("tasks", tasks) /\ Listed(tasks)
  BY TasksTables DEF TasksShown, PanelsFormed
<1>2. CASE UNCHANGED <<tasksVars, panelVars>>
  BY <1>2 DEF TasksShown, PanelsFormed, Showing, tasksVars, panelVars
<1>3. CASE Hears /\ UNCHANGED tasksVars
  BY <1>1, <1>3, HearsKeeps, FormedStays DEF TasksShown, Showing, tasksVars
<1>4. CASE createTask
  <2> DEFINE answer == [tasks |-> Adds("tasks", Len(tasks'))]
  <2>1. PICK row : tasks' = Append(tasks, row)
    BY <1>4 DEF createTask, CreateTask
  <2>2. Asks(answer) /\ DOMAIN answer = {"tasks"}
    BY <1>4 DEF createTask
  <2>3. answer["tasks"] = [how |-> "add", id |-> Len(tasks'), row |-> tasks'[Len(tasks')]]
    BY TablesOfCampaigns DEF Adds
  <2>4. edits = <<>> /\ PanelsFormed'
    BY <2>2, FormedStays DEF TasksShown
  <2> HIDE DEF answer
  <2> QED
    BY <1>1, <2>1, <2>2, <2>3, <2>4, AsksForNew DEF TasksShown, Showing
<1>5. ASSUME NEW k \in DOMAIN shown["tasks"], markTaskDone(k)
      PROVE  TasksShown'
  <2> DEFINE answer == [tasks |-> Replaces("tasks", k)]
  <2>1. PICK row : tasks' = [tasks EXCEPT ![k] = row]
    BY <1>5 DEF markTaskDone, UpdateTaskStatus
  <2>2. Asks(answer) /\ DOMAIN answer = {"tasks"}
    BY <1>5 DEF markTaskDone
  <2>3. answer["tasks"] = [how |-> "replace", id |-> k, row |-> tasks'[k]]
    BY TablesOfCampaigns DEF Replaces
  <2>4. edits = <<>> /\ PanelsFormed'
    BY <2>2, FormedStays DEF TasksShown
  <2> HIDE DEF answer
  <2> QED
    BY <1>1, <2>1, <2>2, <2>3, <2>4, AsksToChange DEF TasksShown, Showing
<1> QED
  BY <1>2, <1>3, <1>4, <1>5 DEF TasksPanel

\* Templates: what they have made is not shown.
TemplatesShown == PanelsFormed /\ Showing("templates", templates) /\ Listed(templates)

LEMMA TemplatesTables ==
  "templatesPanel" \in Panels /\ PanelTables["templatesPanel"] = {"templates"}
BY DEF Panels, PanelTables

LEMMA TemplatesPanelKeeps ==
  ASSUME TemplatesShown, TemplatesPanel \/ UNCHANGED <<templatesVars, panelVars>>
  PROVE  TemplatesShown'
<1>1. "templates" \in DOMAIN shown /\ Showing("templates", templates) /\ Listed(templates)
  BY TemplatesTables DEF TemplatesShown, PanelsFormed
<1>2. CASE UNCHANGED <<templatesVars, panelVars>>
  BY <1>2 DEF TemplatesShown, PanelsFormed, Showing, templatesVars, panelVars
<1>3. CASE Hears /\ UNCHANGED templatesVars
  BY <1>1, <1>3, HearsKeeps, FormedStays DEF TemplatesShown, Showing, templatesVars
<1>4. ASSUME NEW name, createTemplate(name)
      PROVE  TemplatesShown'
  <2> DEFINE answer == [templates |-> Adds("templates", Len(templates'))]
  <2>1. PICK row : templates' = Append(templates, row)
    BY <1>4 DEF createTemplate, CreateTemplate
  <2>2. Asks(answer) /\ DOMAIN answer = {"templates"}
    BY <1>4 DEF createTemplate
  <2>3. answer["templates"]
          = [how |-> "add", id |-> Len(templates'), row |-> templates'[Len(templates')]]
    BY TablesOfCampaigns DEF Adds
  <2>4. edits = <<>> /\ PanelsFormed'
    BY <2>2, FormedStays DEF TemplatesShown
  <2> HIDE DEF answer
  <2> QED
    BY <1>1, <2>1, <2>2, <2>3, <2>4, AsksForNew DEF TemplatesShown, Showing
<1>5. ASSUME NEW k \in DOMAIN shown["templates"], useTemplate(k)
      PROVE  TemplatesShown'
  <2> DEFINE answer == [templates |-> Replaces("templates", k)]
  <2>1. PICK row : templates' = [templates EXCEPT ![k] = row]
    BY <1>5 DEF useTemplate, UseTemplate
  <2>2. Asks(answer) /\ DOMAIN answer = {"templates"}
    BY <1>5 DEF useTemplate
  <2>3. answer["templates"] = [how |-> "replace", id |-> k, row |-> templates'[k]]
    BY TablesOfCampaigns DEF Replaces
  <2>4. edits = <<>> /\ PanelsFormed'
    BY <2>2, FormedStays DEF TemplatesShown
  <2> HIDE DEF answer
  <2> QED
    BY <1>1, <2>1, <2>2, <2>3, <2>4, AsksToChange DEF TemplatesShown, Showing
<1> QED
  BY <1>2, <1>3, <1>4, <1>5 DEF TemplatesPanel

\* Monitors, mentions and alerts: a mention that the panel takes in always raises an alert.
ListeningShown ==
  /\ PanelsFormed
  /\ Showing("monitors", monitors)
  /\ Showing("mentions", Counted(mentions))
  /\ Showing("alerts", alerts)
  /\ Listed(monitors) /\ Listed(alerts) /\ mentions \in Nat

LEMMA ListeningTables ==
  /\ "listeningPanel" \in Panels
  /\ PanelTables["listeningPanel"] = {"monitors", "mentions", "alerts"}
BY DEF Panels, PanelTables

LEMMA CrisisRaises ==
  ASSUME NEW m, NEW threshold, NEW u, IngestMention(m, CrisisMention(threshold), u)
  PROVE  /\ \E row : alerts' = Append(alerts, row)
         /\ mentions' = mentions + 1
         /\ UNCHANGED monitors
<1> DEFINE mention == CrisisMention(threshold)
<1> DEFINE severity == AssessSeverity(monitors[m].alertThreshold, mention)
<1>1. mention.sentiment = "negative"
  BY DEF CrisisMention
<1> HIDE DEF mention
<1>2. severity # "none"
  <2> DEFINE high == mention.reach >= monitors[m].alertThreshold * 1000
  <2>1. CASE high
    BY <1>1, <2>1 DEF AssessSeverity
  <2>2. CASE ~high
    BY <1>1, <2>2 DEF AssessSeverity
  <2> QED
    BY <2>1, <2>2
<1>3. IngestMention(m, mention, u)
  BY DEF mention
<1> QED
  BY <1>2, <1>3 DEF IngestMention

LEMMA ListeningPanelKeeps ==
  ASSUME ListeningShown, ListeningPanel \/ UNCHANGED <<alertsVars, panelVars>>
  PROVE  ListeningShown'
<1>1. {"monitors", "mentions", "alerts"} \subseteq DOMAIN shown
  BY ListeningTables DEF ListeningShown, PanelsFormed
<1>2. /\ Showing("monitors", monitors) /\ Showing("mentions", Counted(mentions))
      /\ Showing("alerts", alerts) /\ Listed(monitors) /\ Listed(alerts) /\ mentions \in Nat
  BY DEF ListeningShown
<1>3. CASE UNCHANGED <<alertsVars, panelVars>>
  BY <1>3 DEF ListeningShown, PanelsFormed, Showing, alertsVars, panelVars
<1>4. CASE Hears /\ UNCHANGED alertsVars
  BY <1>1, <1>2, <1>4, HearsKeeps, FormedStays DEF ListeningShown, Showing, alertsVars
<1>5. CASE createMonitor
  <2> DEFINE answer == [monitors |-> Adds("monitors", Len(monitors'))]
  <2>1. PICK row : monitors' = Append(monitors, row) /\ UNCHANGED <<mentions, alerts>>
    BY <1>5 DEF createMonitor, CreateMonitor
  <2>2. Asks(answer) /\ DOMAIN answer = {"monitors"}
    BY <1>5 DEF createMonitor
  <2>3. answer["monitors"] = [how |-> "add", id |-> Len(monitors'), row |-> monitors'[Len(monitors')]]
    BY TablesOfAlerts DEF Adds
  <2>4. edits = <<>> /\ PanelsFormed'
    BY <2>2, FormedStays DEF ListeningShown
  <2> HIDE DEF answer
  <2>5. Showing("monitors", monitors)' /\ Listed(monitors')
    BY <1>2, <2>1, <2>2, <2>3, <2>4, AsksForNew DEF Showing
  <2>6. Showing("mentions", Counted(mentions))' /\ Showing("alerts", alerts)'
    BY <1>2, <2>1, <2>2, <2>4, AsksElsewhere DEF Showing
  <2> QED
    BY <1>2, <2>1, <2>4, <2>5, <2>6 DEF ListeningShown
<1>6. ASSUME NEW m \in DOMAIN shown["monitors"], toggleMonitor(m)
      PROVE  ListeningShown'
  <2> DEFINE answer == [monitors |-> Replaces("monitors", m)]
  <2>1. PICK row : monitors' = [monitors EXCEPT ![m] = row] /\ UNCHANGED <<mentions, alerts>>
    BY <1>6 DEF toggleMonitor, SetMonitorStatus
  <2>2. Asks(answer) /\ DOMAIN answer = {"monitors"}
    BY <1>6 DEF toggleMonitor
  <2>3. answer["monitors"] = [how |-> "replace", id |-> m, row |-> monitors'[m]]
    BY TablesOfAlerts DEF Replaces
  <2>4. edits = <<>> /\ PanelsFormed'
    BY <2>2, FormedStays DEF ListeningShown
  <2> HIDE DEF answer
  <2>5. Showing("monitors", monitors)' /\ Listed(monitors')
    BY <1>2, <2>1, <2>2, <2>3, <2>4, AsksToChange DEF Showing
  <2>6. Showing("mentions", Counted(mentions))' /\ Showing("alerts", alerts)'
    BY <1>2, <2>1, <2>2, <2>4, AsksElsewhere DEF Showing
  <2> QED
    BY <1>2, <2>1, <2>4, <2>5, <2>6 DEF ListeningShown
<1>7. ASSUME NEW m \in DOMAIN shown["monitors"], ingestMention(m)
      PROVE  ListeningShown'
  <2> DEFINE answer == [mentions |-> Adds("mentions", mentions'), alerts |-> Adds("alerts", Len(alerts'))]
  <2>1. PICK row : alerts' = Append(alerts, row)
    BY <1>7, CrisisRaises DEF ingestMention
  <2>2. mentions' = mentions + 1 /\ UNCHANGED monitors
    BY <1>7, CrisisRaises DEF ingestMention
  <2>3. Asks(answer) /\ DOMAIN answer = {"mentions", "alerts"}
    BY <1>7 DEF ingestMention
  <2>4. answer["alerts"] = [how |-> "add", id |-> Len(alerts'), row |-> alerts'[Len(alerts')]]
    BY TablesOfAlerts DEF Adds
  <2>5. /\ answer["mentions"].how = "add" /\ answer["mentions"].id = mentions + 1
        /\ answer["mentions"].row = Counted(mentions')[mentions + 1]
    BY <2>2, TablesOfAlerts DEF Adds
  <2>6. edits = <<>> /\ PanelsFormed'
    BY <2>3, FormedStays DEF ListeningShown
  <2> HIDE DEF answer
  <2>7. Showing("alerts", alerts)' /\ Listed(alerts')
    BY <1>2, <2>1, <2>3, <2>4, <2>6, AsksForNew DEF Showing
  <2>8. Showing("mentions", Counted(mentions))'
    <3>1. /\ DOMAIN Counted(mentions') = DOMAIN Counted(mentions) \cup {mentions + 1}
          /\ \A j \in DOMAIN Counted(mentions) : Counted(mentions')[j] = Counted(mentions)[j]
      BY <1>2, <2>2, CountedOn
    <3> QED
      BY <1>2, <2>3, <2>5, <2>6, <3>1, AsksAbout DEF Showing
  <2>9. Showing("monitors", monitors)'
    BY <1>2, <2>2, <2>3, <2>6, AsksElsewhere DEF Showing
  <2> QED
    BY <1>2, <2>2, <2>6, <2>7, <2>8, <2>9 DEF ListeningShown
<1>8. ASSUME NEW a \in DOMAIN shown["alerts"], resolveAlert(a)
      PROVE  ListeningShown'
  <2> DEFINE answer == [alerts |-> Replaces("alerts", a)]
  <2>0. PICK row : alerts' = [alerts EXCEPT ![a] = row] \/ alerts' = alerts
    BY <1>8 DEF resolveAlert, ResolveAlert, alertsVars
  <2>1. monitors' = monitors /\ mentions' = mentions
    BY <1>8 DEF resolveAlert, ResolveAlert, alertsVars
  <2>2. Asks(answer) /\ DOMAIN answer = {"alerts"}
    BY <1>8 DEF resolveAlert
  <2>3. answer["alerts"] = [how |-> "replace", id |-> a, row |-> alerts'[a]]
    BY TablesOfAlerts DEF Replaces
  <2>4. edits = <<>> /\ PanelsFormed'
    BY <2>2, FormedStays DEF ListeningShown
  <2> HIDE DEF answer
  <2>5. Shows(shown'["alerts"], alerts', "alerts", edits', unheard')
        /\ (Listed(alerts) => Listed(alerts'))
    <3>1. Showing("alerts", alerts)
      BY <1>2
    <3>2. answer["alerts"] = [how |-> "replace", id |-> a, row |-> alerts'[a]]
      BY <2>3
    <3>3. "alerts" \in DOMAIN answer /\ Asks(answer) /\ edits = <<>>
      BY <2>2, <2>4
    <3>4. CASE alerts' = [alerts EXCEPT ![a] = row]
      BY <1>8, <3>1, <3>2, <3>3, <3>4, AsksToChange
    <3>5. CASE alerts' = alerts
      BY <1>8, <3>1, <3>2, <3>3, <3>5, AsksToChange
    <3> QED
      BY <2>0, <3>4, <3>5
  <2>6. Showing("monitors", monitors)' /\ Showing("mentions", Counted(mentions))'
    BY <1>2, <2>1, <2>2, <2>4, AsksElsewhere DEF Showing
  <2> QED
    BY <1>2, <2>1, <2>4, <2>5, <2>6 DEF ListeningShown, Showing
<1> QED
  BY <1>3, <1>4, <1>5, <1>6, <1>7, <1>8 DEF ListeningPanel

\* Reports: templates, schedules, exports and their links are only ever added.
ReportingShown ==
  /\ PanelsFormed
  /\ Showing("reportTemplates", Counted(reportTemplates))
  /\ Showing("schedules", schedules)
  /\ Showing("exports", exports)
  /\ Showing("shareLinks", shareLinks)
  /\ reportTemplates \in Nat /\ Listed(schedules) /\ Listed(exports) /\ Listed(shareLinks)

LEMMA ReportingTables ==
  /\ "reportingPanel" \in Panels
  /\ PanelTables["reportingPanel"] = {"reportTemplates", "schedules", "exports", "shareLinks"}
BY DEF Panels, PanelTables

LEMMA ReportingPanelKeeps ==
  ASSUME ReportingShown, ReportingPanel \/ UNCHANGED <<reportsVars, panelVars>>
  PROVE  ReportingShown'
<1>1. {"reportTemplates", "schedules", "exports", "shareLinks"} \subseteq DOMAIN shown
  BY ReportingTables DEF ReportingShown, PanelsFormed
<1>2. /\ Showing("reportTemplates", Counted(reportTemplates)) /\ Showing("schedules", schedules)
      /\ Showing("exports", exports) /\ Showing("shareLinks", shareLinks)
      /\ reportTemplates \in Nat /\ Listed(schedules) /\ Listed(exports) /\ Listed(shareLinks)
  BY DEF ReportingShown
<1>3. CASE UNCHANGED <<reportsVars, panelVars>>
  BY <1>3 DEF ReportingShown, PanelsFormed, Showing, reportsVars, panelVars
<1>4. CASE Hears /\ UNCHANGED reportsVars
  BY <1>1, <1>2, <1>4, HearsKeeps, FormedStays DEF ReportingShown, Showing, reportsVars
<1>5. CASE createReportTemplate
  <2> DEFINE answer == [reportTemplates |-> Adds("reportTemplates", reportTemplates')]
  <2>1. reportTemplates' = reportTemplates + 1 /\ UNCHANGED <<schedules, exports, shareLinks>>
    BY <1>5 DEF createReportTemplate, CreateReportTemplate
  <2>2. Asks(answer) /\ DOMAIN answer = {"reportTemplates"}
    BY <1>5 DEF createReportTemplate
  <2>3. /\ answer["reportTemplates"].how = "add"
        /\ answer["reportTemplates"].id = reportTemplates + 1
        /\ answer["reportTemplates"].row = Counted(reportTemplates')[reportTemplates + 1]
    BY <2>1, TablesOfReports DEF Adds
  <2>4. edits = <<>> /\ PanelsFormed'
    BY <2>2, FormedStays DEF ReportingShown
  <2> HIDE DEF answer
  <2>5. Showing("reportTemplates", Counted(reportTemplates))'
    <3>1. /\ DOMAIN Counted(reportTemplates')
               = DOMAIN Counted(reportTemplates) \cup {reportTemplates + 1}
          /\ \A j \in DOMAIN Counted(reportTemplates) :
               Counted(reportTemplates')[j] = Counted(reportTemplates)[j]
      BY <1>2, <2>1, CountedOn
    <3> QED
      BY <1>2, <2>2, <2>3, <2>4, <3>1, AsksAbout DEF Showing
  <2>6. Showing("schedules", schedules)' /\ Showing("exports", exports)'
        /\ Showing("shareLinks", shareLinks)'
    BY <1>2, <2>1, <2>2, <2>4, AsksElsewhere DEF Showing
  <2> QED
    BY <1>2, <2>1, <2>4, <2>5, <2>6 DEF ReportingShown
<1>6. ASSUME NEW template, createSchedule(template)
      PROVE  ReportingShown'
  <2> DEFINE answer == [schedules |-> Adds("schedules", Len(schedules'))]
  <2>1. PICK row : schedules' = Append(schedules, row)
                   /\ UNCHANGED <<reportTemplates, exports, shareLinks>>
    BY <1>6 DEF createSchedule, CreateSchedule
  <2>2. Asks(answer) /\ DOMAIN answer = {"schedules"}
    BY <1>6 DEF createSchedule
  <2>3. answer["schedules"]
          = [how |-> "add", id |-> Len(schedules'), row |-> schedules'[Len(schedules')]]
    BY TablesOfReports DEF Adds
  <2>4. edits = <<>> /\ PanelsFormed'
    BY <2>2, FormedStays DEF ReportingShown
  <2> HIDE DEF answer
  <2>5. Showing("schedules", schedules)' /\ Listed(schedules')
    BY <1>2, <2>1, <2>2, <2>3, <2>4, AsksForNew DEF Showing
  <2>6. Showing("reportTemplates", Counted(reportTemplates))' /\ Showing("exports", exports)'
        /\ Showing("shareLinks", shareLinks)'
    BY <1>2, <2>1, <2>2, <2>4, AsksElsewhere DEF Showing
  <2> QED
    BY <1>2, <2>1, <2>4, <2>5, <2>6 DEF ReportingShown
<1>7. ASSUME NEW template, createExport(template)
      PROVE  ReportingShown'
  <2> DEFINE answer == [exports |-> Adds("exports", Len(exports'))]
  <2>1. PICK row : exports' = Append(exports, row)
                   /\ UNCHANGED <<reportTemplates, schedules, shareLinks>>
    BY <1>7 DEF createExport, CreateExport
  <2>2. Asks(answer) /\ DOMAIN answer = {"exports"}
    BY <1>7 DEF createExport
  <2>3. answer["exports"] = [how |-> "add", id |-> Len(exports'), row |-> exports'[Len(exports')]]
    BY TablesOfReports DEF Adds
  <2>4. edits = <<>> /\ PanelsFormed'
    BY <2>2, FormedStays DEF ReportingShown
  <2> HIDE DEF answer
  <2>5. Showing("exports", exports)' /\ Listed(exports')
    BY <1>2, <2>1, <2>2, <2>3, <2>4, AsksForNew DEF Showing
  <2>6. Showing("reportTemplates", Counted(reportTemplates))' /\ Showing("schedules", schedules)'
        /\ Showing("shareLinks", shareLinks)'
    BY <1>2, <2>1, <2>2, <2>4, AsksElsewhere DEF Showing
  <2> QED
    BY <1>2, <2>1, <2>4, <2>5, <2>6 DEF ReportingShown
<1>8. ASSUME NEW export, shareExport(export)
      PROVE  ReportingShown'
  <2> DEFINE answer == [shareLinks |-> Adds("shareLinks", Len(shareLinks'))]
  <2>1. PICK row : shareLinks' = Append(shareLinks, row)
                   /\ UNCHANGED <<reportTemplates, schedules, exports>>
    BY <1>8 DEF shareExport, CreateShareLink
  <2>2. Asks(answer) /\ DOMAIN answer = {"shareLinks"}
    BY <1>8 DEF shareExport
  <2>3. answer["shareLinks"]
          = [how |-> "add", id |-> Len(shareLinks'), row |-> shareLinks'[Len(shareLinks')]]
    BY TablesOfReports DEF Adds
  <2>4. edits = <<>> /\ PanelsFormed'
    BY <2>2, FormedStays DEF ReportingShown
  <2> HIDE DEF answer
  <2>5. Showing("shareLinks", shareLinks)' /\ Listed(shareLinks')
    BY <1>2, <2>1, <2>2, <2>3, <2>4, AsksForNew DEF Showing
  <2>6. Showing("reportTemplates", Counted(reportTemplates))' /\ Showing("schedules", schedules)'
        /\ Showing("exports", exports)'
    BY <1>2, <2>1, <2>2, <2>4, AsksElsewhere DEF Showing
  <2> QED
    BY <1>2, <2>1, <2>4, <2>5, <2>6 DEF ReportingShown
<1> QED
  BY <1>3, <1>4, <1>5, <1>6, <1>7, <1>8 DEF ReportingPanel

\* Content safety: a check is shown with the item it put before a moderator.
SafetyShown ==
  /\ PanelsFormed
  /\ Showing("checks", checks)
  /\ Showing("queue", queue)
  /\ Listed(checks) /\ Listed(queue)

LEMMA SafetyTables ==
  "safetyPanel" \in Panels /\ PanelTables["safetyPanel"] = {"checks", "queue"}
BY DEF Panels, PanelTables

LEMMA SafetyPanelKeeps ==
  ASSUME SafetyShown, SafetyPanel \/ UNCHANGED <<generationVars, panelVars>>
  PROVE  SafetyShown'
<1>1. {"checks", "queue"} \subseteq DOMAIN shown
  BY SafetyTables DEF SafetyShown, PanelsFormed
<1>2. /\ Showing("checks", checks) /\ Showing("queue", queue)
      /\ Listed(checks) /\ Listed(queue)
  BY DEF SafetyShown
<1>3. CASE UNCHANGED <<generationVars, panelVars>>
  BY <1>3 DEF SafetyShown, PanelsFormed, Showing, generationVars, panelVars
<1>4. CASE Hears /\ UNCHANGED generationVars
  BY <1>1, <1>2, <1>4, HearsKeeps, FormedStays DEF SafetyShown, Showing, generationVars
<1>5. ASSUME NEW text, evaluate(text)
      PROVE  SafetyShown'
  <2> DEFINE check == Adds("checks", Len(checks'))
  <2> DEFINE answer == IF queue' = queue THEN [checks |-> check]
                       ELSE [checks |-> check, queue |-> Adds("queue", Len(queue'))]
  <2>1. PICK row, item : /\ checks' = Append(checks, row)
                         /\ queue' = queue \/ queue' = Append(queue, item)
    BY <1>5 DEF evaluate, Evaluate, EvaluateContent
  <2>2. /\ Asks(answer)
        /\ DOMAIN answer = IF queue' = queue THEN {"checks"} ELSE {"checks", "queue"}
    BY <1>5 DEF evaluate
  <2>3. answer["checks"] = [how |-> "add", id |-> Len(checks'), row |-> checks'[Len(checks')]]
    BY TablesOfSafety DEF Adds
  <2>4. queue' # queue =>
          answer["queue"] = [how |-> "add", id |-> Len(queue'), row |-> queue'[Len(queue')]]
    BY TablesOfSafety DEF Adds
  <2>5. edits = <<>> /\ PanelsFormed'
    BY <2>2, FormedStays DEF SafetyShown
  <2> HIDE DEF answer
  <2>6. Showing("checks", checks)' /\ Listed(checks')
    BY <1>2, <2>1, <2>2, <2>3, <2>5, AsksForNew DEF Showing
  <2>7. Showing("queue", queue)' /\ Listed(queue')
    <3>1. CASE queue' = queue
      BY <1>2, <2>2, <2>5, <3>1, AsksElsewhere DEF Showing
    <3>2. CASE queue' # queue
      BY <1>2, <2>1, <2>2, <2>4, <2>5, <3>2, AsksForNew DEF Showing
    <3> QED
      BY <3>1, <3>2
  <2> QED
    BY <2>5, <2>6, <2>7 DEF SafetyShown
<1>6. ASSUME NEW q \in DOMAIN shown["queue"], resolve(q)
      PROVE  SafetyShown'
  <2> DEFINE answer == [queue |-> Replaces("queue", q)]
  <2>1. PICK row : queue' = [queue EXCEPT ![q] = row] /\ UNCHANGED checks
    BY <1>6 DEF resolve, ResolveModerationItem
  <2>2. Asks(answer) /\ DOMAIN answer = {"queue"}
    BY <1>6 DEF resolve
  <2>3. answer["queue"] = [how |-> "replace", id |-> q, row |-> queue'[q]]
    BY TablesOfSafety DEF Replaces
  <2>4. edits = <<>> /\ PanelsFormed'
    BY <2>2, FormedStays DEF SafetyShown
  <2> HIDE DEF answer
  <2>5. Showing("queue", queue)' /\ Listed(queue')
    BY <1>2, <2>1, <2>2, <2>3, <2>4, AsksToChange DEF Showing
  <2>6. Showing("checks", checks)'
    BY <1>2, <2>1, <2>2, <2>4, AsksElsewhere DEF Showing
  <2> QED
    BY <1>2, <2>1, <2>4, <2>5, <2>6 DEF SafetyShown
<1> QED
  BY <1>3, <1>4, <1>5, <1>6 DEF SafetyPanel

\* The checklist: an answer is the whole of it.  The panel divides by the steps that are not
\* skipped, or by one; the step that the fixtures have completed is never skipped.
OnboardingShown ==
  /\ PanelsFormed
  /\ Showing("steps", steps)
  /\ steps \in Checklist
  /\ DOMAIN shown["steps"] = OnboardingSteps
  /\ "steps" \in DOMAIN edits => edits["steps"].how = "refill"
  /\ steps["workspace_profile"] = "completed"

LEMMA OnboardingTables ==
  "onboardingPanel" \in Panels /\ PanelTables["onboardingPanel"] = {"steps"}
BY DEF Panels, PanelTables

LEMMA OnboardingPanelKeeps ==
  ASSUME OnboardingShown, OnboardingPanel \/ UNCHANGED <<onboardingVars, panelVars>>
  PROVE  OnboardingShown'
<1>1. /\ "steps" \in DOMAIN shown /\ Showing("steps", steps) /\ steps \in Checklist
      /\ DOMAIN steps = OnboardingSteps /\ DOMAIN shown["steps"] = OnboardingSteps
  BY OnboardingTables DEF OnboardingShown, PanelsFormed, Checklist
<1>2. CASE UNCHANGED <<onboardingVars, panelVars>>
  BY <1>2 DEF OnboardingShown, PanelsFormed, Showing, onboardingVars, panelVars
<1>3. CASE Hears /\ UNCHANGED onboardingVars
  <2>1. Showing("steps", steps)' /\ PanelsFormed' /\ steps' = steps
    BY <1>1, <1>3, HearsKeeps, FormedStays DEF OnboardingShown, Showing, onboardingVars
  <2>2. edits' = <<>>
    BY <1>3 DEF Hears, Answered, Lost
  <2>3. DOMAIN shown'["steps"] = OnboardingSteps
    <3>1. CASE Answered /\ "steps" \in DOMAIN edits
      <4>1. edits["steps"].how = "refill" /\ edits["steps"].rows = steps
        BY <1>1, <3>1 DEF OnboardingShown, Showing, Shows, Fits
      <4>2. shown'["steps"] = EditRows(shown["steps"], edits["steps"])
        BY <1>1, <3>1, EditedIs DEF Answered
      <4> QED
        BY <1>1, <4>1, <4>2 DEF EditRows
    <3>2. CASE ~(Answered /\ "steps" \in DOMAIN edits)
      BY <1>1, <1>3, <3>2 DEF Hears, Answered, Lost
    <3> QED
      BY <3>1, <3>2
  <2> QED
    BY <2>1, <2>2, <2>3, NoEdits DEF OnboardingShown
<1>4. ASSUME NEW s, complete(s) \/ skip(s)
      PROVE  OnboardingShown'
  <2> DEFINE answer == [steps |-> Refills("steps")]
  <2>1. Asks(answer) /\ DOMAIN answer = {"steps"}
    BY <1>4 DEF complete, skip
  <2>2. answer["steps"].how = "refill" /\ answer["steps"].rows = steps'
    BY TablesOfSafety DEF Refills
  <2>3. edits = <<>> /\ PanelsFormed' /\ shown' = shown /\ edits' = answer /\ unheard' = unheard
    BY <2>1, FormedStays DEF OnboardingShown, Asks
  <2>4. steps' \in Checklist /\ steps'["workspace_profile"] = "completed"
    <3>1. steps["workspace_profile"] = "completed"
      BY DEF OnboardingShown
    <3>2. CASE steps' = steps
      BY <1>1, <3>1, <3>2
    <3>3. CASE steps' # steps
      <4>1. s # "workspace_profile" /\ s \in OnboardingSteps
        BY <1>4, <3>1, <3>3 DEF complete, skip, StepOffers, CompleteStep, SkipStep, OnboardingSteps,
             onboardingVars
      <4>2. \E status \in {"completed", "skipped"} : steps' = [steps EXCEPT ![s] = status]
        BY <1>4, <3>3 DEF complete, skip, CompleteStep, SkipStep, onboardingVars
      <4>3. {"completed", "skipped"} \subseteq StepStatuses
        BY DEF StepStatuses
      <4> QED
        BY <1>1, <3>1, <4>1, <4>2, <4>3 DEF Checklist
    <3> QED
      BY <3>2, <3>3
  <2> HIDE DEF answer
  <2>5. DOMAIN steps' = OnboardingSteps
    BY <2>4 DEF Checklist
  <2>6. Fits(shown["steps"], steps', "steps", unheard, answer["steps"])
    BY <1>1, <2>2, <2>5 DEF Fits, AboutRows
  <2>7. Showing("steps", steps)'
    BY <1>1, <2>1, <2>3, <2>5, <2>6 DEF Showing, Shows
  <2> QED
    BY <1>1, <2>2, <2>3, <2>4, <2>7 DEF OnboardingShown
<1> QED
  BY <1>2, <1>3, <1>4 DEF OnboardingPanel

\* The percentage that the panel works out is the service's (onboarding-panel.tsx, summarize in
\* onboarding.service.ts).
LEMMA ShownProgressIs ==
  ASSUME OnboardingShown, ~loading, unheard = {}
  PROVE  ShownProgress = Progress
<1>1. \A s \in OnboardingSteps : shown["steps"][s] = steps[s]
  BY NoEdits DEF OnboardingShown, PanelsFormed, Showing, Shows, Agree, ShownSo
<1> DEFINE C == In(steps, {"completed"})
<1> DEFINE K == In(steps, {"skipped"})
<1>2. /\ {s \in OnboardingSteps : shown.steps[s] = "completed"} = C
      /\ {s \in OnboardingSteps : shown.steps[s] = "skipped"} = K
  BY <1>1 DEF In
<1>3. /\ Cardinality(C) \in Nat /\ Open(steps) \in Nat /\ Completed(steps) = Cardinality(C)
      /\ Cardinality(OnboardingSteps \ K) = Cardinality(C) + Open(steps)
      /\ Progress = Percent(Cardinality(C), Open(steps))
  BY CountsOf, ProgressIs DEF OnboardingShown, Completed
<1>4. Cardinality(OnboardingSteps \ K) = Cardinality(OnboardingSteps) - Cardinality(K)
  <2>1. K \subseteq OnboardingSteps /\ OnboardingSteps \cap K = K
    BY DEF In
  <2> HIDE DEF K
  <2> QED
    BY <2>1, SevenSteps, FS_Difference
<1>5. Cardinality(C) # 0
  <2>1. "workspace_profile" \in C
    BY DEF OnboardingShown, In, OnboardingSteps
  <2>2. IsFiniteSet(C)
    BY CountsOf DEF OnboardingShown
  <2> HIDE DEF C
  <2> QED
    BY <2>1, <2>2, FS_EmptySet
<1>6. ShownProgress
        = LET left == Cardinality(OnboardingSteps) - Cardinality(K)
              actionable == IF left = 0 THEN 1 ELSE left
          IN (200 * Cardinality(C) + actionable) \div (2 * actionable)
  BY <1>2 DEF ShownProgress
<1> HIDE DEF C, K
<1> DEFINE n == Cardinality(C) + Open(steps)
<1>7. n \in Nat /\ n # 0
  BY <1>3, <1>5
<1>8. ShownProgress = (200 * Cardinality(C) + n) \div (2 * n)
  BY <1>3, <1>4, <1>6, <1>7
<1>9. Progress = (200 * Cardinality(C) + n) \div (2 * n)
  BY <1>3, <1>7 DEF Percent
<1> QED
  BY <1>8, <1>9

-----------------------------------------------------------------------------
(* The forms: a table of one row, which may be typed over at any time.     *)

\* A form is shown, and an answer on its way is of the kind how.
FormShown(t, T, how) ==
  /\ Showing(t, T)
  /\ DOMAIN T = {1}
  /\ t \in DOMAIN shown
  /\ DOMAIN shown[t] = {1}
  /\ t \in DOMAIN edits => edits[t].how = how

LEMMA FormStays ==
  ASSUME NEW t, NEW T, NEW how \in {"replace", "confirm"}, FormShown(t, T, how),
         Hears \/ \E u, row : Typed(u, row)
  PROVE  /\ Shows(shown'[t], T, t, edits', unheard')
         /\ t \in DOMAIN shown'
         /\ DOMAIN shown'[t] = {1}
         /\ t \in DOMAIN edits' => edits'[t].how = how
<1>1. CASE Hears
  <2>1. Shows(shown'[t], T, t, edits', unheard') /\ edits' = <<>> /\ DOMAIN shown' = DOMAIN shown
    BY <1>1, HearsKeeps DEF FormShown, Hears, Answered, Lost
  <2>2. DOMAIN shown'[t] = {1}
    <3>1. CASE Answered /\ t \in DOMAIN edits
      <4>1. shown'[t] = EditRows(shown[t], edits[t])
        BY <3>1, EditedIs DEF Answered, FormShown
      <4>2. edits[t].how \in {"replace", "confirm"}
        BY <3>1 DEF FormShown
      <4> QED
        BY <4>1, <4>2 DEF EditRows, FormShown
    <3>2. CASE ~(Answered /\ t \in DOMAIN edits)
      BY <1>1, <3>2 DEF Hears, Answered, Lost, FormShown
    <3> QED
      BY <3>1, <3>2
  <2> QED
    BY <2>1, <2>2, NoEdits DEF FormShown
<1>2. ASSUME NEW u, NEW row, Typed(u, row)
      PROVE  /\ Shows(shown'[t], T, t, edits', unheard')
             /\ t \in DOMAIN shown'
             /\ DOMAIN shown'[t] = {1}
             /\ t \in DOMAIN edits' => edits'[t].how = how
  <2>1. /\ edits' = edits /\ DOMAIN shown' = DOMAIN shown
        /\ shown'[t] = (IF t = u THEN <<row>> ELSE shown[t])
    BY <1>2 DEF Typed, FormShown
  <2>2. DOMAIN <<row>> = {1}
    OBVIOUS
  <2>3. CASE u = t
    BY <1>2, <2>1, <2>2, <2>3, TypedKeeps DEF FormShown
  <2>4. CASE u # t
    BY <1>2, <2>1, <2>4, TypedElsewhere DEF FormShown
  <2> QED
    BY <2>3, <2>4
<1> QED
  BY <1>1, <1>2

\* The form is saved: the answer is its row as it was saved, or a receipt for it.
LEMMA FormSaved ==
  ASSUME NEW t, NEW T, NEW how \in {"replace", "confirm"}, FormShown(t, T, how),
         NEW answer, Asks(answer), edits = <<>>, DOMAIN answer = {t},
         NEW T2, DOMAIN T2 = {1}, answer[t].how = how, answer[t].id = 1, answer[t].row = T2[1],
         how = "confirm" => shown[t][1] = T2[1]
  PROVE  /\ Shows(shown'[t], T2, t, edits', unheard')
         /\ t \in DOMAIN shown' /\ DOMAIN shown'[t] = {1}
         /\ t \in DOMAIN edits' => edits'[t].how = how
<1>1. shown' = shown /\ edits' = answer /\ unheard' = unheard
  BY DEF Asks
<1>2. AboutRows(shown[t], answer[t]) = {1}
  BY DEF AboutRows
<1>3. Fits(shown[t], T2, t, unheard, answer[t])
  BY <1>2 DEF Fits, FormShown
<1> QED
  BY <1>1, <1>3 DEF Shows, FormShown

\* The locale of the user and the compliance profile of the workspace, a form each.
LocalizationShown ==
  /\ PanelsFormed
  /\ FormShown("localePref", << localPreferences[DemoUser] >>, "replace")
  /\ FormShown("profile", << compliance >>, "replace")

LEMMA LocalizationTables ==
  "localizationPanel" \in Panels /\ PanelTables["localizationPanel"] = {"localePref", "profile"}
BY DEF Panels, PanelTables

LEMMA OneRow == \A row : DOMAIN <<row>> = {1} /\ <<row>>[1] = row
OBVIOUS

LEMMA LocalizationPanelKeeps ==
  ASSUME LocalizationShown, LocalizationPanel \/ UNCHANGED <<localizationVars, panelVars>>
  PROVE  LocalizationShown'
<1>1. /\ FormShown("localePref", << localPreferences[DemoUser] >>, "replace")
      /\ FormShown("profile", << compliance >>, "replace")
  BY DEF LocalizationShown
<1>2. CASE UNCHANGED <<localizationVars, panelVars>>
  BY <1>2 DEF LocalizationShown, PanelsFormed, FormShown, Showing, localizationVars, panelVars
<1>3. ASSUME UNCHANGED localizationVars, Hears \/ \E u, row : Typed(u, row)
      PROVE  LocalizationShown'
  <2>1. PanelsFormed' /\ localPreferences' = localPreferences /\ compliance' = compliance
    BY <1>3, FormedStays DEF LocalizationShown, localizationVars
  <2> QED
    BY <1>1, <1>3, <2>1, FormStays, OneRow DEF LocalizationShown, FormShown, Showing
<1>4. CASE savePreference
  <2> DEFINE answer == [localePref |-> Replaces("localePref", 1)]
  <2>1. compliance' = compliance
    BY <1>4 DEF savePreference, UpdatePreference
  <2>2. Asks(answer) /\ DOMAIN answer = {"localePref"}
    BY <1>4 DEF savePreference
  <2>3. /\ answer["localePref"].how = "replace" /\ answer["localePref"].id = 1
        /\ answer["localePref"].row = << localPreferences'[DemoUser] >>[1]
    BY TablesOfForms DEF Replaces
  <2>4. edits = <<>> /\ PanelsFormed' /\ edits' = answer /\ shown' = shown
    BY <2>2, FormedStays DEF LocalizationShown, Asks
  <2> HIDE DEF answer
  <2>5. FormShown("localePref", << localPreferences[DemoUser] >>, "replace")'
    BY <1>1, <2>2, <2>3, <2>4, FormSaved, OneRow DEF FormShown, Showing
  <2>6. FormShown("profile", << compliance >>, "replace")'
    BY <1>1, <2>1, <2>2, <2>4, AsksElsewhere DEF FormShown, Showing
  <2> QED
    BY <2>4, <2>5, <2>6 DEF LocalizationShown
<1>5. CASE saveComplianceProfile
  <2> DEFINE answer == [profile |-> Replaces("profile", 1)]
  <2>1. localPreferences' = localPreferences
    BY <1>5 DEF saveComplianceProfile, UpdateCompliance
  <2>2. Asks(answer) /\ DOMAIN answer = {"profile"}
    BY <1>5 DEF saveComplianceProfile
  <2>3. /\ answer["profile"].how = "replace" /\ answer["profile"].id = 1
        /\ answer["profile"].row = << compliance' >>[1]
    BY TablesOfForms DEF Replaces
  <2>4. edits = <<>> /\ PanelsFormed' /\ edits' = answer /\ shown' = shown
    BY <2>2, FormedStays DEF LocalizationShown, Asks
  <2> HIDE DEF answer
  <2>5. FormShown("profile", << compliance >>, "replace")'
    BY <1>1, <2>2, <2>3, <2>4, FormSaved, OneRow DEF FormShown, Showing
  <2>6. FormShown("localePref", << localPreferences[DemoUser] >>, "replace")'
    BY <1>1, <2>1, <2>2, <2>4, AsksElsewhere DEF FormShown, Showing
  <2> QED
    BY <2>4, <2>5, <2>6 DEF LocalizationShown
<1> QED
  BY <1>2, <1>3, <1>4, <1>5 DEF LocalizationPanel, toggleRegulation

\* Notification preferences: the answer is only a receipt, and what was sent is what is kept of
\* the fields that the form has.
NotificationsShown ==
  /\ PanelsFormed
  /\ FormShown("preferences", << FormOf(preferences[DemoUser]) >>, "confirm")
  /\ shown["preferences"][1] = FormOf(shown["preferences"][1])
  /\ DemoUser \in DOMAIN preferences
  /\ FormFields \subseteq DOMAIN preferences[DemoUser]

LEMMA NotificationsTables ==
  "notificationsPanel" \in Panels /\ PanelTables["notificationsPanel"] = {"preferences"}
BY DEF Panels, PanelTables

LEMMA FormWritten ==
  ASSUME NEW old, old = FormOf(old), NEW f \in FormFields, NEW value
  PROVE  [old EXCEPT ![f] = value] = FormOf([old EXCEPT ![f] = value])
BY DEF FormOf

LEMMA NotificationsPanelKeeps ==
  ASSUME NotificationsShown, NotificationsPanel \/ UNCHANGED <<alertsVars, panelVars>>
  PROVE  NotificationsShown'
<1> DEFINE T == << FormOf(preferences[DemoUser]) >>
<1> DEFINE filled == shown["preferences"][1]
<1>1. /\ FormShown("preferences", T, "confirm") /\ filled = FormOf(filled)
      /\ DemoUser \in DOMAIN preferences /\ FormFields \subseteq DOMAIN preferences[DemoUser]
  BY DEF NotificationsShown
<1>2. CASE UNCHANGED <<alertsVars, panelVars>>
  BY <1>2 DEF NotificationsShown, PanelsFormed, FormShown, Showing, alertsVars, panelVars
<1>3. CASE Hears /\ UNCHANGED alertsVars
  <2>1. PanelsFormed' /\ preferences' = preferences
    BY <1>3, FormedStays DEF NotificationsShown, alertsVars
  <2>2. shown'["preferences"] = shown["preferences"]
    BY <1>1, <1>3 DEF Hears, Answered, Lost, Edited, FormShown
  <2>3. FormShown("preferences", T, "confirm")'
    BY <1>1, <1>3, <2>1, FormStays, OneRow DEF FormShown, Showing
  <2> QED
    BY <1>1, <2>1, <2>2, <2>3 DEF NotificationsShown
<1>4. CASE TogglesPreference /\ UNCHANGED alertsVars
  <2>1. \E f \in FormFields : \E value : Typed("preferences", [filled EXCEPT ![f] = value])
    BY <1>4 DEF TogglesPreference, FormFields
  <2>0. PICK f \in FormFields : \E value : Typed("preferences", [filled EXCEPT ![f] = value])
    BY <2>1
  <2>2. PICK value : Typed("preferences", [filled EXCEPT ![f] = value])
    BY <2>0
  <2>3. PanelsFormed' /\ preferences' = preferences
    BY <1>4, <2>2, FormedStays DEF NotificationsShown, alertsVars
  <2>4. shown'["preferences"] = << [filled EXCEPT ![f] = value] >>
    BY <1>1, <2>2 DEF Typed, FormShown
  <2>5. shown'["preferences"][1] = FormOf(shown'["preferences"][1])
    BY <1>1, <2>4, FormWritten, OneRow
  <2>6. FormShown("preferences", T, "confirm")'
    BY <1>1, <2>2, <2>3, FormStays, OneRow DEF FormShown, Showing
  <2> QED
    BY <1>1, <2>3, <2>5, <2>6 DEF NotificationsShown
<1>5. CASE sendTestAlert
  <2>1. Asks(<<>>) /\ preferences' = WithPreference(DemoUser, PreferenceOf(DemoUser))
    BY <1>5 DEF sendTestAlert, RouteDirectly, Route
  <2>2. DemoUser \in DOMAIN preferences' /\ preferences'[DemoUser] = preferences[DemoUser]
    BY <1>1, <2>1 DEF WithPreference, PreferenceOf
  <2>3. edits = <<>> /\ PanelsFormed' /\ edits' = <<>> /\ shown' = shown
    BY <2>1, FormedStays DEF NotificationsShown, Asks
  <2>4. FormShown("preferences", T, "confirm")'
    BY <1>1, <2>1, <2>2, <2>3, AsksElsewhere, NoEdits DEF FormShown, Showing
  <2> QED
    BY <1>1, <2>2, <2>3, <2>4 DEF NotificationsShown
<1>6. CASE patchPreferences
  <2> DEFINE answer == [preferences |-> Confirms("preferences", 1)]
  <2> DEFINE old == preferences[DemoUser]
  <2> DEFINE input == [channels |-> filled.channels, digest |-> filled.digest,
                       mutedTypes |-> filled.mutedTypes, quietHours |-> FixturePreference.quietHours]
  <2>1. preferences' = WithPreference(DemoUser,
          [f \in DOMAIN old |-> IF f \in DOMAIN input THEN input[f] ELSE old[f]])
    BY <1>1, <1>6 DEF patchPreferences, UpdatePreferences, PreferenceOf
  <2>2. /\ DemoUser \in DOMAIN preferences'
        /\ preferences'[DemoUser]
             = [f \in DOMAIN old |-> IF f \in DOMAIN input THEN input[f] ELSE old[f]]
    BY <2>1 DEF WithPreference
  <2>3. \A f \in FormFields : f \in DOMAIN input /\ input[f] = filled[f]
    BY DEF FormFields
  <2> HIDE DEF input
  <2>4. \A f \in FormFields : preferences'[DemoUser][f] = filled[f]
    BY <1>1, <2>2, <2>3
  <2>5. FormOf(preferences'[DemoUser]) = filled
    BY <1>1, <2>4 DEF FormOf
  <2>6. Asks(answer) /\ DOMAIN answer = {"preferences"}
    BY <1>6 DEF patchPreferences
  <2>7. /\ answer["preferences"].how = "confirm" /\ answer["preferences"].id = 1
        /\ answer["preferences"].row = filled
    BY DEF Confirms
  <2>8. edits = <<>> /\ PanelsFormed' /\ edits' = answer /\ shown' = shown
    BY <2>6, FormedStays DEF NotificationsShown, Asks
  <2> HIDE DEF answer, filled, old
  <2>9. FormShown("preferences", T, "confirm")'
    BY <1>1, <2>5, <2>6, <2>7, <2>8, FormSaved, OneRow DEF FormShown, Showing, filled
  <2>10. FormFields \subseteq DOMAIN preferences'[DemoUser]
    BY <1>1, <2>2 DEF old
  <2> QED
    BY <1>1, <2>2, <2>8, <2>9, <2>10 DEF NotificationsShown, filled
<1> QED
  BY <1>2, <1>3, <1>4, <1>5, <1>6 DEF NotificationsPanel

-----------------------------------------------------------------------------
(* The panels together: of the one that is in focus, its tables are shown. *)

PanelsInv ==
  /\ BudgetInv
  /\ focus = "identityPanel" => IdentityShown
  /\ focus = "campaignsPanel" => CampaignsShown
  /\ focus = "tasksPanel" => TasksShown
  /\ focus = "listeningPanel" => ListeningShown
  /\ focus = "reportingPanel" => ReportingShown
  /\ focus = "templatesPanel" => TemplatesShown
  /\ focus = "safetyPanel" => SafetyShown
  /\ focus = "onboardingPanel" => OnboardingShown
  /\ focus = "localizationPanel" => LocalizationShown
  /\ focus = "notificationsPanel" => NotificationsShown

LEMMA ShortLists ==
  \A a, b, c : Listed(<<a>>) /\ Listed(<<a, b>>) /\ Listed(<<a, b, c>>)
<1> SUFFICES ASSUME NEW a, NEW b, NEW c
             PROVE  Listed(<<a>>) /\ Listed(<<a, b>>) /\ Listed(<<a, b, c>>)
  OBVIOUS
<1>1. <<a>> \in Seq({a, b, c}) /\ <<a, b>> \in Seq({a, b, c}) /\ <<a, b, c>> \in Seq({a, b, c})
  OBVIOUS
<1> QED
  BY <1>1 DEF Listed

LEMMA FixturesListed ==
  ASSUME ServicesInit
  PROVE  /\ Listed(connections) /\ Listed(reports) /\ Listed(tasks) /\ Listed(templates)
         /\ Listed(monitors) /\ Listed(alerts) /\ Listed(checks) /\ Listed(queue)
         /\ Listed(schedules) /\ Listed(exports) /\ Listed(shareLinks)
<1>1. Listed(connections) /\ Listed(reports) /\ Listed(tasks) /\ Listed(templates)
  BY ShortLists DEF ServicesInit, IdentityInit, CampaignsInit, TasksInit, TemplatesInit,
     FixtureConnections, FixtureReports, FixtureTasks, FixtureTemplates
<1>2. Listed(monitors) /\ Listed(alerts) /\ Listed(checks) /\ Listed(queue)
  BY ShortLists DEF ServicesInit, AlertsInit, GenerationInit, FixtureMonitors, FixtureAlerts,
     FixtureChecks, FixtureQueue
<1>3. Listed(schedules) /\ Listed(exports) /\ Listed(shareLinks)
  BY ShortLists DEF ServicesInit, ReportsInit, FixtureSchedules, FixtureExports, FixtureShareLinks
<1> QED
  BY <1>1, <1>2, <1>3

LEMMA PanelsStartSo ==
  ASSUME ServicesInit
  PROVE  PanelsInv
<1>1. PanelsInit /\ PanelsFormed
  BY PanelsStart DEF ServicesInit
<1>2. DOMAIN shown = UNION {PanelTables[p] : p \in Panels}
  BY <1>1 DEF PanelsInit
<1>3. \A p \in Panels : \A t \in PanelTables[p] :
        t \in DOMAIN shown /\ shown[t] = Table(t) /\ Showing(t, Table(t))
  BY <1>1, <1>2, StartsSo DEF PanelsInit
<1>4. edits = <<>> /\ \A t : t \notin DOMAIN edits
  BY <1>1, NoEdits DEF PanelsInit
<1>5. IdentityShown
  <2>1. shown["sessions"] = authSessions /\ SessionsAlike(authSessions, authSessions)
    BY <1>3, IdentityTables, TablesOfAccess
    DEF ServicesInit, IdentityInit, FixtureSessions, SessionsAlike
  <2> QED
    BY <1>1, <1>3, <2>1, IdentityTables, TablesOfAccess, FixturesListed DEF IdentityShown
<1>6. CampaignsShown
  BY <1>1, <1>3, CampaignsTables, TablesOfCampaigns, FixturesListed DEF CampaignsShown
<1>7. TasksShown /\ TemplatesShown
  BY <1>1, <1>3, TasksTables, TemplatesTables, TablesOfCampaigns, FixturesListed
  DEF TasksShown, TemplatesShown
<1>8. ListeningShown
  <2>1. mentions \in Nat
    BY DEF ServicesInit, AlertsInit, FixtureMentions
  <2> QED
    BY <1>1, <1>3, <2>1, ListeningTables, TablesOfAlerts, FixturesListed DEF ListeningShown
<1>9. ReportingShown
  <2>1. reportTemplates \in Nat
    BY DEF ServicesInit, ReportsInit, FixtureReportTemplates
  <2> QED
    BY <1>1, <1>3, <2>1, ReportingTables, TablesOfReports, FixturesListed DEF ReportingShown
<1>10. SafetyShown
  BY <1>1, <1>3, SafetyTables, TablesOfSafety, FixturesListed DEF SafetyShown
<1>11. OnboardingShown
  <2>1. steps \in Checklist /\ steps["workspace_profile"] = "completed"
    BY DEF ServicesInit, OnboardingInit, FixtureSteps, Checklist, OnboardingSteps, StepStatuses
  <2>2. DOMAIN steps = OnboardingSteps
    BY <2>1 DEF Checklist
  <2> QED
    BY <1>1, <1>3, <1>4, <2>1, <2>2, OnboardingTables, TablesOfSafety DEF OnboardingShown
<1>12. LocalizationShown
  BY <1>1, <1>3, <1>4, LocalizationTables, TablesOfForms, OneRow DEF LocalizationShown, FormShown
<1>13. NotificationsShown
  <2>1. /\ DemoUser \in DOMAIN preferences
        /\ FormFields \subseteq DOMAIN preferences[DemoUser]
    BY DEF ServicesInit, AlertsInit, FixturePreference, FormFields
  <2>2. FormOf(preferences[DemoUser]) = FormOf(FormOf(preferences[DemoUser]))
    BY DEF FormOf
  <2> QED
    BY <1>1, <1>3, <1>4, <2>1, <2>2, NotificationsTables, TablesOfForms, OneRow
    DEF NotificationsShown, FormShown
<1> QED
  BY <1>5, <1>6, <1>7, <1>8, <1>9, <1>10, <1>11, <1>12, <1>13, CampaignsStart DEF PanelsInv

\* The panel in focus moves as it does, or stands still with its service.
LEMMA PanelsMove ==
  ASSUME [ServicesNext]_servicesVars
  PROVE  /\ focus' = focus
         /\ focus = "identityPanel" => IdentityPanel \/ UNCHANGED <<identityVars, panelVars>>
         /\ focus = "campaignsPanel" => CampaignsPanel \/ UNCHANGED <<campaignsVars, panelVars>>
         /\ focus = "tasksPanel" => TasksPanel \/ UNCHANGED <<tasksVars, panelVars>>
         /\ focus = "listeningPanel" => ListeningPanel \/ UNCHANGED <<alertsVars, panelVars>>
         /\ focus = "reportingPanel" => ReportingPanel \/ UNCHANGED <<reportsVars, panelVars>>
         /\ focus = "templatesPanel" => TemplatesPanel \/ UNCHANGED <<templatesVars, panelVars>>
         /\ focus = "safetyPanel" => SafetyPanel \/ UNCHANGED <<generationVars, panelVars>>
         /\ focus = "onboardingPanel" => OnboardingPanel \/ UNCHANGED <<onboardingVars, panelVars>>
         /\ focus = "localizationPanel" =>
              LocalizationPanel \/ UNCHANGED <<localizationVars, panelVars>>
         /\ focus = "notificationsPanel" =>
              NotificationsPanel \/ UNCHANGED <<alertsVars, panelVars>>
<1>1. CASE UNCHANGED servicesVars
  BY <1>1 DEF servicesVars
<1>2. CASE ServicesNext
  BY <1>2 DEF ServicesNext, PanelNext
<1> QED
  BY <1>1, <1>2

LEMMA PanelsKeep ==
  ASSUME PanelsInv, [ServicesNext]_servicesVars
  PROVE  PanelsInv'
<1>1. focus' = focus
  BY PanelsMove
<1>2. BudgetInv'
  <2>1. now' \in Instants
    BY ClockKeeps DEF PanelsInv, BudgetInv
  <2> QED
    BY <2>1, WhoMoves, CampaignsMove, BudgetKeeps DEF PanelsInv
<1>3. /\ focus = "identityPanel" => IdentityShown'
      /\ focus = "campaignsPanel" => CampaignsShown'
      /\ focus = "tasksPanel" => TasksShown'
      /\ focus = "listeningPanel" => ListeningShown'
      /\ focus = "reportingPanel" => ReportingShown'
  BY PanelsMove, IdentityPanelKeeps, CampaignsPanelKeeps, TasksPanelKeeps, ListeningPanelKeeps,
     ReportingPanelKeeps DEF PanelsInv
<1>4. /\ focus = "templatesPanel" => TemplatesShown'
      /\ focus = "safetyPanel" => SafetyShown'
      /\ focus = "onboardingPanel" => OnboardingShown'
      /\ focus = "localizationPanel" => LocalizationShown'
      /\ focus = "notificationsPanel" => NotificationsShown'
  BY PanelsMove, TemplatesPanelKeeps, SafetyPanelKeeps, OnboardingPanelKeeps,
     LocalizationPanelKeeps, NotificationsPanelKeeps DEF PanelsInv
<1> QED
  BY <1>1, <1>2, <1>3, <1>4 DEF PanelsInv

\* With no answer on its way, the rows of a table that is shown are what is so.
LEMMA ShowsAgrees ==
  ASSUME PanelsFormed, ~loading, NEW t, NEW T, Showing(t, T)
  PROVE  \A i \in DOMAIN T \cup DOMAIN shown[t] : <<t, i>> \notin unheard => ShownSo(shown[t], T, i)
BY NoEdits DEF PanelsFormed, Showing, Shows, Agree

TablesShown(panel) == PanelsFormed /\ \A t \in PanelTables[panel] : Showing(t, Table(t))

LEMMA TablesSay ==
  ASSUME NEW panel, TablesShown(panel),
         panel = "onboardingPanel" => (~loading /\ unheard = {} => ShownProgress = Progress)
  PROVE  PanelShowsWhatIsSo(panel)
BY ShowsAgrees DEF TablesShown, PanelShowsWhatIsSo, ShownSo

LEMMA PanelsSay ==
  ASSUME PanelsInv, focus \in Panels
  PROVE  PanelShowsWhatIsSo(focus)
<1>1. Panels = {"identityPanel", "campaignsPanel", "tasksPanel", "listeningPanel",
                "reportingPanel", "templatesPanel", "safetyPanel", "onboardingPanel",
                "localizationPanel", "notificationsPanel"}
  BY DEF Panels, PanelTables
<1>2. CASE focus = "identityPanel"
  <2>1. TablesShown("identityPanel")
    BY <1>2, IdentityTables, TablesOfAccess DEF PanelsInv, IdentityShown, TablesShown
  <2> QED
    BY <1>2, <2>1, TablesSay
<1>3. CASE focus = "campaignsPanel"
  <2>1. TablesShown("campaignsPanel")
    BY <1>3, CampaignsTables, TablesOfCampaigns DEF PanelsInv, CampaignsShown, TablesShown
  <2> QED
    BY <1>3, <2>1, TablesSay
<1>4. CASE focus = "tasksPanel"
  <2>1. TablesShown("tasksPanel")
    BY <1>4, TasksTables, TablesOfCampaigns DEF PanelsInv, TasksShown, TablesShown
  <2> QED
    BY <1>4, <2>1, TablesSay
<1>5. CASE focus = "listeningPanel"
  <2>1. TablesShown("listeningPanel")
    BY <1>5, ListeningTables, TablesOfAlerts DEF PanelsInv, ListeningShown, TablesShown
  <2> QED
    BY <1>5, <2>1, TablesSay
<1>6. CASE focus = "reportingPanel"
  <2>1. TablesShown("reportingPanel")
    BY <1>6, ReportingTables, TablesOfReports DEF PanelsInv, ReportingShown, TablesShown
  <2> QED
    BY <1>6, <2>1, TablesSay
<1>7. CASE focus = "templatesPanel"
  <2>1. TablesShown("templatesPanel")
    BY <1>7, TemplatesTables, TablesOfCampaigns DEF PanelsInv, TemplatesShown, TablesShown
  <2> QED
    BY <1>7, <2>1, TablesSay
<1>8. CASE focus = "safetyPanel"
  <2>1. TablesShown("safetyPanel")
    BY <1>8, SafetyTables, TablesOfSafety DEF PanelsInv, SafetyShown, TablesShown
  <2> QED
    BY <1>8, <2>1, TablesSay
<1>9. CASE focus = "onboardingPanel"
  <2>1. TablesShown("onboardingPanel")
    BY <1>9, OnboardingTables, TablesOfSafety DEF PanelsInv, OnboardingShown, TablesShown
  <2>2. ~loading /\ unheard = {} => ShownProgress = Progress
    BY <1>9, ShownProgressIs DEF PanelsInv
  <2> QED
    BY <1>9, <2>1, <2>2, TablesSay
<1>10. CASE focus = "localizationPanel"
  <2>1. TablesShown("localizationPanel")
    BY <1>10, LocalizationTables, TablesOfForms
    DEF PanelsInv, LocalizationShown, FormShown, TablesShown
  <2> QED
    BY <1>10, <2>1, TablesSay
<1>11. CASE focus = "notificationsPanel"
  <2>1. TablesShown("notificationsPanel")
    BY <1>11, NotificationsTables, TablesOfForms
    DEF PanelsInv, NotificationsShown, FormShown, TablesShown
  <2> QED
    BY <1>11, <2>1, TablesSay
<1> QED
  BY <1>1, <1>2, <1>3, <1>4, <1>5, <1>6, <1>7, <1>8, <1>9, <1>10, <1>11

\* Between two changes, every row that a panel heard the last answer about is as its service has
\* it, and so are the sessions and the percentage that it concludes on its own (the setRows calls
\* of the panels' handlers against the services they call).
THEOREM PanelsShowTheTruth == ServicesSpec => []PanelsShowWhatIsSo
<1>1. ServicesInit => PanelsInv
  BY PanelsStartSo
<1>2. PanelsInv /\ [ServicesNext]_servicesVars => PanelsInv'
  BY PanelsKeep
<1>3. PanelsInv => PanelsShowWhatIsSo
  BY PanelsSay DEF PanelsShowWhatIsSo
<1> QED
  BY <1>1, <1>2, <1>3, PTL DEF ServicesSpec

-----------------------------------------------------------------------------
(* Types.  What each service's records are follows from what is appended   *)
(* and written, whoever calls: the callers, or a panel with what its rows  *)
(* and forms hold.  The sums and the order of the candidates, which are    *)
(* recursive functions, are typed by induction over their indices.         *)

\* A record is written whose type is known if it is there.
LEMMA WrittenIfThere ==
  ASSUME NEW S, NEW list \in Seq(S), NEW i, NEW row, i \in DOMAIN list => row \in S
  PROVE  [list EXCEPT ![i] = row] \in Seq(S)
<1>1. CASE i \in DOMAIN list
  BY <1>1, WrittenAt
<1>2. CASE i \notin DOMAIN list
  <2>1. [list EXCEPT ![i] = row] = list
    BY <1>2
  <2> QED
    BY <2>1
<1> QED
  BY <1>1, <1>2

-----------------------------------------------------------------------------
(* Members, connections. *)

\* updateRole and suspend (members.service.ts).
LEMMA MembersTyped ==
  ASSUME members \in Seq(Member), MembersNext \/ UNCHANGED membersVars
  PROVE  members' \in Seq(Member)
<1>1. ASSUME NEW m, NEW role \in Roles, UpdateRole(m, role)
      PROVE  members' \in Seq(Member)
  <2> DEFINE new == [members[m] EXCEPT !.role = role]
  <2>1. members' = [members EXCEPT ![m] = new]
    BY <1>1 DEF UpdateRole
  <2>0. m \in DOMAIN members => members[m] \in Member
    BY RowsOf
  <2>2. m \in DOMAIN members => new \in Member
    BY <2>0 DEF Member
  <2> HIDE DEF new
  <2> QED
    BY <2>1, <2>2, WrittenIfThere
<1>2. ASSUME NEW m, NEW caller, Suspend(m, caller)
      PROVE  members' \in Seq(Member)
  <2> DEFINE new == [members[m] EXCEPT !.status = "suspended"]
  <2>1. members' = [members EXCEPT ![m] = new]
    BY <1>2 DEF Suspend
  <2>0. m \in DOMAIN members => members[m] \in Member
    BY RowsOf
  <2>2. m \in DOMAIN members => new \in Member
    BY <2>0 DEF Member
  <2> HIDE DEF new
  <2> QED
    BY <2>1, <2>2, WrittenIfThere
<1> QED
  BY <1>1, <1>2 DEF MembersNext, membersVars, Invite, ResendInvitation, RevokeInvitation

\* createConnection, testConnection and disableConnection (identity.service.ts), by a caller or
\* from the panel.
LEMMA ConnectionsTyped ==
  ASSUME connections \in Seq(SsoConnection), IdentityNext \/ IdentityPanel \/ UNCHANGED identityVars
  PROVE  connections' \in Seq(SsoConnection)
<1>1. ASSUME NEW domain \in Spelled, CreateConnection(domain)
      PROVE  connections' \in Seq(SsoConnection)
  <2>1. [domain |-> Plain(domain), status |-> "draft"] \in SsoConnection
    BY PlainIsLowered DEF SsoConnection
  <2> QED
    BY <1>1, <2>1, AppendedTo DEF CreateConnection
<1>2. ASSUME NEW i, TestConnection(i) \/ DisableConnection(i)
      PROVE  connections' \in Seq(SsoConnection)
  <2>1. ASSUME NEW status \in {"active", "disabled"},
               connections' = [connections EXCEPT ![i].status = status]
        PROVE  connections' \in Seq(SsoConnection)
    <3> DEFINE new == [connections[i] EXCEPT !.status = status]
    <3>0. i \in DOMAIN connections => connections[i] \in SsoConnection
      BY RowsOf
    <3>1. i \in DOMAIN connections => new \in SsoConnection
      BY <2>1, <3>0 DEF SsoConnection
    <3>2. connections' = [connections EXCEPT ![i] = new]
      BY <2>1
    <3> HIDE DEF new
    <3> QED
      BY <3>1, <3>2, WrittenIfThere
  <2> QED
    BY <1>2, <2>1 DEF TestConnection, DisableConnection
<1>3. [word |-> CHOOSE w \in Words : w # DemoName.word, capitals |-> FALSE] \in Spelled
  BY PanelsAssumption DEF PanelsAssumption, Spelled
<1>4. CASE IdentityNext
  BY <1>1, <1>2, <1>4 DEF IdentityNext, RevokeAuthSession, TrustDevice, RevokeDevice
<1>5. CASE IdentityPanel
  BY <1>1, <1>2, <1>3, <1>5
  DEF IdentityPanel, createSsoConnection, testSsoConnection, disableSsoConnection, revokeSession,
      trustDevice, revokeDevice, RevokeAuthSession, TrustDevice, RevokeDevice, identityVars
<1> QED
  BY <1>4, <1>5 DEF identityVars

\* What the services of module Access are, whoever calls.
AccessTyped ==
  /\ members \in Seq(Member) /\ connections \in Seq(SsoConnection)
  /\ MembersInv /\ KeysInv /\ IdentityInv

LEMMA AccessKeepsTypes ==
  ASSUME AccessTyped, [ServicesNext]_servicesVars
  PROVE  AccessTyped'
<1>1. now' \in Instants /\ now <= now'
  BY ClockKeeps DEF AccessTyped, KeysInv
<1> QED
  BY <1>1, WhoMoves, MembersTyped, ConnectionsTyped, MembersKeep, KeysKeep, IdentityMoves,
     IdentityKeeps DEF AccessTyped

LEMMA AccessStartsTyped ==
  ASSUME ServicesInit
  PROVE  AccessTyped
<1>1. members \in Seq(Member)
  BY DEF ServicesInit, MembersInit, FixtureMembers, Member, Roles
<1>2. connections \in Seq(SsoConnection)
  BY DemoNameIsLowered DEF ServicesInit, IdentityInit, FixtureConnections, SsoConnection
<1>3. KeysInv
  BY ServiceAssumption
  DEF ServicesInit, ClockInit, KeysInit, FixtureKeys, KeysInv, ApiKey, KeysUsedInTheirLife,
      Instants, Never, ServiceAssumption
<1>4. IdentityInv
  BY DEF ServicesInit, IdentityInit, FixtureDevices, FixtureSessions, IdentityInv, TrustedDevice,
         AuthSession
<1> QED
  BY <1>1, <1>2, <1>3, <1>4, MembersStart DEF AccessTyped

LEMMA AccessTypes == AccessTyped => AccessTypeOK
  BY DEF AccessTyped, AccessTypeOK, MembersInv, KeysInv, IdentityInv

-----------------------------------------------------------------------------
(* Localization.  What is saved from the panel's forms is what they hold:  *)
(* a row that was loaded or came with an answer, typed over.               *)

FormsFilled ==
  /\ shown["localePref"][1] \in LocalizationPreference
  /\ shown["profile"][1] \in ComplianceProfile

LocalizationRows ==
  /\ DOMAIN localPreferences \subseteq Users \cup {DemoUser}
  /\ DemoUser \in DOMAIN localPreferences
  /\ localPreferences \in [DOMAIN localPreferences -> LocalizationPreference]
  /\ compliance \in ComplianceProfile

LocalizationTyped ==
  LocalizationRows /\ (focus = "localizationPanel" => FormsFilled)

\* An answer that is heard brings a form what is so, or leaves it as it is.
LEMMA FormHeard ==
  ASSUME NEW t, NEW T, NEW how \in {"replace", "confirm"}, FormShown(t, T, how), Hears
  PROVE  shown'[t][1] = shown[t][1] \/ shown'[t][1] = T[1]
<1>1. CASE Answered /\ t \in DOMAIN edits
  <2>1. shown'[t] = EditRows(shown[t], edits[t])
    BY <1>1, EditedIs DEF Answered, FormShown
  <2>2. edits[t].how \in {"replace", "confirm"} /\ Fits(shown[t], T, t, unheard, edits[t])
    BY <1>1 DEF FormShown, Showing, Shows
  <2>3. CASE edits[t].how = "replace"
    <3>1. edits[t].id = 1 /\ edits[t].row = T[1] /\ 1 \in DOMAIN shown[t]
      BY <2>2, <2>3 DEF Fits, FormShown
    <3>2. EditRows(shown[t], edits[t]) = [shown[t] EXCEPT ![1] = T[1]]
      BY <2>3, <3>1 DEF EditRows
    <3> QED
      BY <2>1, <3>1, <3>2
  <2>4. CASE edits[t].how = "confirm"
    BY <2>1, <2>4 DEF EditRows
  <2> QED
    BY <2>2, <2>3, <2>4
<1>2. CASE ~(Answered /\ t \in DOMAIN edits)
  BY <1>2 DEF Hears, Answered, Lost, FormShown
<1> QED
  BY <1>1, <1>2

\* getPreference, updatePreference and updateComplianceProfile (localization.service.ts).
LEMMA SavedIsTyped ==
  ASSUME LocalizationTyped, NEW u \in Users \cup {DemoUser}, NEW preference \in LocalizationPreference,
         SavePreference(u, preference)
  PROVE  /\ DOMAIN localPreferences' \subseteq Users \cup {DemoUser}
         /\ DemoUser \in DOMAIN localPreferences'
         /\ localPreferences' \in [DOMAIN localPreferences' -> LocalizationPreference]
<1>1. \A v \in DOMAIN localPreferences : localPreferences[v] \in LocalizationPreference
  BY DEF LocalizationTyped, LocalizationRows
<1>2. DOMAIN localPreferences' = DOMAIN localPreferences \cup {u}
  BY DEF SavePreference
<1>3. \A v \in DOMAIN localPreferences' : localPreferences'[v] \in LocalizationPreference
  BY <1>1, <1>2 DEF SavePreference
<1>4. localPreferences' = [v \in DOMAIN localPreferences' |-> localPreferences'[v]]
  BY DEF SavePreference
<1> QED
  BY <1>2, <1>3, <1>4 DEF LocalizationTyped, LocalizationRows

LEMMA UpdatedIsTyped ==
  ASSUME LocalizationTyped, NEW u \in Users \cup {DemoUser},
         NEW locales \in AtMostOne(Locales), NEW directions \in AtMostOne(Directions),
         UpdatePreference(u, locales, directions)
  PROVE  /\ DOMAIN localPreferences' \subseteq Users \cup {DemoUser}
         /\ DemoUser \in DOMAIN localPreferences'
         /\ localPreferences' \in [DOMAIN localPreferences' -> LocalizationPreference]
         /\ compliance' = compliance
<1> DEFINE old == PreferenceFor(u)
<1> DEFINE locale == IF locales = {} THEN old.locale ELSE CHOOSE l \in locales : TRUE
<1> DEFINE direction == IF directions # {} THEN CHOOSE d \in directions : TRUE
                        ELSE IF locale = "ar" THEN "rtl" ELSE old.direction
<1>1. old \in LocalizationPreference
  BY DEF PreferenceFor, LocalizationTyped, LocalizationRows, LocalizationPreference, Locales,
           Directions
<1>2. locale \in Locales
  <2>1. locales # {} => (CHOOSE l \in locales : TRUE) \in locales /\ locales \subseteq Locales
    BY DEF AtMostOne
  <2> QED
    BY <1>1, <2>1 DEF LocalizationPreference
<1>3. direction \in Directions
  <2>1. directions # {} =>
          (CHOOSE d \in directions : TRUE) \in directions /\ directions \subseteq Directions
    BY DEF AtMostOne
  <2>2. old.direction \in Directions /\ "rtl" \in Directions
    BY <1>1 DEF LocalizationPreference, Directions
  <2> QED
    BY <2>1, <2>2
<1>4. SavePreference(u, [locale |-> locale, direction |-> direction]) /\ compliance' = compliance
  BY DEF UpdatePreference
<1>5. [locale |-> locale, direction |-> direction] \in LocalizationPreference
  BY <1>2, <1>3 DEF LocalizationPreference
<1> HIDE DEF locale, direction
<1> QED
  BY <1>4, <1>5, SavedIsTyped

\* A service whose panel is not in focus moves as its callers say.
LEMMA CallersMove ==
  ASSUME [ServicesNext]_servicesVars
  PROVE  /\ focus # "localizationPanel" => LocalizationNext \/ UNCHANGED localizationVars
         /\ focus # "reportingPanel" => ReportsNext \/ UNCHANGED reportsVars
         /\ focus # "safetyPanel" => GenerationNext \/ UNCHANGED generationVars
         /\ focus # "campaignsPanel" => CampaignsNext \/ UNCHANGED campaignsVars
         /\ focus \notin {"listeningPanel", "notificationsPanel"} => AlertsNext \/ UNCHANGED alertsVars
<1>1. Panels = {"identityPanel", "campaignsPanel", "tasksPanel", "listeningPanel",
                "reportingPanel", "templatesPanel", "safetyPanel", "onboardingPanel",
                "localizationPanel", "notificationsPanel"}
  BY DEF Panels, PanelTables
<1>2. CASE UNCHANGED servicesVars
  BY <1>2 DEF servicesVars
<1>3. CASE ServicesNext
  BY <1>1, <1>3 DEF ServicesNext, Still
<1> QED
  BY <1>2, <1>3

LEMMA ComplianceIsTyped ==
  ASSUME LocalizationTyped, NEW region \in {"in", "eu"}, NEW regulations \in SUBSET Regulations,
         UpdateCompliance(region, regulations)
  PROVE  LocalizationRows'
BY DEF UpdateCompliance, ComplianceProfile, LocalizationTyped, LocalizationRows

LEMMA LocalizationCallsType ==
  ASSUME LocalizationTyped, LocalizationNext
  PROVE  LocalizationRows'
<1>1. ASSUME NEW u \in Users \cup {DemoUser}, GetPreference(u)
      PROVE  LocalizationRows'
  <2>1. PreferenceFor(u) \in LocalizationPreference
    BY DEF PreferenceFor, LocalizationTyped, LocalizationRows, LocalizationPreference, Locales,
           Directions
  <2> QED
    BY <1>1, <2>1, SavedIsTyped DEF GetPreference, LocalizationTyped, LocalizationRows
<1>2. ASSUME NEW u \in Users \cup {DemoUser}, NEW locales \in AtMostOne(Locales),
             NEW directions \in AtMostOne(Directions), UpdatePreference(u, locales, directions)
      PROVE  LocalizationRows'
  BY <1>2, UpdatedIsTyped DEF LocalizationTyped, LocalizationRows
<1> QED
  BY <1>1, <1>2, ComplianceIsTyped DEF LocalizationNext

LEMMA LocalizationPanelTypes ==
  ASSUME LocalizationTyped, focus = "localizationPanel", LocalizationShown,
         LocalizationPanel \/ UNCHANGED <<localizationVars, panelVars>>
  PROVE  LocalizationRows' /\ FormsFilled'
<1>0. /\ FormsFilled /\ LocalizationRows
      /\ FormShown("localePref", << localPreferences[DemoUser] >>, "replace")
      /\ FormShown("profile", << compliance >>, "replace")
      /\ {"localePref", "profile"} \subseteq DOMAIN shown
  BY DEF LocalizationTyped, LocalizationRows, LocalizationShown, FormShown
<1>1. CASE UNCHANGED <<localizationVars, panelVars>>
  BY <1>0, <1>1 DEF FormsFilled, LocalizationRows, localizationVars, panelVars
<1>2. CASE savePreference
  <2> DEFINE locale == shown.localePref[1].locale
  <2>1. /\ UpdatePreference(DemoUser, {locale}, {IF locale = "ar" THEN "rtl" ELSE "ltr"})
        /\ shown' = shown
    BY <1>2 DEF savePreference, Asks
  <2>2. {locale} \in AtMostOne(Locales)
    BY <1>0 DEF FormsFilled, LocalizationPreference, AtMostOne
  <2>3. {IF locale = "ar" THEN "rtl" ELSE "ltr"} \in AtMostOne(Directions)
    BY DEF Directions, AtMostOne
  <2> QED
    BY <1>0, <2>1, <2>2, <2>3, UpdatedIsTyped DEF LocalizationRows, FormsFilled
<1>3. CASE saveComplianceProfile
  <2>1. /\ UpdateCompliance(shown.profile[1].region, shown.profile[1].regulations)
        /\ shown' = shown
    BY <1>3 DEF saveComplianceProfile, Asks
  <2>2. shown.profile[1].region \in {"in", "eu"} /\ shown.profile[1].regulations \in SUBSET Regulations
    BY <1>0 DEF FormsFilled, ComplianceProfile
  <2> QED
    BY <1>0, <2>1, <2>2, ComplianceIsTyped DEF FormsFilled
<1>4. CASE Hears /\ UNCHANGED localizationVars
  <2>1. LocalizationRows'
    BY <1>0, <1>4 DEF LocalizationRows, localizationVars
  <2>2. /\ shown'["localePref"][1] = shown["localePref"][1]
             \/ shown'["localePref"][1] = localPreferences[DemoUser]
        /\ shown'["profile"][1] = shown["profile"][1] \/ shown'["profile"][1] = compliance
    BY <1>0, <1>4, FormHeard, OneRow
  <2> QED
    BY <1>0, <2>1, <2>2 DEF LocalizationRows, FormsFilled
<1>5. ASSUME NEW locale \in Locales, UNCHANGED localizationVars,
             Typed("localePref", [shown.localePref[1] EXCEPT !.locale = locale])
      PROVE  LocalizationRows' /\ FormsFilled'
  <2>1. [shown.localePref[1] EXCEPT !.locale = locale] \in LocalizationPreference
    BY <1>0 DEF FormsFilled, LocalizationPreference
  <2> QED
    BY <1>0, <1>5, <2>1, OneRow DEF Typed, FormsFilled, LocalizationRows, localizationVars
<1>6. ASSUME NEW new \in ComplianceProfile, UNCHANGED localizationVars, Typed("profile", new)
      PROVE  LocalizationRows' /\ FormsFilled'
  BY <1>0, <1>6, OneRow DEF Typed, FormsFilled, LocalizationRows, localizationVars
<1>7. ASSUME NEW region \in {"in", "eu"}
      PROVE  [shown.profile[1] EXCEPT !.region = region] \in ComplianceProfile
  BY <1>0 DEF FormsFilled, ComplianceProfile
<1>8. ASSUME NEW regulation \in Regulations
      PROVE  [shown.profile[1] EXCEPT !.regulations =
               IF regulation \in @ THEN @ \ {regulation} ELSE @ \cup {regulation}] \in ComplianceProfile
  BY <1>0 DEF FormsFilled, ComplianceProfile
<1> QED
  BY <1>1, <1>2, <1>3, <1>4, <1>5, <1>6, <1>7, <1>8 DEF LocalizationPanel, toggleRegulation

LEMMA LocalizationKeepsTypes ==
  ASSUME LocalizationTyped, PanelsInv, [ServicesNext]_servicesVars
  PROVE  LocalizationTyped'
<1>0. LocalizationRows /\ focus' = focus
  BY WhoMoves DEF LocalizationTyped, LocalizationRows
<1>1. CASE focus = "localizationPanel"
  BY <1>0, <1>1, PanelsMove, LocalizationPanelTypes
  DEF PanelsInv, LocalizationTyped, LocalizationRows
<1>2. CASE focus # "localizationPanel"
  <2>1. LocalizationRows'
    BY <1>0, <1>2, CallersMove, LocalizationCallsType DEF LocalizationRows, localizationVars
  <2> QED
    BY <1>0, <1>2, <2>1 DEF LocalizationTyped, LocalizationRows
<1> QED
  BY <1>1, <1>2

LEMMA LocalizationStartsTyped ==
  ASSUME ServicesInit
  PROVE  LocalizationTyped
<1>1. LocalizationRows
  BY DEF ServicesInit, LocalizationInit, FixtureLocalization, FixtureCompliance, LocalizationRows,
         LocalizationPreference, ComplianceProfile, Locales, Directions, Regulations
<1>2. /\ {"localePref", "profile"} \subseteq UNION {PanelTables[p] : p \in Panels}
      /\ shown = [t \in UNION {PanelTables[p] : p \in Panels} |-> Table(t)]
  BY LocalizationTables DEF ServicesInit, PanelsInit
<1>3. shown["localePref"] = Table("localePref") /\ shown["profile"] = Table("profile")
  BY <1>2
<1> QED
  BY <1>1, <1>3, TablesOfForms, OneRow DEF LocalizationTyped, LocalizationRows, FormsFilled

-----------------------------------------------------------------------------
(* Reports: what a schedule, an export or a link refers to is there.  The  *)
(* panel offers only what it shows, which the service has.                 *)

ReportsTyped ==
  /\ now \in Instants
  /\ reportTemplates \in 0 .. FixtureReportTemplates + MaxReported
  /\ schedules \in Seq(ScheduledReport)
  /\ exports \in Seq(ReportExport)
  /\ shareLinks \in Seq(ShareLink)
  /\ \A i \in DOMAIN schedules : schedules[i].template \in 1 .. reportTemplates
  /\ \A i \in DOMAIN exports : exports[i].template \in 0 .. reportTemplates
  /\ \A i \in DOMAIN shareLinks : shareLinks[i].export \in DOMAIN exports

ReportsCalls ==
  \/ UNCHANGED reportsVars
  \/ CreateReportTemplate
  \/ \E template \in 1 .. reportTemplates : CreateSchedule(template)
  \/ \E template \in 0 .. reportTemplates : CreateExport(template)
  \/ \E export \in DOMAIN exports, expiries \in AtMostOne({MaxTime}) :
       CreateShareLink(export, expiries)

LEMMA ReportsMove ==
  ASSUME PanelsInv, ReportsTyped, [ServicesNext]_servicesVars
  PROVE  ReportsCalls
<1>1. CASE focus = "reportingPanel"
  <2>1. ReportingShown /\ (ReportingPanel \/ UNCHANGED reportsVars)
    BY <1>1, PanelsMove DEF PanelsInv
  <2>2. /\ DOMAIN shown["reportTemplates"] \subseteq DOMAIN Counted(reportTemplates)
        /\ DOMAIN shown["exports"] \subseteq DOMAIN exports
    BY <2>1 DEF ReportingShown, Showing, Shows
  <2>3. DOMAIN Counted(reportTemplates) = 1 .. reportTemplates /\ {} \in AtMostOne({MaxTime})
    BY DEF Counted, AtMostOne
  <2>4. 1 .. reportTemplates \subseteq 0 .. reportTemplates
    BY DEF ReportsTyped
  <2>5. CASE createReportTemplate
    BY <2>5 DEF createReportTemplate, ReportsCalls
  <2>6. ASSUME NEW template \in DOMAIN shown.reportTemplates,
               createSchedule(template) \/ createExport(template)
        PROVE  ReportsCalls
    BY <2>2, <2>3, <2>4, <2>6 DEF createSchedule, createExport, ReportsCalls
  <2>7. ASSUME NEW export \in DOMAIN shown.exports, shareExport(export)
        PROVE  ReportsCalls
    BY <2>2, <2>3, <2>7 DEF shareExport, ReportsCalls
  <2> QED
    BY <2>1, <2>5, <2>6, <2>7 DEF ReportingPanel, ReportsCalls
<1>2. CASE focus # "reportingPanel"
  BY <1>2, CallersMove DEF ReportsNext, ReportsCalls
<1> QED
  BY <1>1, <1>2

LEMMA ReportsKeepTypes ==
  ASSUME ReportsTyped, now' \in Instants, ReportsCalls
  PROVE  ReportsTyped'
<1>0. now \in Nat /\ MaxTime \in Nat /\ ExportTtl \in Nat /\ MaxReported \in Nat
  BY ServiceAssumption, RecordsAssumption
  DEF ReportsTyped, Instants, ServiceAssumption, RecordsAssumption
<1>1. CASE UNCHANGED reportsVars
  BY <1>1 DEF ReportsTyped, reportsVars
<1>2. CASE CreateReportTemplate
  <2>1. /\ reportTemplates' \in 0 .. FixtureReportTemplates + MaxReported
        /\ 1 .. reportTemplates \subseteq 1 .. reportTemplates'
        /\ 0 .. reportTemplates \subseteq 0 .. reportTemplates'
    BY <1>0, <1>2 DEF CreateReportTemplate, ReportsTyped, FixtureReportTemplates
  <2> QED
    BY <1>2, <2>1 DEF CreateReportTemplate, ReportsTyped
<1>3. ASSUME NEW template \in 1 .. reportTemplates, CreateSchedule(template)
      PROVE  ReportsTyped'
  <2>1. [template |-> template] \in ScheduledReport
    BY DEF ScheduledReport, ReportsTyped
  <2> DEFINE new == [template |-> template]
  <2>2. schedules' = Append(schedules, new) /\ new.template = template
    BY <1>3 DEF CreateSchedule
  <2> HIDE DEF new
  <2>3. /\ schedules' \in Seq(ScheduledReport)
        /\ DOMAIN schedules' = DOMAIN schedules \cup {Len(schedules) + 1}
        /\ schedules'[Len(schedules) + 1] = new
        /\ \A i \in DOMAIN schedules : schedules'[i] = schedules[i]
    BY <2>1, <2>2, AppendedTo DEF ReportsTyped, new
  <2> QED
    BY <1>3, <2>2, <2>3 DEF CreateSchedule, ReportsTyped
<1>4. ASSUME NEW template \in 0 .. reportTemplates, CreateExport(template)
      PROVE  ReportsTyped'
  <2> DEFINE new == [template |-> template, expiresAt |-> now + ExportTtl]
  <2>1. new \in ReportExport /\ new.template = template
    BY <1>0 DEF ReportExport, ReportsTyped
  <2>2. exports' = Append(exports, new)
    BY <1>4 DEF CreateExport
  <2> HIDE DEF new
  <2>3. /\ exports' \in Seq(ReportExport)
        /\ DOMAIN exports' = DOMAIN exports \cup {Len(exports) + 1}
        /\ exports'[Len(exports) + 1] = new
        /\ \A i \in DOMAIN exports : exports'[i] = exports[i]
    BY <2>1, <2>2, AppendedTo DEF ReportsTyped
  <2> QED
    BY <1>4, <2>1, <2>3 DEF CreateExport, ReportsTyped
<1>5. ASSUME NEW export \in DOMAIN exports, NEW expiries \in AtMostOne({MaxTime}),
             CreateShareLink(export, expiries)
      PROVE  ReportsTyped'
  <2> DEFINE expiresAt == IF expiries = {} THEN exports[export].expiresAt
                                           ELSE CHOOSE t \in expiries : TRUE
  <2> DEFINE new == [export |-> export, expiresAt |-> expiresAt]
  <2>1. export \in Nat /\ exports[export] \in ReportExport
    BY RowsOf DEF ReportsTyped
  <2>2. expiresAt \in Nat
    <3>1. expiries # {} => (CHOOSE t \in expiries : TRUE) \in expiries /\ expiries \subseteq {MaxTime}
      BY DEF AtMostOne
    <3> QED
      BY <1>0, <2>1, <3>1 DEF ReportExport
  <2>3. shareLinks' = Append(shareLinks, new)
    BY <1>5 DEF CreateShareLink
  <2> HIDE DEF expiresAt
  <2>4. new \in ShareLink /\ new.export = export
    BY <2>1, <2>2 DEF ShareLink
  <2> HIDE DEF new
  <2>5. /\ shareLinks' \in Seq(ShareLink)
        /\ DOMAIN shareLinks' = DOMAIN shareLinks \cup {Len(shareLinks) + 1}
        /\ shareLinks'[Len(shareLinks) + 1] = new
        /\ \A i \in DOMAIN shareLinks : shareLinks'[i] = shareLinks[i]
    BY <2>3, <2>4, AppendedTo DEF ReportsTyped
  <2> QED
    BY <1>5, <2>4, <2>5 DEF CreateShareLink, ReportsTyped
<1> QED
  BY <1>1, <1>2, <1>3, <1>4, <1>5 DEF ReportsCalls

LEMMA ReportsStartTyped ==
  ASSUME ServicesInit
  PROVE  ReportsTyped
<1>1. MaxTime \in Nat \ {0} /\ ExportTtl \in Nat /\ MaxReported \in Nat
  BY ServiceAssumption, RecordsAssumption DEF ServiceAssumption, RecordsAssumption
<1>2. /\ [template |-> 1] \in ScheduledReport
      /\ [template |-> 1, expiresAt |-> 1 + ExportTtl] \in ReportExport
      /\ [export |-> 1, expiresAt |-> 1 + ExportTtl] \in ShareLink
  BY <1>1 DEF ScheduledReport, ReportExport, ShareLink
<1>3. /\ now = 1 /\ reportTemplates = 2
      /\ schedules = << [template |-> 1] >>
      /\ exports = << [template |-> 1, expiresAt |-> 1 + ExportTtl] >>
      /\ shareLinks = << [export |-> 1, expiresAt |-> 1 + ExportTtl] >>
  BY DEF ServicesInit, ClockInit, ReportsInit, FixtureReportTemplates, FixtureSchedules,
         FixtureExports, FixtureShareLinks
<1> QED
  BY <1>1, <1>2, <1>3 DEF ReportsTyped, Instants, FixtureReportTemplates

\* The fixtures' deliveries (webhooks.service.ts).
LEMMA DeliveriesTyped ==
  ASSUME deliveries \in Seq(WebhookDelivery), WebhooksNext \/ UNCHANGED webhooksVars
  PROVE  deliveries' \in Seq(WebhookDelivery)
<1>1. ASSUME NEW d \in DOMAIN deliveries, Replay(d)
      PROVE  deliveries' \in Seq(WebhookDelivery)
  <2> DEFINE new == [status |-> "pending", attempts |-> deliveries[d].attempts + 1]
  <2>1. deliveries[d] \in WebhookDelivery
    BY RowsOf
  <2>2. new \in WebhookDelivery
    BY <2>1 DEF WebhookDelivery
  <2>3. deliveries' = [deliveries EXCEPT ![d] = new]
    BY <1>1 DEF Replay
  <2> HIDE DEF new
  <2> QED
    BY <2>2, <2>3, WrittenAt
<1> QED
  BY <1>1 DEF WebhooksNext, webhooksVars

\* What the services of module Records are.
RecordsTyped ==
  /\ LocalizationTyped /\ OnboardingInv /\ ReportsTyped
  /\ deliveries \in Seq(WebhookDelivery)

LEMMA RecordsKeepTypes ==
  ASSUME RecordsTyped, PanelsInv, [ServicesNext]_servicesVars
  PROVE  RecordsTyped'
<1>1. now' \in Instants
  BY ClockKeeps DEF RecordsTyped, ReportsTyped
<1>2. LocalizationTyped'
  BY LocalizationKeepsTypes DEF RecordsTyped
<1>3. OnboardingInv'
  BY WhoMoves, OnboardingMoves, OnboardingKeeps DEF RecordsTyped
<1>4. ReportsTyped'
  BY <1>1, ReportsMove, ReportsKeepTypes DEF RecordsTyped
<1>5. deliveries' \in Seq(WebhookDelivery)
  BY WhoMoves, DeliveriesTyped DEF RecordsTyped
<1> QED
  BY <1>2, <1>3, <1>4, <1>5 DEF RecordsTyped

LEMMA RecordsStartTyped ==
  ASSUME ServicesInit
  PROVE  RecordsTyped
<1>1. OnboardingInv
  BY DEF ServicesInit, OnboardingInit, FixtureSteps, OnboardingInv, Checklist, OnboardingSteps,
         StepStatuses
<1>2. deliveries \in Seq(WebhookDelivery)
  BY DEF ServicesInit, WebhooksInit, FixtureDeliveries, WebhookDelivery
<1> QED
  BY <1>1, <1>2, LocalizationStartsTyped, ReportsStartTyped DEF RecordsTyped

LEMMA RecordsTypes == RecordsTyped => RecordsTypeOK
BY DEF RecordsTyped, LocalizationTyped, LocalizationRows, OnboardingInv, Checklist, ReportsTyped,
       RecordsTypeOK

\* A set of natural numbers that is not empty has a least one.
LEMMA Least ==
  ASSUME NEW T, T \subseteq Nat, T # {}
  PROVE  \E x \in T : \A y \in T : ~(y < x)
<1>1. IsWellFoundedOn(OpToRel(<, Nat), Nat)
  BY NatLessThanWellFounded
<1>2. \E x \in T : \A y \in T : <<y, x>> \notin OpToRel(<, Nat)
  BY <1>1, WFMin
<1> QED
  BY <1>2 DEF OpToRel

\* Induction over data: a set of indices that has the first, and the next of each, has them all.
LEMMA Inductively ==
  ASSUME NEW n \in Nat, NEW T, 0 \in T, \A i \in 1 .. n : i - 1 \in T => i \in T
  PROVE  \A i \in 0 .. n : i \in T
<1> DEFINE Left == {i \in 0 .. n : i \notin T}
<1>1. SUFFICES ASSUME Left # {}
               PROVE  FALSE
  OBVIOUS
<1>2. Left \subseteq Nat
  OBVIOUS
<1>3. PICK x \in Left : \A y \in Left : ~(y < x)
  <2> HIDE DEF Left
  <2> QED
    BY <1>1, <1>2, Least
<1>4. x \in 1 .. n /\ x - 1 \in 0 .. n /\ x - 1 < x
  BY <1>3
<1>5. x - 1 \in T
  BY <1>3, <1>4
<1> QED
  BY <1>3, <1>4, <1>5

\* A running sum, as the reduce of campaigns.service.ts makes it: it is defined, and it is a number.
Sums(s, n, F) == s = [i \in 0 .. n |-> IF i = 0 THEN 0 ELSE s[i - 1] + F[i]]

LEMMA SumsExist ==
  ASSUME NEW n \in Nat, NEW F
  PROVE  \E s : Sums(s, n, F)
<1> DEFINE T == {k \in 0 .. n : \E s : Sums(s, k, F)}
<1>1. 0 \in T
  <2>1. Sums([i \in 0 .. 0 |-> 0], 0, F)
    BY DEF Sums
  <2> QED
    BY <2>1
<1>2. ASSUME NEW x \in 1 .. n, x - 1 \in T
      PROVE  x \in T
  <2>1. PICK s : Sums(s, x - 1, F)
    BY <1>2
  <2> DEFINE t == [i \in 0 .. x |-> IF i = x THEN s[x - 1] + F[x] ELSE s[i]]
  <2>2. ASSUME NEW i \in 0 .. x
        PROVE  t[i] = IF i = 0 THEN 0 ELSE t[i - 1] + F[i]
    <3>1. CASE i = x
      BY <3>1
    <3>2. CASE i # x
      <4>1. i \in 0 .. x - 1 /\ t[i] = s[i] /\ (i # 0 => t[i - 1] = s[i - 1])
        BY <3>2
      <4>2. s[i] = IF i = 0 THEN 0 ELSE s[i - 1] + F[i]
        BY <2>1, <4>1 DEF Sums
      <4> QED
        BY <4>1, <4>2
    <3> QED
      BY <3>1, <3>2
  <2>3. t = [i \in 0 .. x |-> t[i]]
    OBVIOUS
  <2> HIDE DEF t
  <2>4. Sums(t, x, F)
    BY <2>2, <2>3 DEF Sums
  <2> QED
    BY <2>4
<1> HIDE DEF T
<1>3. \A k \in 0 .. n : k \in T
  BY <1>1, <1>2, Inductively
<1> QED
  BY <1>3 DEF T

LEMMA SumsAreNumbers ==
  ASSUME NEW n \in Nat, NEW F, \A i \in 1 .. n : F[i] \in Nat, NEW s, Sums(s, n, F)
  PROVE  \A i \in 0 .. n : s[i] \in Nat
<1> DEFINE T == {i \in 0 .. n : s[i] \in Nat}
<1>1. \A i \in 0 .. n : s[i] = IF i = 0 THEN 0 ELSE s[i - 1] + F[i]
  BY DEF Sums
<1>2. 0 \in T
  BY <1>1
<1>3. \A i \in 1 .. n : i - 1 \in T => i \in T
  BY <1>1
<1> HIDE DEF T
<1>4. \A i \in 0 .. n : i \in T
  BY <1>2, <1>3, Inductively
<1> QED
  BY <1>4 DEF T

LEMMA SpentIsANumber ==
  ASSUME budgetLines \in Seq(BudgetLine)
  PROVE  BudgetSummary.spent \in Nat
<1> DEFINE n == Len(budgetLines)
<1> DEFINE F == [i \in 1 .. n |-> budgetLines[i].spent]
<1> DEFINE sum[i \in 0 .. Len(budgetLines)] ==
             IF i = 0 THEN 0 ELSE sum[i - 1] + budgetLines[i].spent
<1>1. BudgetSummary.spent = sum[n]
  BY DEF BudgetSummary, Total
<1>2. n \in Nat /\ \A i \in 1 .. n : F[i] \in Nat
  <2>1. n \in Nat /\ \A i \in 1 .. n : budgetLines[i] \in BudgetLine
    BY RowsOf
  <2>2. \A i \in 1 .. n : budgetLines[i].spent \in Nat
    BY <2>1 DEF BudgetLine
  <2> QED
    BY <2>1, <2>2
<1>3. PICK s : Sums(s, n, F)
  BY <1>2, SumsExist
<1>4. s = [i \in 0 .. Len(budgetLines) |-> IF i = 0 THEN 0 ELSE s[i - 1] + budgetLines[i].spent]
  <2>1. \A i \in 0 .. n : i # 0 => F[i] = budgetLines[i].spent
    BY <1>2
  <2> HIDE DEF F
  <2> QED
    BY <1>3, <2>1 DEF Sums
<1>5. sum = [i \in 0 .. Len(budgetLines) |->
               IF i = 0 THEN 0 ELSE sum[i - 1] + budgetLines[i].spent]
  BY <1>4
<1>6. Sums(sum, n, F)
  <2>1. \A i \in 0 .. n : i # 0 => F[i] = budgetLines[i].spent
    BY <1>2
  <2> HIDE DEF F, sum
  <2> QED
    BY <1>5, <2>1 DEF Sums
<1>7. sum[n] \in Nat
  <2> HIDE DEF F, sum
  <2> QED
    BY <1>2, <1>6, SumsAreNumbers
<1> QED
  BY <1>1, <1>7

-----------------------------------------------------------------------------
(* The library.                                                            *)

\* A report counts the milestones that are completed and what was spent (generateReport,
\* campaigns.service.ts).
LEMMA ReportsWritten ==
  ASSUME BudgetInv, reports \in Seq(CampaignReport),
         CampaignsNext \/ CampaignsPanel \/ UNCHANGED campaignsVars
  PROVE  reports' \in Seq(CampaignReport)
<1>1. ASSUME GenerateReport
      PROVE  reports' \in Seq(CampaignReport)
  <2> DEFINE done == {m \in DOMAIN milestones : milestones[m].status = "completed"}
  <2> DEFINE new == [completed |-> Cardinality(done), spend |-> BudgetSummary.spent]
  <2>1. Cardinality(done) \in Nat
    <3>1. Listed(milestones) /\ done \in SUBSET DOMAIN milestones
      BY DEF BudgetInv, Listed
    <3> HIDE DEF done
    <3> QED
      BY <3>1, PlacesAreFinite
  <2>2. BudgetSummary.spent \in Nat
    BY SpentIsANumber DEF BudgetInv
  <2>3. reports' = Append(reports, new)
    BY <1>1 DEF GenerateReport
  <2> HIDE DEF done
  <2>4. new \in CampaignReport
    BY <2>1, <2>2 DEF CampaignReport
  <2> HIDE DEF new
  <2> QED
    BY <2>3, <2>4, AppendedTo
<1>2. GenerateReport \/ UNCHANGED reports
  BY DEF CampaignsNext, CampaignsPanel, campaignsVars, CompleteMilestone, UpsertBudgetLine,
         completeMilestone, saveBudgetLine, generateReport
<1> QED
  BY <1>1, <1>2

LEMMA PostsCounted ==
  ASSUME madePosts \in Nat, TemplatesNext \/ TemplatesPanel \/ UNCHANGED templatesVars
  PROVE  madePosts' \in Nat
<1>1. madePosts' = madePosts \/ madePosts' = madePosts + 1
  BY DEF TemplatesNext, TemplatesPanel, templatesVars, createTemplate, useTemplate, CreateTemplate,
         UseTemplate
<1> QED
  BY <1>1

\* What the services of module Library are.
LibraryTyped ==
  /\ VoicesInv /\ TemplatesInv /\ BudgetInv /\ TasksInv
  /\ madePosts \in Nat
  /\ reports \in Seq(CampaignReport)

LEMMA LibraryKeepsTypes ==
  ASSUME LibraryTyped, [ServicesNext]_servicesVars
  PROVE  LibraryTyped'
<1>1. now' \in Instants
  BY ClockKeeps DEF LibraryTyped, BudgetInv
<1>2. VoicesInv'
  BY WhoMoves, VoicesKeep DEF LibraryTyped
<1>3. TemplatesInv' /\ madePosts' \in Nat
  BY WhoMoves, TemplatesMove, TemplatesKeep, PostsCounted DEF LibraryTyped
<1>4. BudgetInv' /\ reports' \in Seq(CampaignReport)
  BY <1>1, WhoMoves, CampaignsMove, BudgetKeeps, ReportsWritten DEF LibraryTyped
<1>5. TasksInv'
  BY <1>1, WhoMoves, TasksMove, TasksKeep DEF LibraryTyped
<1> QED
  BY <1>2, <1>3, <1>4, <1>5 DEF LibraryTyped

LEMMA LibraryStartsTyped ==
  ASSUME ServicesInit
  PROVE  LibraryTyped
<1>1. madePosts \in Nat /\ reports \in Seq(CampaignReport)
  BY DEF ServicesInit, TemplatesInit, CampaignsInit, FixtureReports, CampaignReport
<1> QED
  BY <1>1, VoicesStart, TemplatesStart, CampaignsStart DEF LibraryTyped

LEMMA LibraryTypes == LibraryTyped => LibraryTypeOK
BY DEF LibraryTyped, VoicesInv, TemplatesInv, BudgetInv, TasksInv, LibraryTypeOK

-----------------------------------------------------------------------------
(* Accounts and consents.  A platform's name for an account is made from   *)
(* the number of its consent, of which there are so many at most.          *)

ChannelsTyped ==
  /\ now \in Instants
  /\ oauthStates \in Seq(OAuthState) /\ Len(oauthStates) <= MaxConsents
  /\ accounts \in Seq(Account)
  /\ buckets \in Seq(RateLimitBucket)
  /\ ChannelsInv

LEMMA ConsentTyped ==
  ASSUME ChannelsTyped, NEW platform \in Networks, NEW scopes \in SUBSET Scopes,
         StartOAuth(platform, scopes)
  PROVE  oauthStates' \in Seq(OAuthState) /\ Len(oauthStates') <= MaxConsents
<1> DEFINE asked == IF scopes = {} THEN DefaultScopes(platform) ELSE scopes
<1> DEFINE new == [platform |-> platform, scopes |-> asked, status |-> "pending",
                   expiresAt |-> now + ConsentTtl, consumedAt |-> Never]
<1>1. asked \in SUBSET Scopes
  BY DEF DefaultScopes, Scopes
<1>2. now + ConsentTtl \in Nat /\ MaxConsents \in Nat
  BY ChannelsAssumption DEF ChannelsTyped, Instants, ChannelsAssumption
<1>3. oauthStates' = Append(oauthStates, new) /\ Len(oauthStates) < MaxConsents
  BY DEF StartOAuth
<1> HIDE DEF asked
<1>4. new \in OAuthState
  BY <1>1, <1>2 DEF OAuthState
<1> HIDE DEF new
<1>5. /\ oauthStates' \in Seq(OAuthState) /\ Len(oauthStates') = Len(oauthStates) + 1
      /\ Len(oauthStates) \in Nat
  BY <1>3, <1>4, AppendedTo DEF ChannelsTyped
<1> QED
  BY <1>2, <1>3, <1>5

LEMMA ConsentWritten ==
  ASSUME ChannelsTyped, NEW i \in DOMAIN oauthStates, NEW new \in OAuthState,
         oauthStates' = [oauthStates EXCEPT ![i] = new]
  PROVE  oauthStates' \in Seq(OAuthState) /\ Len(oauthStates') <= MaxConsents
BY WrittenAt DEF ChannelsTyped

LEMMA ConsentIsExpired ==
  ASSUME ChannelsTyped, NEW i \in DOMAIN oauthStates, Expire(i)
  PROVE  oauthStates' \in Seq(OAuthState) /\ Len(oauthStates') <= MaxConsents
<1> DEFINE new == [oauthStates[i] EXCEPT !.status = "expired"]
<1>1. oauthStates[i] \in OAuthState
  BY RowsOf DEF ChannelsTyped
<1>2. new \in OAuthState
  BY <1>1 DEF OAuthState
<1>3. oauthStates' = [oauthStates EXCEPT ![i] = new]
  BY DEF Expire
<1> HIDE DEF new
<1> QED
  BY <1>2, <1>3, ConsentWritten

LEMMA DefaultsAreTyped ==
  ASSUME NEW account \in Nat, NEW platform
  PROVE  [account |-> account, limit |-> RateLimitDefaults(platform).limit,
          remaining |-> RateLimitDefaults(platform).remaining] \in RateLimitBucket
<1>1. RateLimitDefaults(platform).limit \in Nat /\ RateLimitDefaults(platform).remaining \in Nat
  BY DEF RateLimitDefaults
<1> QED
  BY <1>1 DEF RateLimitBucket

LEMMA CallbackTyped ==
  ASSUME ChannelsTyped, NEW i \in DOMAIN oauthStates, NEW user \in PlatformUsers,
         CompleteOAuth(i, user)
  PROVE  /\ oauthStates' \in Seq(OAuthState) /\ Len(oauthStates') <= MaxConsents
         /\ accounts' \in Seq(Account) /\ buckets' \in Seq(RateLimitBucket)
<1> DEFINE state == oauthStates[i]
<1> DEFINE found == AccountOf(state.platform, user)
<1>1. state \in OAuthState /\ AccountsInv /\ accounts \in Seq(Account)
      /\ buckets \in Seq(RateLimitBucket)
  BY RowsOf DEF ChannelsTyped, ChannelsInv
<1>2. oauthStates' \in Seq(OAuthState) /\ Len(oauthStates') <= MaxConsents
  <2> DEFINE new == [oauthStates[i] EXCEPT !.status = "consumed", !.consumedAt = now]
  <2>1. new \in OAuthState
    BY <1>1 DEF OAuthState, ChannelsTyped
  <2>2. oauthStates' = [oauthStates EXCEPT ![i] = new]
    BY DEF CompleteOAuth
  <2> HIDE DEF new
  <2> QED
    BY <2>1, <2>2, ConsentWritten
<1>3. CASE found = NoRecord
  <2> DEFINE k == Len(accounts) + 1
  <2> DEFINE account == [platform |-> state.platform, user |-> user,
                         permissions |-> state.scopes, status |-> "connected"]
  <2> DEFINE bucket == [account |-> k, limit |-> RateLimitDefaults(state.platform).limit,
                        remaining |-> RateLimitDefaults(state.platform).remaining]
  <2>1. k \in Nat /\ k \notin DOMAIN accounts
    BY <1>1, RowsOf
  <2>2. BucketOf(k) = NoRecord
    BY <1>1, <2>1, BucketFacts
  <2>3. accounts' = Append(accounts, account) /\ buckets' = Append(buckets, bucket)
    BY <1>3, <2>2 DEF CompleteOAuth, Connect, UpsertBucket
  <2>4. account \in Account
    BY <1>1 DEF Account, OAuthState
  <2>5. bucket \in RateLimitBucket
    BY <2>1, DefaultsAreTyped
  <2> HIDE DEF account, bucket
  <2> QED
    BY <1>1, <1>2, <2>3, <2>4, <2>5, AppendedTo
<1>4. CASE found # NoRecord
  <2> DEFINE account == [accounts[found] EXCEPT !.permissions = @ \cup state.scopes,
                                                !.status = "connected"]
  <2>1. found \in DOMAIN accounts
    BY <1>1, <1>4, AccountFacts
  <2>2. BucketOf(found) # NoRecord
    BY <1>1, <2>1, BucketFacts
  <2>3. accounts' = [accounts EXCEPT ![found] = account] /\ buckets' = buckets
    BY <1>4, <2>2 DEF CompleteOAuth, Connect, UpsertBucket
  <2>4. accounts[found] \in Account
    BY <1>1, <2>1, RowsOf
  <2>5. account \in Account
    BY <1>1, <2>4 DEF Account, OAuthState
  <2> HIDE DEF account, found
  <2> QED
    BY <1>1, <1>2, <2>1, <2>3, <2>5, WrittenAt
<1> QED
  BY <1>3, <1>4

LEMMA RefreshTyped ==
  ASSUME ChannelsTyped, NEW a \in DOMAIN accounts, RefreshToken(a)
  PROVE  accounts' \in Seq(Account) /\ buckets' \in Seq(RateLimitBucket)
<1>1. AccountsInv /\ accounts \in Seq(Account) /\ buckets \in Seq(RateLimitBucket)
  BY DEF ChannelsTyped, ChannelsInv
<1> DEFINE b == BucketOf(a)
<1>2. b \in DOMAIN buckets /\ b # NoRecord
  BY <1>1, BucketFacts
<1>3. accounts[a] \in Account /\ buckets[b] \in RateLimitBucket
  BY <1>1, <1>2, RowsOf
<1> DEFINE account == [accounts[a] EXCEPT !.status = "connected"]
<1> DEFINE floor == (3 * buckets[b].limit) \div 4
<1> DEFINE remaining == IF buckets[b].remaining >= floor THEN buckets[b].remaining ELSE floor
<1> DEFINE bucket == [buckets[b] EXCEPT !.remaining = remaining]
<1>4. account \in Account
  BY <1>3 DEF Account
<1>5. remaining \in Nat
  <2>1. buckets[b].limit \in Nat /\ buckets[b].remaining \in Nat
    BY <1>3 DEF RateLimitBucket
  <2>2. \A n \in Nat : (3 * n) \div 4 \in Nat
    OBVIOUS
  <2> QED
    BY <2>1, <2>2
<1>6. UpsertBucket(a, accounts[a].platform) = buckets
  BY <1>2 DEF UpsertBucket
<1>7. accounts' = [accounts EXCEPT ![a] = account] /\ buckets' = [buckets EXCEPT ![b] = bucket]
  BY <1>2, <1>6 DEF RefreshToken
<1> HIDE DEF remaining
<1>8. bucket \in RateLimitBucket
  BY <1>3, <1>5 DEF RateLimitBucket
<1> HIDE DEF account, bucket, b
<1> QED
  BY <1>1, <1>4, <1>7, <1>8, WrittenAt

LEMMA ChannelsKeepTypes ==
  ASSUME ChannelsTyped, [ServicesNext]_servicesVars
  PROVE  ChannelsTyped'
<1>0. /\ ChannelsNext \/ UNCHANGED channelsVars
      /\ now' \in Instants
  BY WhoMoves, ClockKeeps DEF ChannelsTyped
<1>1. ChannelsInv'
  BY <1>0, ChannelsKeep DEF ChannelsTyped
<1> DEFINE Lists == /\ oauthStates \in Seq(OAuthState) /\ Len(oauthStates) <= MaxConsents
                    /\ accounts \in Seq(Account) /\ buckets \in Seq(RateLimitBucket)
<1>2. CASE UNCHANGED channelsVars
  BY <1>0, <1>1, <1>2 DEF ChannelsTyped, channelsVars
<1>3. ASSUME NEW platform \in Networks, NEW scopes \in {{}, {"publish"}, {"boards"}},
             StartOAuth(platform, scopes)
      PROVE  ChannelsTyped'
  <2>1. scopes \in SUBSET Scopes
    BY DEF Scopes
  <2> QED
    BY <1>0, <1>1, <1>3, <2>1, ConsentTyped DEF ChannelsTyped, StartOAuth
<1>4. ASSUME NEW i \in DOMAIN oauthStates, Expire(i)
      PROVE  ChannelsTyped'
  BY <1>0, <1>1, <1>4, ConsentIsExpired DEF ChannelsTyped, Expire
<1>5. ASSUME NEW i \in DOMAIN oauthStates, NEW user \in PlatformUsers, CompleteOAuth(i, user)
      PROVE  ChannelsTyped'
  BY <1>0, <1>1, <1>5, CallbackTyped DEF ChannelsTyped
<1>6. ASSUME NEW a \in DOMAIN accounts, RefreshToken(a)
      PROVE  ChannelsTyped'
  BY <1>0, <1>1, <1>6, RefreshTyped DEF ChannelsTyped, RefreshToken
<1>7. \A id \in CallerUsers : [from |-> "caller", id |-> id] \in PlatformUsers
  BY DEF PlatformUsers
<1>8. ASSUME NEW i \in DOMAIN oauthStates
      PROVE  [from |-> "state", id |-> i] \in PlatformUsers
  <2>1. i \in 1 .. MaxConsents
    BY ChannelsAssumption DEF ChannelsTyped, ChannelsAssumption
  <2> QED
    BY <2>1 DEF PlatformUsers
<1> QED
  BY <1>0, <1>2, <1>3, <1>4, <1>5, <1>6, <1>7, <1>8 DEF ChannelsNext

\* The fixtures, as far as they are of the networks there are.
LEMMA OnNetworkTyped ==
  ASSUME NEW S, NEW row, row.platform \in Networks => row \in S
  PROVE  OnNetwork(row) \in Seq(S) /\ Len(OnNetwork(row)) <= 1
BY DEF OnNetwork

LEMMA ChannelsStartTyped ==
  ASSUME ServicesInit
  PROVE  ChannelsTyped
<1>1. now \in Instants /\ MaxTime \in Nat
  BY ServiceAssumption DEF ServicesInit, ClockInit, Instants, ServiceAssumption
<1>2. oauthStates \in Seq(OAuthState) /\ Len(oauthStates) <= MaxConsents
  <2>1. PICK expiresAt \in {1, MaxTime + 1} : oauthStates = FixtureStates(expiresAt)
    BY DEF ServicesInit, ChannelsInit
  <2> DEFINE row == [platform |-> "instagram", scopes |-> {"publish", "insights", "comments"},
                     status |-> "pending", expiresAt |-> expiresAt, consumedAt |-> Never]
  <2>2. row.platform \in Networks => row \in OAuthState
    BY <1>1 DEF OAuthState, Scopes
  <2>3. oauthStates = OnNetwork(row)
    BY <2>1 DEF FixtureStates
  <2> HIDE DEF row
  <2>4. OnNetwork(row) \in Seq(OAuthState) /\ Len(OnNetwork(row)) <= 1
    BY <2>2, OnNetworkTyped
  <2> QED
    BY <2>3, <2>4, ChannelsAssumption DEF ChannelsAssumption
<1>3. FixtureAccounts \in Seq(Account)
  <2> DEFINE demo == [from |-> "caller", id |-> 1]
  <2>1. demo \in PlatformUsers
    BY ChannelsAssumption DEF PlatformUsers, ChannelsAssumption
  <2> HIDE DEF demo
  <2>2. ASSUME NEW platform, NEW permissions \in SUBSET Scopes, NEW status \in {"connected", "expired"}
        PROVE  OnNetwork([platform |-> platform, user |-> demo, status |-> status,
                          permissions |-> permissions]) \in Seq(Account)
    <3> DEFINE row == [platform |-> platform, user |-> demo, status |-> status,
                       permissions |-> permissions]
    <3>1. row.platform \in Networks => row \in Account
      BY <2>1 DEF Account
    <3> HIDE DEF row
    <3>2. OnNetwork(row) \in Seq(Account)
      BY <3>1, OnNetworkTyped
    <3> QED
      BY <3>2 DEF row
  <2>3. /\ {"publish", "insights", "comments"} \in SUBSET Scopes
        /\ {"publish", "insights"} \in SUBSET Scopes
    BY DEF Scopes
  <2> DEFINE first == OnNetwork([platform |-> "instagram", user |-> demo, status |-> "connected",
                                 permissions |-> {"publish", "insights", "comments"}])
  <2> DEFINE second == OnNetwork([platform |-> "linkedin", user |-> demo, status |-> "connected",
                                  permissions |-> {"publish", "insights", "comments"}])
  <2> DEFINE third == OnNetwork([platform |-> "x", user |-> demo, status |-> "expired",
                                 permissions |-> {"publish", "insights"}])
  <2>4. first \in Seq(Account) /\ second \in Seq(Account) /\ third \in Seq(Account)
    BY <2>2, <2>3
  <2>5. FixtureAccounts = first \o second \o third
    BY DEF FixtureAccounts, demo
  <2> HIDE DEF first, second, third
  <2> QED
    BY <2>4, <2>5
<1>4. FixtureBuckets \in Seq(RateLimitBucket)
  <2> DEFINE n == Len(FixtureAccounts)
  <2>1. n \in Nat /\ DOMAIN FixtureAccounts = 1 .. n
    BY FixtureAccountsAre, ListedLength
  <2>2. ASSUME NEW b \in 1 .. n
        PROVE  FixtureBuckets[b] \in RateLimitBucket
    BY <2>1, FixtureAccountsAre DEF FixtureBuckets, RateLimitBucket
  <2> DEFINE R == {FixtureBuckets[b] : b \in 1 .. n}
  <2>3. FixtureBuckets \in [1 .. n -> R] /\ R \subseteq RateLimitBucket
    BY <2>1, <2>2 DEF FixtureBuckets
  <2> HIDE DEF n, R
  <2>4. FixtureBuckets \in [1 .. n -> RateLimitBucket]
    BY <2>3
  <2> QED
    BY <2>1, <2>4
<1> QED
  BY <1>1, <1>2, <1>3, <1>4, ChannelsStart DEF ServicesInit, ChannelsInit, ChannelsTyped

LEMMA ChannelsTypes == ChannelsTyped => ChannelsTypeOK
BY DEF ChannelsTyped, ChannelsInv, AccountsInv, ChannelsTypeOK

-----------------------------------------------------------------------------
(* Alerts, preferences and notifications.  The panel's form of preferences *)
(* holds what was loaded, typed over.                                      *)

FullNotice ==
  [user : Users \cup {DemoUser}, type : Types, priority : Priorities, alert : Nat, read : BOOLEAN,
   attempts : Attempts]
PreferenceForm ==
  [channels : SUBSET ChannelNames, digest : {"instant", "muted"}, mutedTypes : SUBSET Types]

PreferencesTyped ==
  /\ DOMAIN preferences \subseteq Users \cup {DemoUser}
  /\ DemoUser \in DOMAIN preferences
  /\ \A u \in DOMAIN preferences : preferences[u] \in Preference

ListeningTyped ==
  /\ monitors \in Seq(Monitor)
  /\ mentions \in 0 .. MaxMentions
  /\ alerts \in Seq(Alert)
  /\ \A i \in DOMAIN alerts :
       alerts[i].monitor \in DOMAIN monitors /\ alerts[i].mention \in 1 .. mentions

AlertsRows == PreferencesTyped /\ ListeningTyped /\ notices \in Seq(FullNotice)

AlertsTyped ==
  AlertsRows /\ (focus = "notificationsPanel" => shown["preferences"][1] \in PreferenceForm)

LEMMA PreferenceOfTyped ==
  ASSUME PreferencesTyped, NEW u
  PROVE  PreferenceOf(u) \in Preference
BY DEF PreferencesTyped, PreferenceOf, DefaultPreference, Preference

LEMMA PreferenceKept ==
  ASSUME PreferencesTyped, NEW u \in Users \cup {DemoUser}, NEW preference \in Preference,
         preferences' = WithPreference(u, preference)
  PROVE  PreferencesTyped'
BY DEF PreferencesTyped, WithPreference

\* What is tried is a function on some of the channels (notifications.service.ts, route).
LEMMA AttemptsTyped ==
  ASSUME NEW preference \in Preference, NEW type, NEW priority, NEW quiet
  PROVE  [c \in EnabledChannels(preference) |->
            Attempt(preference, type, priority, c, quiet)] \in Attempts
<1> DEFINE E == EnabledChannels(preference)
<1> DEFINE tried == [c \in E |-> Attempt(preference, type, priority, c, quiet)]
<1>1. E \in SUBSET ChannelNames
  BY AlertsAssumption DEF EnabledChannels, Preference, AlertsAssumption
<1>2. \A c \in E : Attempt(preference, type, priority, c, quiet) \in {"sent", "muted", "quiet"}
  BY DEF Attempt
<1> HIDE DEF E
<1>3. tried \in [E -> {"sent", "muted", "quiet"}]
  BY <1>2
<1> HIDE DEF tried
<1>4. tried \in Attempts
  BY <1>1, <1>3 DEF Attempts
<1> QED
  BY <1>4 DEF tried, E

LEMMA RouteTyped ==
  ASSUME PreferencesTyped, notices \in Seq(FullNotice), NEW u \in Users \cup {DemoUser},
         NEW type \in Types, NEW priority \in Priorities, NEW alert \in Nat, NEW forceQuiet,
         Route(u, type, priority, alert, forceQuiet)
  PROVE  PreferencesTyped' /\ notices' \in Seq(FullNotice)
<1> DEFINE preference == PreferenceOf(u)
<1> DEFINE quiet == forceQuiet \/ QuietHoursActive(preference)
<1> DEFINE tried == [c \in EnabledChannels(preference) |->
                       Attempt(preference, type, priority, c, quiet)]
<1> DEFINE new == [user |-> u, type |-> type, priority |-> priority, alert |-> alert,
                   read |-> FALSE, attempts |-> tried]
<1>1. preference \in Preference
  BY PreferenceOfTyped
<1>2. preferences' = WithPreference(u, preference) /\ notices' = Append(notices, new)
  BY DEF Route
<1> HIDE DEF preference, quiet
<1>3. tried \in Attempts
  BY <1>1, AttemptsTyped
<1> HIDE DEF tried
<1>4. new \in FullNotice
  BY <1>3 DEF FullNotice
<1> HIDE DEF new
<1> QED
  BY <1>1, <1>2, <1>4, PreferenceKept, AppendedTo

\* updatePreferences: the fields of the input are of their types.
LEMMA UpdateTyped ==
  ASSUME PreferencesTyped, NEW u \in Users \cup {DemoUser}, NEW input,
         "channels" \in DOMAIN input => input["channels"] \in SUBSET ChannelNames,
         "digest" \in DOMAIN input => input["digest"] \in {"instant", "muted"},
         "quietHours" \in DOMAIN input => input["quietHours"] \in SUBSET QuietHours,
         "mutedTypes" \in DOMAIN input => input["mutedTypes"] \in SUBSET Types,
         UpdatePreferences(u, input)
  PROVE  PreferencesTyped'
<1> DEFINE old == PreferenceOf(u)
<1> DEFINE new == [f \in DOMAIN old |-> IF f \in DOMAIN input THEN input[f] ELSE old[f]]
<1>1. old \in Preference
  BY PreferenceOfTyped
<1>2. preferences' = WithPreference(u, new)
  BY DEF UpdatePreferences
<1> HIDE DEF old
<1>3. new \in Preference
  BY <1>1 DEF Preference
<1> HIDE DEF new
<1> QED
  BY <1>2, <1>3, PreferenceKept

LEMMA SomeUpdatesTyped ==
  ASSUME NEW input \in SomeUpdates
  PROVE  /\ "channels" \in DOMAIN input => input["channels"] \in SUBSET ChannelNames
         /\ "digest" \in DOMAIN input => input["digest"] \in {"instant", "muted"}
         /\ "quietHours" \in DOMAIN input => input["quietHours"] \in SUBSET QuietHours
         /\ "mutedTypes" \in DOMAIN input => input["mutedTypes"] \in SUBSET Types
<1>1. /\ [start |-> 0, end |-> 1] \in QuietHours
      /\ [start |-> Day - 1, end |-> 0] \in QuietHours
  BY AlertsAssumption DEF QuietHours, AlertsAssumption
<1>2. {"mention"} \in SUBSET Types
  BY DEF Types
<1>3. CASE input = [channels |-> {}] \/ input = [channels |-> ChannelNames \ {"in_app"}]
  BY <1>3
<1>4. CASE input = [digest |-> "muted"] \/ input = [mutedTypes |-> {"mention"}]
  BY <1>2, <1>4
<1>5. CASE input = [quietHours |-> {[start |-> 0, end |-> 1]}]
  BY <1>1, <1>5
<1>6. CASE input = [quietHours |-> {[start |-> Day - 1, end |-> 0]}]
  BY <1>1, <1>6
<1> QED
  BY <1>3, <1>4, <1>5, <1>6 DEF SomeUpdates

\* The calls of the listening service, and a mention that is taken in for a monitor.
LEMMA IngestTyped ==
  ASSUME AlertsRows, NEW m \in DOMAIN monitors, NEW mention, NEW u \in Users \cup {DemoUser},
         IngestMention(m, mention, u)
  PROVE  AlertsRows'
<1> DEFINE severity == AssessSeverity(monitors[m].alertThreshold, mention)
<1> DEFINE new == [monitor |-> m, mention |-> mentions', severity |-> severity, resolved |-> FALSE]
<1>1. severity \in Severities \cup {"none"}
  BY DEF AssessSeverity, Severities
<1>2. /\ mentions' = mentions + 1 /\ mentions < MaxMentions /\ monitors' = monitors
      /\ severity = "none" => alerts' = alerts
      /\ severity # "none" => alerts' = Append(alerts, new)
      /\ severity \in {"none", "info"} => UNCHANGED <<preferences, notices>>
      /\ severity \notin {"none", "info"} =>
           Route(u, "mention", IF severity = "critical" THEN "critical" ELSE "high",
                 Len(alerts'), FALSE)
  BY DEF IngestMention
<1>3. /\ mentions' \in 0 .. MaxMentions /\ mentions' \in 1 .. mentions' /\ mentions' \in Nat
      /\ 1 .. mentions \subseteq 1 .. mentions'
  BY <1>2, AlertsAssumption DEF AlertsRows, ListeningTyped, AlertsAssumption
<1>4. m \in Nat
  BY RowsOf DEF AlertsRows, ListeningTyped
<1>5. severity # "none" => new \in Alert
  BY <1>1, <1>3, <1>4 DEF Alert
<1>6. new.monitor = m /\ new.mention = mentions'
  OBVIOUS
<1> HIDE DEF severity, new
<1>7. ListeningTyped'
  <2>1. CASE severity = "none"
    BY <1>2, <1>3, <2>1 DEF AlertsRows, ListeningTyped
  <2>2. CASE severity # "none"
    <3>1. /\ alerts' \in Seq(Alert) /\ DOMAIN alerts' = DOMAIN alerts \cup {Len(alerts) + 1}
          /\ alerts'[Len(alerts) + 1] = new
          /\ \A a \in DOMAIN alerts : alerts'[a] = alerts[a]
      <4>1. alerts \in Seq(Alert) /\ new \in Alert /\ alerts' = Append(alerts, new)
        BY <1>2, <1>5, <2>2 DEF AlertsRows, ListeningTyped
      <4> QED
        BY <4>1, AppendedTo
    <3> QED
      BY <1>2, <1>3, <1>6, <3>1 DEF AlertsRows, ListeningTyped
  <2> QED
    BY <2>1, <2>2
<1>8. Len(alerts') \in Nat
  BY <1>7, RowsOf DEF ListeningTyped
<1>9. PreferencesTyped' /\ notices' \in Seq(FullNotice)
  <2>1. CASE severity \in {"none", "info"}
    BY <1>2, <2>1 DEF AlertsRows, PreferencesTyped
  <2>2. CASE severity \notin {"none", "info"}
    <3>1. "mention" \in Types /\ (IF severity = "critical" THEN "critical" ELSE "high") \in Priorities
      BY DEF Types, Priorities
    <3> QED
      BY <1>2, <1>8, <2>2, <3>1, RouteTyped DEF AlertsRows
  <2> QED
    BY <2>1, <2>2
<1> QED
  BY <1>7, <1>9 DEF AlertsRows

LEMMA ListeningCallsTyped ==
  ASSUME AlertsRows,
         \/ CreateMonitor(1)
         \/ \E m : \E status \in {"active", "paused"} : SetMonitorStatus(m, status)
         \/ \E a : ResolveAlert(a)
  PROVE  AlertsRows'
<1>1. CASE CreateMonitor(1)
  <2> DEFINE new == [status |-> "active", alertThreshold |-> 1]
  <2>1. new \in Monitor /\ monitors' = Append(monitors, new)
    BY <1>1 DEF Monitor, CreateMonitor
  <2> HIDE DEF new
  <2>2. monitors' \in Seq(Monitor) /\ DOMAIN monitors \subseteq DOMAIN monitors'
    BY <2>1, AppendedTo DEF AlertsRows, ListeningTyped
  <2> QED
    BY <1>1, <2>2 DEF CreateMonitor, AlertsRows, ListeningTyped, PreferencesTyped
<1>2. ASSUME NEW m, NEW status \in {"active", "paused"}, SetMonitorStatus(m, status)
      PROVE  AlertsRows'
  <2> DEFINE new == [monitors[m] EXCEPT !.status = status]
  <2>1. m \in DOMAIN monitors => monitors[m] \in Monitor
    BY RowsOf DEF AlertsRows, ListeningTyped
  <2>2. m \in DOMAIN monitors => new \in Monitor
    BY <2>1 DEF Monitor
  <2>3. monitors' = [monitors EXCEPT ![m] = new]
    BY <1>2 DEF SetMonitorStatus
  <2> HIDE DEF new
  <2>4. monitors' \in Seq(Monitor) /\ DOMAIN monitors' = DOMAIN monitors
    BY <2>2, <2>3, WrittenIfThere DEF AlertsRows, ListeningTyped
  <2> QED
    BY <1>2, <2>4 DEF SetMonitorStatus, AlertsRows, ListeningTyped, PreferencesTyped
<1>3. ASSUME NEW a, ResolveAlert(a)
      PROVE  AlertsRows'
  <2> DEFINE new == [alerts[a] EXCEPT !.resolved = TRUE]
  <2>1. a \in DOMAIN alerts => alerts[a] \in Alert
    BY RowsOf DEF AlertsRows, ListeningTyped
  <2>2. a \in DOMAIN alerts =>
          new \in Alert /\ new.monitor = alerts[a].monitor /\ new.mention = alerts[a].mention
    BY <2>1 DEF Alert
  <2>3. alerts' = [alerts EXCEPT ![a] = new]
    BY <1>3 DEF ResolveAlert
  <2> HIDE DEF new
  <2>4. /\ alerts' \in Seq(Alert) /\ DOMAIN alerts' = DOMAIN alerts
        /\ \A i \in DOMAIN alerts : alerts'[i] = IF i = a THEN new ELSE alerts[i]
    BY <2>2, <2>3, WrittenIfThere DEF AlertsRows, ListeningTyped
  <2> QED
    BY <1>3, <2>2, <2>4 DEF ResolveAlert, AlertsRows, ListeningTyped, PreferencesTyped
<1> QED
  BY <1>1, <1>2, <1>3

\* The calls of the notifications service.
LEMMA NotificationsCallsTyped ==
  ASSUME AlertsRows, NEW u \in Users \cup {DemoUser}
  PROVE  /\ \A n \in DOMAIN notices : MarkRead(n) => AlertsRows'
         /\ GetPreferences(u) => AlertsRows'
         /\ \A type \in Types, priority \in Priorities, force \in BOOLEAN :
              RouteDirectly(u, type, priority, force) => AlertsRows'
<1>1. ASSUME NEW n \in DOMAIN notices, MarkRead(n)
      PROVE  AlertsRows'
  <2> DEFINE new == [notices[n] EXCEPT !.read = TRUE]
  <2>1. notices[n] \in FullNotice
    BY RowsOf DEF AlertsRows
  <2>2. new \in FullNotice
    BY <2>1 DEF FullNotice
  <2>3. notices' = [notices EXCEPT ![n] = new]
    BY <1>1 DEF MarkRead
  <2> HIDE DEF new
  <2>4. notices' \in Seq(FullNotice)
    BY <2>2, <2>3, WrittenAt DEF AlertsRows
  <2> QED
    BY <1>1, <2>4 DEF MarkRead, AlertsRows, ListeningTyped, PreferencesTyped
<1>2. ASSUME GetPreferences(u)
      PROVE  AlertsRows'
  <2>1. PreferencesTyped'
    BY <1>2, PreferenceOfTyped, PreferenceKept DEF GetPreferences, AlertsRows
  <2> QED
    BY <1>2, <2>1 DEF GetPreferences, AlertsRows, ListeningTyped
<1>3. ASSUME NEW type \in Types, NEW priority \in Priorities, NEW force \in BOOLEAN,
             RouteDirectly(u, type, priority, force)
      PROVE  AlertsRows'
  <2>1. NoRecord \in Nat
    BY DEF NoRecord
  <2>2. PreferencesTyped' /\ notices' \in Seq(FullNotice)
    BY <1>3, <2>1, RouteTyped DEF RouteDirectly, AlertsRows
  <2> QED
    BY <1>3, <2>2 DEF RouteDirectly, AlertsRows, ListeningTyped
<1> QED
  BY <1>1, <1>2, <1>3

LEMMA AlertsCallsType ==
  ASSUME AlertsRows, AlertsNext \/ UNCHANGED alertsVars
  PROVE  AlertsRows'
<1>1. CASE UNCHANGED alertsVars
  BY <1>1 DEF alertsVars, AlertsRows, ListeningTyped, PreferencesTyped
<1>2. \A m : \A status \in {"active", "paused"} : SetMonitorStatus(m, status) => AlertsRows'
  BY ListeningCallsTyped
<1>3. CreateMonitor(1) => AlertsRows'
  BY ListeningCallsTyped
<1>4. \A a : ResolveAlert(a) => AlertsRows'
  BY ListeningCallsTyped
<1>5. \A m \in DOMAIN monitors : \A mention : \A u \in Users : IngestMention(m, mention, u) => AlertsRows'
  BY IngestTyped
<1>6. \A n \in DOMAIN notices : MarkRead(n) => AlertsRows'
  BY NotificationsCallsTyped
<1>7. ASSUME NEW u \in Users
      PROVE  /\ GetPreferences(u) => AlertsRows'
             /\ \A input \in SomeUpdates : UpdatePreferences(u, input) => AlertsRows'
             /\ \A force \in BOOLEAN :
                  RouteDirectly(u, "account_issue", "normal", force) => AlertsRows'
  <2>1. "account_issue" \in Types /\ "normal" \in Priorities
    BY DEF Types, Priorities
  <2>2. ASSUME NEW input \in SomeUpdates, UpdatePreferences(u, input)
        PROVE  AlertsRows'
    <3>1. PreferencesTyped'
      BY <2>2, SomeUpdatesTyped, UpdateTyped DEF AlertsRows
    <3> QED
      BY <2>2, <3>1 DEF UpdatePreferences, AlertsRows, ListeningTyped
  <2> QED
    BY <2>1, <2>2, NotificationsCallsTyped
<1>8. CASE AlertsNext
  BY <1>1, <1>2, <1>3, <1>4, <1>5, <1>6, <1>7, <1>8 DEF AlertsNext
<1> QED
  BY <1>1, <1>8

LEMMA ListeningPanelTypes ==
  ASSUME AlertsRows, ListeningShown, ListeningPanel \/ UNCHANGED alertsVars
  PROVE  AlertsRows'
<1>1. CASE UNCHANGED alertsVars
  BY <1>1, AlertsCallsType
<1>2. DOMAIN shown["monitors"] \subseteq DOMAIN monitors
  BY DEF ListeningShown, Showing, Shows
<1>3. ASSUME NEW m \in DOMAIN shown.monitors, toggleMonitor(m)
      PROVE  AlertsRows'
  BY <1>3, ListeningCallsTyped DEF toggleMonitor
<1>4. ASSUME NEW m \in DOMAIN shown.monitors, ingestMention(m)
      PROVE  AlertsRows'
  BY <1>2, <1>4, IngestTyped DEF ingestMention
<1>5. ASSUME NEW a \in DOMAIN shown.alerts, resolveAlert(a)
      PROVE  AlertsRows'
  BY <1>1, <1>5, ListeningCallsTyped DEF resolveAlert
<1>6. CASE createMonitor
  BY <1>6, ListeningCallsTyped DEF createMonitor
<1> QED
  BY <1>1, <1>3, <1>4, <1>5, <1>6 DEF ListeningPanel

LEMMA NotificationsPanelTypes ==
  ASSUME AlertsRows, shown["preferences"][1] \in PreferenceForm, NotificationsShown,
         NotificationsPanel \/ UNCHANGED <<alertsVars, panelVars>>
  PROVE  AlertsRows' /\ shown'["preferences"][1] \in PreferenceForm
<1> DEFINE filled == shown["preferences"][1]
<1>0. /\ FormShown("preferences", << FormOf(preferences[DemoUser]) >>, "confirm")
      /\ "preferences" \in DOMAIN shown
  BY DEF NotificationsShown, FormShown
<1>1. FormOf(preferences[DemoUser]) \in PreferenceForm
  BY DEF AlertsRows, PreferencesTyped, Preference, FormOf, FormFields, PreferenceForm
<1>2. CASE UNCHANGED <<alertsVars, panelVars>>
  BY <1>2, AlertsCallsType DEF panelVars
<1>3. CASE Hears /\ UNCHANGED alertsVars
  BY <1>0, <1>1, <1>3, FormHeard, OneRow, AlertsCallsType
<1>4. CASE TogglesPreference /\ UNCHANGED alertsVars
  <2>1. PICK row \in PreferenceForm : Typed("preferences", row)
    <3>1. "mention" \in Types
      BY DEF Types
    <3>2. \A S, x, T : S \in SUBSET T /\ x \in T => S \ {x} \in SUBSET T /\ S \cup {x} \in SUBSET T
      OBVIOUS
    <3>3. \A c \in ChannelNames : [filled EXCEPT !.channels =
            IF c \in @ THEN @ \ {c} ELSE @ \cup {c}] \in PreferenceForm
      BY DEF PreferenceForm
    <3>4. \A d \in {"instant", "muted"} : [filled EXCEPT !.digest = d] \in PreferenceForm
      BY DEF PreferenceForm
    <3>5. [filled EXCEPT !.mutedTypes =
             IF "mention" \in @ THEN @ \ {"mention"} ELSE @ \cup {"mention"}] \in PreferenceForm
      BY <3>1 DEF PreferenceForm
    <3> QED
      BY <1>4, <3>3, <3>4, <3>5 DEF TogglesPreference
  <2> QED
    BY <1>0, <1>4, <2>1, OneRow, AlertsCallsType DEF Typed
<1>5. CASE sendTestAlert
  <2>1. RouteDirectly(DemoUser, "system_alert", "high", TRUE) /\ shown' = shown
    BY <1>5 DEF sendTestAlert, Asks
  <2>2. "system_alert" \in Types /\ "high" \in Priorities
    BY DEF Types, Priorities
  <2> QED
    BY <2>1, <2>2, NotificationsCallsTyped
<1>6. CASE patchPreferences
  <2> DEFINE input == [channels |-> filled.channels, digest |-> filled.digest,
                       mutedTypes |-> filled.mutedTypes,
                       quietHours |-> FixturePreference.quietHours]
  <2>1. UpdatePreferences(DemoUser, input) /\ shown' = shown
    BY <1>6 DEF patchPreferences, Asks
  <2>2. FixturePreference.quietHours \in SUBSET QuietHours
    BY AlertsAssumption DEF FixturePreference, QuietHours, AlertsAssumption
  <2>3. /\ input["channels"] \in SUBSET ChannelNames /\ input["digest"] \in {"instant", "muted"}
        /\ input["quietHours"] \in SUBSET QuietHours /\ input["mutedTypes"] \in SUBSET Types
    BY <2>2 DEF PreferenceForm
  <2> HIDE DEF input
  <2>4. PreferencesTyped'
    BY <2>1, <2>3, UpdateTyped DEF AlertsRows
  <2> QED
    BY <2>1, <2>4 DEF UpdatePreferences, AlertsRows, ListeningTyped
<1> QED
  BY <1>2, <1>3, <1>4, <1>5, <1>6 DEF NotificationsPanel

LEMMA AlertsKeepTypes ==
  ASSUME AlertsTyped, PanelsInv, [ServicesNext]_servicesVars
  PROVE  AlertsTyped'
<1>0. AlertsRows /\ focus' = focus
  BY WhoMoves DEF AlertsTyped
<1>1. CASE focus = "listeningPanel"
  BY <1>0, <1>1, PanelsMove, ListeningPanelTypes DEF PanelsInv, AlertsTyped
<1>2. CASE focus = "notificationsPanel"
  BY <1>0, <1>2, PanelsMove, NotificationsPanelTypes DEF PanelsInv, AlertsTyped
<1>3. CASE focus \notin {"listeningPanel", "notificationsPanel"}
  BY <1>0, <1>3, CallersMove, AlertsCallsType DEF AlertsTyped
<1> QED
  BY <1>1, <1>2, <1>3

LEMMA AlertsStartTyped ==
  ASSUME ServicesInit
  PROVE  AlertsTyped
<1>0. Day \in Nat /\ Day > 1 /\ MaxMentions \in Nat /\ MaxMentions > 1
      /\ {"in_app", "email"} \subseteq ChannelNames
  BY AlertsAssumption DEF AlertsAssumption
<1>1. PreferencesTyped
  <2>1. FixturePreference \in Preference
    <3>1. [start |-> Day - 1, end |-> 0] \in QuietHours
      BY <1>0 DEF QuietHours
    <3>2. {"performance_milestone"} \in SUBSET Types
      BY DEF Types
    <3> QED
      BY <3>1, <3>2 DEF FixturePreference, Preference
  <2> QED
    BY <2>1 DEF ServicesInit, AlertsInit, PreferencesTyped
<1>2. ListeningTyped
  <2>1. [monitor |-> 1, mention |-> 2, severity |-> "critical", resolved |-> FALSE] \in Alert
    BY DEF Alert, Severities
  <2>2. /\ [status |-> "active", alertThreshold |-> 72] \in Monitor
        /\ [status |-> "active", alertThreshold |-> 80] \in Monitor
    BY DEF Monitor
  <2>3. /\ alerts = << [monitor |-> 1, mention |-> 2, severity |-> "critical", resolved |-> FALSE] >>
        /\ mentions = 2
        /\ monitors = << [status |-> "active", alertThreshold |-> 72],
                         [status |-> "active", alertThreshold |-> 80] >>
    BY DEF ServicesInit, AlertsInit, FixtureAlerts, FixtureMonitors, FixtureMentions
  <2> QED
    BY <1>0, <2>1, <2>2, <2>3 DEF ListeningTyped
<1>3. notices \in Seq(FullNotice)
  <2>1. FixtureAttempts[1] \in Attempts /\ FixtureAttempts[2] \in Attempts
    <3> DEFINE tried == << [in_app |-> "sent"], [email |-> "sent", slack |-> "quiet"] >>
    <3>1. ASSUME NEW n \in 1 .. 2
          PROVE  [c \in DOMAIN tried[n] \cap ChannelNames |-> tried[n][c]] \in Attempts
      <4> DEFINE E == DOMAIN tried[n] \cap ChannelNames
      <4>1. \A c \in DOMAIN tried[n] : tried[n][c] \in {"sent", "muted", "quiet"}
        <5>1. CASE n = 1
          BY <5>1
        <5>2. CASE n = 2
          BY <5>2
        <5> QED
          BY <5>1, <5>2
      <4>2. E \in SUBSET ChannelNames
        OBVIOUS
      <4>3. [c \in E |-> tried[n][c]] \in [E -> {"sent", "muted", "quiet"}]
        BY <4>1
      <4> HIDE DEF E, tried
      <4> QED
        BY <4>2, <4>3 DEF Attempts, E
    <3> QED
      BY <3>1 DEF FixtureAttempts
  <2> DEFINE first == [user |-> DemoUser, type |-> "approval_request", priority |-> "normal",
                       alert |-> NoRecord, read |-> FALSE, attempts |-> FixtureAttempts[1]]
  <2> DEFINE second == [user |-> DemoUser, type |-> "account_issue", priority |-> "high",
                        alert |-> NoRecord, read |-> FALSE, attempts |-> FixtureAttempts[2]]
  <2>2. first \in FullNotice /\ second \in FullNotice
    BY <2>1 DEF FullNotice, Types, Priorities, NoRecord
  <2>3. notices = <<first, second>>
    BY DEF ServicesInit, AlertsInit, FixtureNotices
  <2> HIDE DEF first, second
  <2> QED
    BY <2>2, <2>3
<1>4. shown["preferences"][1] \in PreferenceForm
  <2>1. /\ "preferences" \in UNION {PanelTables[p] : p \in Panels}
        /\ shown = [t \in UNION {PanelTables[p] : p \in Panels} |-> Table(t)]
    BY NotificationsTables DEF ServicesInit, PanelsInit
  <2>2. shown["preferences"] = Table("preferences")
    BY <2>1
  <2>3. FormOf(preferences[DemoUser]) \in PreferenceForm
    BY <1>1 DEF PreferencesTyped, Preference, FormOf, FormFields, PreferenceForm
  <2> QED
    BY <2>2, <2>3, TablesOfForms, OneRow
<1> QED
  BY <1>1, <1>2, <1>3, <1>4 DEF AlertsTyped, AlertsRows

LEMMA AlertsTypes == AlertsTyped => AlertsTypeOK
<1> SUFFICES ASSUME AlertsTyped
             PROVE  AlertsTypeOK
  OBVIOUS
<1>1. ASSUME NEW n \in DOMAIN notices
      PROVE  /\ [f \in DOMAIN notices[n] \ {"attempts"} |-> notices[n][f]] \in Notice
             /\ notices[n].attempts \in Attempts
  <2>1. notices[n] \in FullNotice
    BY RowsOf DEF AlertsTyped, AlertsRows
  <2> QED
    BY <2>1 DEF FullNotice, Notice
<1> QED
  BY <1>1 DEF AlertsTyped, AlertsRows, ListeningTyped, PreferencesTyped, AlertsTypeOK

-----------------------------------------------------------------------------
(* Generation.  The order of the candidates ends with the local composer,  *)
(* so a call that waits has somebody left to ask.                          *)

\* The remote providers that have credentials, in their order, as the filter of model-router.service.ts
\* finds them.
Picked(s, n) ==
  s = [i \in 0 .. n |->
        IF i = 0 THEN <<>>
        ELSE IF Priority[i] \in configured THEN Append(s[i - 1], Priority[i]) ELSE s[i - 1]]

LEMMA PicksExist ==
  ASSUME NEW n \in Nat
  PROVE  \E s : Picked(s, n)
<1> DEFINE T == {k \in 0 .. n : \E s : Picked(s, k)}
<1>1. 0 \in T
  <2>1. Picked([i \in 0 .. 0 |-> <<>>], 0)
    BY DEF Picked
  <2> QED
    BY <2>1
<1>2. ASSUME NEW x \in 1 .. n, x - 1 \in T
      PROVE  x \in T
  <2>1. PICK s : Picked(s, x - 1)
    BY <1>2
  <2> DEFINE next == IF Priority[x] \in configured THEN Append(s[x - 1], Priority[x]) ELSE s[x - 1]
  <2> DEFINE t == [i \in 0 .. x |-> IF i = x THEN next ELSE s[i]]
  <2>2. ASSUME NEW i \in 0 .. x
        PROVE  t[i] = IF i = 0 THEN <<>>
                      ELSE IF Priority[i] \in configured THEN Append(t[i - 1], Priority[i])
                      ELSE t[i - 1]
    <3>1. CASE i = x
      <4>1. t[i] = next /\ t[i - 1] = s[x - 1] /\ i # 0
        BY <3>1
      <4> QED
        BY <3>1, <4>1
    <3>2. CASE i # x
      <4>1. i \in 0 .. x - 1 /\ t[i] = s[i] /\ (i # 0 => t[i - 1] = s[i - 1])
        BY <3>2
      <4>2. s[i] = IF i = 0 THEN <<>>
                   ELSE IF Priority[i] \in configured THEN Append(s[i - 1], Priority[i])
                   ELSE s[i - 1]
        BY <2>1, <4>1 DEF Picked
      <4> HIDE DEF t
      <4> QED
        BY <4>1, <4>2
    <3> QED
      BY <3>1, <3>2
  <2>3. t = [i \in 0 .. x |-> t[i]]
    OBVIOUS
  <2> HIDE DEF t
  <2>4. Picked(t, x)
    BY <2>2, <2>3 DEF Picked
  <2> QED
    BY <2>4
<1> HIDE DEF T
<1>3. \A k \in 0 .. n : k \in T
  BY <1>1, <1>2, Inductively
<1> QED
  BY <1>3 DEF T

LEMMA PicksAreRemote ==
  ASSUME NEW s, Picked(s, Len(Priority))
  PROVE  s[Len(Priority)] \in Seq(Remote)
<1> DEFINE n == Len(Priority)
<1> DEFINE T == {i \in 0 .. n : s[i] \in Seq(Remote)}
<1>0. n \in Nat /\ \A i \in 1 .. n : Priority[i] \in Remote
  BY GenerationAssumption DEF GenerationAssumption, Remote
<1>1. \A i \in 0 .. n :
        s[i] = IF i = 0 THEN <<>>
               ELSE IF Priority[i] \in configured THEN Append(s[i - 1], Priority[i]) ELSE s[i - 1]
  BY DEF Picked
<1> HIDE DEF n
<1>2. 0 \in T
  <2>1. 0 \in 0 .. n /\ s[0] = <<>>
    BY <1>0, <1>1
  <2>2. <<>> \in Seq(Remote)
    OBVIOUS
  <2> QED
    BY <2>1, <2>2
<1>3. ASSUME NEW i \in 1 .. n, i - 1 \in T
      PROVE  i \in T
  <2>1. s[i - 1] \in Seq(Remote) /\ Priority[i] \in Remote /\ i \in 0 .. n /\ i # 0
    BY <1>0, <1>3
  <2>2. s[i] = IF Priority[i] \in configured THEN Append(s[i - 1], Priority[i]) ELSE s[i - 1]
    BY <1>1, <2>1
  <2>3. s[i] \in Seq(Remote)
    BY <2>1, <2>2, AppendedTo
  <2> QED
    BY <2>1, <2>3
<1> HIDE DEF T
<1>4. \A i \in 0 .. n : i \in T
  BY <1>0, <1>2, <1>3, Inductively
<1>5. n \in T
  BY <1>0, <1>4
<1> QED
  BY <1>5 DEF T, n

\* A row put after the rows of a set, when it is one more of another (candidateOrder).
LEMMA LastIs ==
  ASSUME NEW S, NEW list \in Seq(S), NEW row
  PROVE  /\ Append(list, row) \in Seq(S \cup {row})
         /\ Len(Append(list, row)) \in Nat \ {0}
         /\ Append(list, row)[Len(Append(list, row))] = row
OBVIOUS

\* candidateOrder (model-router.service.ts).
LEMMA OrderFacts ==
  ASSUME mode \in {"auto"} \cup Providers
  PROVE  /\ CandidateOrder \in Seq(Providers)
         /\ Len(CandidateOrder) \in Nat \ {0}
         /\ CandidateOrder[Len(CandidateOrder)] = "local"
<1>1. CASE mode = "auto"
  <2> DEFINE usable[i \in 0 .. Len(Priority)] ==
               IF i = 0 THEN <<>>
               ELSE IF Priority[i] \in configured THEN Append(usable[i - 1], Priority[i])
               ELSE usable[i - 1]
  <2>1. CandidateOrder = Append(usable[Len(Priority)], "local")
    BY <1>1 DEF CandidateOrder
  <2>2. Len(Priority) \in Nat
    BY GenerationAssumption DEF GenerationAssumption
  <2>3. PICK s : Picked(s, Len(Priority))
    BY <2>2, PicksExist
  <2>4. s = [i \in 0 .. Len(Priority) |->
              IF i = 0 THEN <<>>
              ELSE IF Priority[i] \in configured THEN Append(s[i - 1], Priority[i]) ELSE s[i - 1]]
    BY <2>3 DEF Picked
  <2>5. usable = [i \in 0 .. Len(Priority) |->
                   IF i = 0 THEN <<>>
                   ELSE IF Priority[i] \in configured THEN Append(usable[i - 1], Priority[i])
                   ELSE usable[i - 1]]
    BY <2>4
  <2> HIDE DEF usable
  <2>6. usable[Len(Priority)] \in Seq(Remote)
    BY <2>5, PicksAreRemote DEF Picked
  <2> QED
    BY <2>1, <2>6, LastIs DEF Providers
<1>2. CASE mode = "local" /\ mode # "auto"
  <2>1. CandidateOrder = <<"local">> /\ "local" \in Providers
    BY <1>2 DEF CandidateOrder, Providers
  <2> QED
    BY <2>1
<1>3. CASE mode # "local" /\ mode # "auto"
  <2>1. CandidateOrder = <<mode, "local">> /\ "local" \in Providers /\ mode \in Providers
    BY <1>3 DEF CandidateOrder, Providers
  <2> QED
    BY <2>1
<1> QED
  BY <1>1, <1>2, <1>3

\* What a call has, and that it has not asked everybody while it waits.
Request == [stage : {"idle", "waiting", "answered"}, attempts : Seq(RoutingAttempt)]
MayAsk(request) == request.stage = "waiting" => Len(request.attempts) < Len(CandidateOrder)

GenerationRows ==
  /\ mode \in {"auto"} \cup Providers /\ configured \subseteq Remote
  /\ calls \in [Calls -> Request] /\ \A c \in Calls : MayAsk(calls[c])
  /\ voice \in Voice
  /\ policies \in Seq(SafetyPolicy) /\ policies # <<>>
  /\ checks \in Seq(SafetyCheck) /\ \A k \in DOMAIN checks : checks[k].policy \in DOMAIN policies
  /\ queue \in Seq(ModerationItem)
  /\ generations \in Seq(GenerationLog)

LEMMA SettingsStay ==
  ASSUME UNCHANGED settings
  PROVE  CandidateOrder' = CandidateOrder
BY DEF settings, CandidateOrder

\* scoreText (safety.service.ts).
LEMMA RiskIsANumber ==
  ASSUME NEW text \in Text, NEW policy
  PROVE  RiskScore(text, policy) \in 0 .. 100
<1>1. Cardinality(text.terms \cap policies[policy].terms) \in Nat
  <2>1. text.terms \cap policies[policy].terms \subseteq Terms /\ IsFiniteSet(Terms)
    BY GenerationAssumption DEF Text, GenerationAssumption
  <2> QED
    BY <2>1, FS_Subset, FS_CardinalityType
<1>2. FoundScore(text, policy) \in Nat
  BY <1>1 DEF FoundScore, PatternScore
<1> QED
  BY <1>2 DEF RiskScore

LEMMA CheckIsTyped ==
  ASSUME GenerationRows, NEW source \in Calls \cup {"manual", "demo"}, NEW text \in Text
  PROVE  CheckOf(source, text) \in SafetyCheck /\ CheckOf(source, text).policy \in DOMAIN policies
<1>1. Len(policies) \in Nat /\ Len(policies) \in DOMAIN policies
  BY DEF GenerationRows
<1>2. RiskScore(text, ActivePolicy) \in 0 .. 100
  BY RiskIsANumber
<1>3. CheckOf(source, text).policy = Len(policies)
  BY DEF CheckOf, ActivePolicy
<1>4. CheckOf(source, text) \in SafetyCheck
  <2> DEFINE risk == RiskScore(text, ActivePolicy)
  <2> DEFINE status == IF risk >= policies[ActivePolicy].maxRisk THEN "blocked"
                       ELSE IF HasFlags(text, ActivePolicy) THEN "flagged" ELSE "passed"
  <2>1. CheckOf(source, text) =
          [source |-> source, policy |-> ActivePolicy, risk |-> risk, status |-> status]
    BY DEF CheckOf
  <2>2. ActivePolicy \in Nat /\ risk \in 0 .. 100 /\ status \in {"passed", "flagged", "blocked"}
    BY <1>1, <1>2 DEF ActivePolicy
  <2> HIDE DEF risk, status
  <2> QED
    BY <2>1, <2>2 DEF SafetyCheck
<1> QED
  BY <1>1, <1>3, <1>4

\* evaluateContent (safety.service.ts).
LEMMA EvaluationTypes ==
  ASSUME GenerationRows, NEW source \in Calls \cup {"manual", "demo"}, NEW text \in Text,
         EvaluateContent(source, text)
  PROVE  /\ checks' \in Seq(SafetyCheck)
         /\ \A k \in DOMAIN checks' : checks'[k].policy \in DOMAIN policies
         /\ queue' \in Seq(ModerationItem)
<1> DEFINE new == CheckOf(source, text)
<1> DEFINE item == [check |-> Len(checks'), status |-> "open"]
<1>1. checks' = Append(checks, new) /\ (queue' = queue \/ queue' = Append(queue, item))
  BY DEF EvaluateContent
<1>2. new \in SafetyCheck /\ new.policy \in DOMAIN policies
  BY CheckIsTyped
<1>3. checks \in Seq(SafetyCheck) /\ queue \in Seq(ModerationItem)
      /\ \A k \in DOMAIN checks : checks[k].policy \in DOMAIN policies
  BY DEF GenerationRows
<1> HIDE DEF new
<1>4. /\ Append(checks, new) \in Seq(SafetyCheck) /\ Len(Append(checks, new)) = Len(checks) + 1
      /\ DOMAIN Append(checks, new) = DOMAIN checks \cup {Len(checks) + 1}
      /\ Append(checks, new)[Len(checks) + 1] = new /\ Len(checks) \in Nat
      /\ \A j \in DOMAIN checks : Append(checks, new)[j] = checks[j]
  BY <1>2, <1>3, AppendedTo
<1>5. checks' \in Seq(SafetyCheck) /\ \A k \in DOMAIN checks' : checks'[k].policy \in DOMAIN policies
  BY <1>1, <1>2, <1>3, <1>4
<1>6. item \in ModerationItem
  BY <1>1, <1>4 DEF ModerationItem
<1> HIDE DEF item
<1>7. queue' \in Seq(ModerationItem)
  BY <1>1, <1>3, <1>6, AppendedTo
<1> QED
  BY <1>5, <1>7

\* What changes one call and keeps the settings keeps the calls.
LEMMA CallsType ==
  ASSUME GenerationRows, UNCHANGED settings, NEW c \in Calls, NEW request \in Request,
         MayAsk(request), calls' = [calls EXCEPT ![c] = request]
  PROVE  calls' \in [Calls -> Request] /\ \A d \in Calls : MayAsk(calls[d])'
<1>1. calls' \in [Calls -> Request] /\ \A d \in Calls : calls'[d] = IF d = c THEN request ELSE calls[d]
  BY DEF GenerationRows
<1>2. \A d \in Calls : MayAsk(calls[d])
  BY DEF GenerationRows
<1> QED
  BY <1>1, <1>2, SettingsStay DEF MayAsk

\* Who is asked next: one of the providers, and the local composer is the last one.
LEMMA TryingIs ==
  ASSUME GenerationRows, NEW c \in Calls, calls[c].stage = "waiting"
  PROVE  /\ Trying(c) \in Providers
         /\ Len(calls[c].attempts) \in Nat
         /\ Trying(c) # "local" => Len(calls[c].attempts) + 1 < Len(CandidateOrder)
<1>1. /\ CandidateOrder \in Seq(Providers) /\ Len(CandidateOrder) \in Nat
      /\ CandidateOrder[Len(CandidateOrder)] = "local"
  BY OrderFacts DEF GenerationRows
<1>2. Len(calls[c].attempts) \in Nat /\ Len(calls[c].attempts) < Len(CandidateOrder)
  <2>1. calls[c] \in Request /\ MayAsk(calls[c])
    BY DEF GenerationRows
  <2>2. calls[c].attempts \in Seq(RoutingAttempt)
    BY <2>1 DEF Request
  <2> QED
    BY <2>1, <2>2 DEF MayAsk
<1> HIDE DEF CandidateOrder
<1>3. Len(calls[c].attempts) + 1 \in 1 .. Len(CandidateOrder)
  BY <1>1, <1>2
<1> QED
  BY <1>1, <1>2, <1>3 DEF Trying

\* generate, up to its first await (ai.service.ts).
LEMMA GenerateTypes ==
  ASSUME GenerationRows, NEW c \in Calls, Generate(c)
  PROVE  calls' \in [Calls -> Request] /\ \A d \in Calls : MayAsk(calls[d])'
<1> DEFINE attempts == IF IsConfigured(CandidateOrder[1]) THEN <<>>
                       ELSE << [provider |-> CandidateOrder[1], status |-> "skipped"] >>
<1> DEFINE request == [stage |-> "waiting", attempts |-> attempts]
<1>1. calls' = [calls EXCEPT ![c] = request] /\ UNCHANGED settings
  BY DEF Generate
<1>2. /\ CandidateOrder \in Seq(Providers) /\ Len(CandidateOrder) \in Nat \ {0}
      /\ CandidateOrder[Len(CandidateOrder)] = "local"
  BY OrderFacts DEF GenerationRows
<1>3. attempts \in Seq(RoutingAttempt) /\ Len(attempts) < Len(CandidateOrder)
  <2>1. CASE IsConfigured(CandidateOrder[1])
    <3>1. attempts = <<>>
      BY <2>1
    <3> QED
      BY <1>2, <3>1
  <2>2. CASE ~IsConfigured(CandidateOrder[1])
    <3> DEFINE skipped == [provider |-> CandidateOrder[1], status |-> "skipped"]
    <3>1. CandidateOrder[1] # "local" /\ CandidateOrder[1] \in Providers
      BY <1>2, <2>2 DEF IsConfigured
    <3>2. Len(CandidateOrder) # 1
      BY <1>2, <3>1
    <3>3. skipped \in RoutingAttempt
      BY <3>1 DEF RoutingAttempt
    <3>4. attempts = <<skipped>>
      BY <2>2
    <3> HIDE DEF skipped, attempts
    <3> QED
      BY <1>2, <3>2, <3>3, <3>4
  <2> QED
    BY <2>1, <2>2
<1> HIDE DEF attempts
<1>4. request \in Request /\ MayAsk(request)
  BY <1>3 DEF Request, MayAsk
<1> HIDE DEF request
<1> QED
  BY <1>1, <1>4, CallsType

\* A provider failed, and another one is left (generate, model-router.service.ts).
LEMMA FailureTypes ==
  ASSUME GenerationRows, NEW c \in Calls, ProviderFails(c)
  PROVE  calls' \in [Calls -> Request] /\ \A d \in Calls : MayAsk(calls[d])'
<1> DEFINE try == [provider |-> Trying(c), status |-> "failed"]
<1> DEFINE request == [calls[c] EXCEPT !.attempts = Append(calls[c].attempts, try)]
<1>1. /\ calls' = [calls EXCEPT ![c] = request] /\ UNCHANGED settings
      /\ calls[c].stage = "waiting" /\ Trying(c) # "local"
  BY DEF ProviderFails
<1>2. try \in RoutingAttempt /\ Len(calls[c].attempts) + 1 < Len(CandidateOrder)
  BY <1>1, TryingIs DEF RoutingAttempt
<1>3. calls[c] \in Request
  BY DEF GenerationRows
<1>4. calls[c].attempts \in Seq(RoutingAttempt)
  BY <1>3 DEF Request
<1> HIDE DEF try
<1>5. /\ Append(calls[c].attempts, try) \in Seq(RoutingAttempt)
      /\ Len(Append(calls[c].attempts, try)) = Len(calls[c].attempts) + 1
  BY <1>2, <1>4, AppendedTo
<1>6. request \in Request /\ MayAsk(request)
  BY <1>2, <1>3, <1>5 DEF Request, MayAsk
<1> HIDE DEF request
<1> QED
  BY <1>1, <1>6, CallsType

\* generate, after its await (ai.service.ts).
LEMMA AnswerTypes ==
  ASSUME GenerationRows, NEW c \in Calls, NEW text \in Text, NEW voiced,
         ProviderAnswers(c, text, voiced)
  PROVE  /\ calls' \in [Calls -> Request] /\ \A d \in Calls : MayAsk(calls[d])'
         /\ checks' \in Seq(SafetyCheck)
         /\ \A k \in DOMAIN checks' : checks'[k].policy \in DOMAIN policies
         /\ queue' \in Seq(ModerationItem)
         /\ generations' \in Seq(GenerationLog)
<1> DEFINE check == CheckOf(c, text)
<1> DEFINE penalty == IF voiced /\ VoiceScore(text) < 75 THEN 12 ELSE 0
<1> DEFINE stop == \/ check.status = "blocked"
                   \/ check.risk + penalty >= 75
                   \/ voiced /\ BannedTerms(text) # {}
<1> DEFINE entry == [call |-> c, provider |-> Trying(c), fallbackUsed |-> Failed(c), text |-> text,
                     blocked |-> stop, check |-> Len(checks) + 1]
<1> DEFINE try == [provider |-> Trying(c), status |-> "succeeded"]
<1> DEFINE request == [stage |-> "answered", attempts |-> Append(calls[c].attempts, try)]
<1>0. calls[c] \in Request /\ calls \in [Calls -> Request]
  BY DEF GenerationRows
<1>1. /\ calls[c].stage = "waiting" /\ EvaluateContent(c, text)
      /\ calls' = [calls EXCEPT ![c] = request] /\ UNCHANGED settings
      /\ generations' = CutAt(LogCap, Append(generations, entry))
  <2>1. /\ calls[c].stage = "waiting" /\ EvaluateContent(c, text)
        /\ calls' = [calls EXCEPT ![c].stage = "answered", ![c].attempts = Append(@, try)]
        /\ UNCHANGED settings
        /\ generations' = CutAt(LogCap, Append(generations, entry))
    BY DEF ProviderAnswers, CutAt
  <2> HIDE DEF try, entry
  <2>2. calls' = [calls EXCEPT ![c] = request]
    BY <1>0, <2>1 DEF Request
  <2> QED
    BY <2>1, <2>2
<1>2. Trying(c) \in Providers
  BY <1>1, TryingIs
<1>3. calls' \in [Calls -> Request] /\ \A d \in Calls : MayAsk(calls[d])'
  <2>1. try \in RoutingAttempt
    BY <1>2 DEF RoutingAttempt
  <2> HIDE DEF try
  <2>2. Append(calls[c].attempts, try) \in Seq(RoutingAttempt)
    <3>1. calls[c].attempts \in Seq(RoutingAttempt)
      BY <1>0 DEF Request
    <3> QED
      BY <2>1, <3>1, AppendedTo
  <2>3. request \in Request /\ MayAsk(request)
    BY <2>2 DEF Request, MayAsk
  <2> HIDE DEF request
  <2> QED
    BY <1>1, <2>3, CallsType
<1>4. generations' \in Seq(GenerationLog)
  <2>1. generations \in Seq(GenerationLog) /\ Len(checks) + 1 \in Nat
    BY DEF GenerationRows
  <2>2. stop \in BOOLEAN /\ Failed(c) \in BOOLEAN
    BY DEF Failed
  <2> HIDE DEF stop
  <2>3. entry \in GenerationLog
    BY <1>2, <2>1, <2>2 DEF GenerationLog
  <2> HIDE DEF entry
  <2>4. Append(generations, entry) \in Seq(GenerationLog)
    BY <2>1, <2>3, AppendedTo
  <2> DEFINE log == Append(generations, entry)
  <2>5. log \in Seq(GenerationLog) /\ Len(log) = Len(generations) + 1 /\ Len(generations) \in Nat
    BY <2>1, <2>3, <2>4, AppendedTo
  <2>6. generations' = Tail(log) \/ generations' = log
    BY <1>1 DEF CutAt
  <2> HIDE DEF log
  <2>7. log # <<>> /\ Tail(log) \in Seq(GenerationLog)
    BY <2>5
  <2> QED
    BY <2>5, <2>6, <2>7
<1> QED
  BY <1>1, <1>3, <1>4, EvaluationTypes

LEMMA TriedAreTyped ==
  /\ SomeTexts \subseteq Text /\ SomePolicies \subseteq SafetyPolicy /\ SomeVoices \subseteq Voice
BY DEF SomeTexts, SomePolicies, SomeVoices, Text, SafetyPolicy, Voice, Patterns

\* evaluate, resolve, createPolicy and the voice's update (safety.service.ts,
\* brand-voices.service.ts).
LEMMA SettlesTypes ==
  ASSUME GenerationRows, NEW text \in Text, Evaluate(text)
  PROVE  GenerationRows'
<1>1. EvaluateContent("manual", text) /\ UNCHANGED <<settings, calls, voice, policies, generations>>
  BY DEF Evaluate
<1>2. /\ checks' \in Seq(SafetyCheck) /\ queue' \in Seq(ModerationItem)
      /\ \A k \in DOMAIN checks' : checks'[k].policy \in DOMAIN policies
  BY <1>1, EvaluationTypes
<1>3. \A c \in Calls : MayAsk(calls[c])'
  BY <1>1, SettingsStay DEF MayAsk, GenerationRows
<1> QED
  BY <1>1, <1>2, <1>3 DEF GenerationRows, settings

LEMMA ResolvedTypes ==
  ASSUME GenerationRows, NEW q, NEW status \in {"approved", "rejected", "resolved"},
         ResolveModerationItem(q, status)
  PROVE  GenerationRows'
<1> DEFINE item == [queue[q] EXCEPT !.status = status]
<1>1. /\ queue' = [queue EXCEPT ![q] = item]
      /\ UNCHANGED <<settings, calls, voice, policies, checks, generations>>
  BY DEF ResolveModerationItem
<1>2. queue \in Seq(ModerationItem)
  BY DEF GenerationRows
<1>3. q \in DOMAIN queue => queue[q] \in ModerationItem
  BY <1>2, RowsOf
<1>4. q \in DOMAIN queue => item \in ModerationItem
  BY <1>3 DEF ModerationItem
<1> HIDE DEF item
<1>5. queue' \in Seq(ModerationItem)
  BY <1>1, <1>2, <1>4, WrittenIfThere
<1>6. \A c \in Calls : MayAsk(calls[c])'
  BY <1>1, SettingsStay DEF MayAsk, GenerationRows
<1> QED
  BY <1>1, <1>5, <1>6 DEF GenerationRows, settings

LEMMA PolicyTypes ==
  ASSUME GenerationRows, NEW policy \in SafetyPolicy, CreatePolicy(policy)
  PROVE  GenerationRows'
<1>1. /\ policies' = Append(policies, policy)
      /\ UNCHANGED <<settings, calls, voice, checks, queue, generations>>
  BY DEF CreatePolicy
<1>2. policies \in Seq(SafetyPolicy) /\ \A k \in DOMAIN checks : checks[k].policy \in DOMAIN policies
  BY DEF GenerationRows
<1>3. /\ policies' \in Seq(SafetyPolicy) /\ DOMAIN policies \subseteq DOMAIN policies'
      /\ policies' # <<>>
  <2>1. /\ Append(policies, policy) \in Seq(SafetyPolicy)
        /\ DOMAIN Append(policies, policy) = DOMAIN policies \cup {Len(policies) + 1}
        /\ Len(Append(policies, policy)) = Len(policies) + 1 /\ Len(policies) \in Nat
    BY <1>2, AppendedTo
  <2>2. Append(policies, policy) # <<>>
    BY <1>2
  <2> QED
    BY <1>1, <2>1, <2>2
<1>4. \A c \in Calls : MayAsk(calls[c])'
  BY <1>1, SettingsStay DEF MayAsk, GenerationRows
<1> QED
  BY <1>1, <1>2, <1>3, <1>4 DEF GenerationRows, settings

\* updateVoice (brand-voices.service.ts).
LEMMA VoiceTypes ==
  ASSUME GenerationRows, NEW vocabulary \in Voice, UpdateVoice(vocabulary)
  PROVE  GenerationRows'
<1>1. voice' = vocabulary /\ UNCHANGED <<settings, calls, policies, checks, queue, generations>>
  BY DEF UpdateVoice
<1>2. \A c \in Calls : MayAsk(calls[c])'
  BY <1>1, SettingsStay DEF MayAsk, GenerationRows
<1> QED
  BY <1>1, <1>2 DEF GenerationRows, settings

LEMMA CallingTypes ==
  ASSUME GenerationRows, NEW c \in Calls,
         Generate(c) \/ ProviderFails(c)
           \/ \E text \in SomeTexts, voiced \in BOOLEAN : ProviderAnswers(c, text, voiced)
  PROVE  GenerationRows'
<1>1. CASE Generate(c)
  <2>1. UNCHANGED <<settings, voice, policies, checks, queue, generations>>
    BY <1>1 DEF Generate
  <2>2. calls' \in [Calls -> Request] /\ \A d \in Calls : MayAsk(calls[d])'
    BY <1>1, GenerateTypes
  <2> QED
    BY <2>1, <2>2 DEF GenerationRows, settings
<1>2. CASE ProviderFails(c)
  <2>1. UNCHANGED <<settings, voice, policies, checks, queue, generations>>
    BY <1>2 DEF ProviderFails
  <2>2. calls' \in [Calls -> Request] /\ \A d \in Calls : MayAsk(calls[d])'
    BY <1>2, FailureTypes
  <2> QED
    BY <2>1, <2>2 DEF GenerationRows, settings
<1>3. ASSUME NEW text \in Text, NEW voiced \in BOOLEAN, ProviderAnswers(c, text, voiced)
      PROVE  GenerationRows'
  <2>1. UNCHANGED <<settings, voice, policies>>
    BY <1>3 DEF ProviderAnswers
  <2>2. /\ calls' \in [Calls -> Request] /\ \A d \in Calls : MayAsk(calls[d])'
        /\ checks' \in Seq(SafetyCheck)
        /\ \A k \in DOMAIN checks' : checks'[k].policy \in DOMAIN policies
        /\ queue' \in Seq(ModerationItem)
        /\ generations' \in Seq(GenerationLog)
    BY <1>3, AnswerTypes
  <2> QED
    BY <2>1, <2>2 DEF GenerationRows, settings
<1> QED
  BY <1>1, <1>2, <1>3, TriedAreTyped

LEMMA SafetyPanelTypes ==
  ASSUME GenerationRows, SafetyPanel
  PROVE  GenerationRows'
<1>1. ASSUME UNCHANGED generationVars
      PROVE  GenerationRows'
  <2>1. \A c \in Calls : MayAsk(calls[c])'
    BY <1>1, SettingsStay DEF MayAsk, GenerationRows, generationVars, settings
  <2> QED
    BY <1>1, <2>1 DEF GenerationRows, generationVars
<1>2. ASSUME NEW text \in SomeTexts, evaluate(text)
      PROVE  GenerationRows'
  BY <1>2, TriedAreTyped, SettlesTypes DEF evaluate
<1>3. ASSUME NEW q \in DOMAIN shown.queue, resolve(q)
      PROVE  GenerationRows'
  BY <1>3, ResolvedTypes DEF resolve
<1> QED
  BY <1>1, <1>2, <1>3 DEF SafetyPanel

LEMMA GenerationKeepsTypes ==
  ASSUME GenerationRows, [ServicesNext]_servicesVars
  PROVE  GenerationRows'
<1>1. CASE UNCHANGED generationVars
  <2>1. \A c \in Calls : MayAsk(calls[c])'
    BY <1>1, SettingsStay DEF MayAsk, GenerationRows, generationVars, settings
  <2> QED
    BY <1>1, <2>1 DEF GenerationRows, generationVars
<1>2. CASE SafetyPanel
  BY <1>2, SafetyPanelTypes
<1>3. ASSUME NEW policy \in SomePolicies, CreatePolicy(policy)
      PROVE  GenerationRows'
  BY <1>3, TriedAreTyped, PolicyTypes
<1>4. ASSUME NEW text \in SomeTexts, Evaluate(text)
      PROVE  GenerationRows'
  BY <1>4, TriedAreTyped, SettlesTypes
<1>5. ASSUME NEW q, NEW status \in {"approved", "rejected"}, ResolveModerationItem(q, status)
      PROVE  GenerationRows'
  BY <1>5, ResolvedTypes
<1>6. ASSUME NEW vocabulary \in SomeVoices, UpdateVoice(vocabulary)
      PROVE  GenerationRows'
  BY <1>6, TriedAreTyped, VoiceTypes
<1>7. CASE GenerationNext
  BY <1>3, <1>4, <1>5, <1>6, <1>7, CallingTypes DEF GenerationNext
<1> QED
  BY <1>1, <1>2, <1>7, WhoMoves

LEMMA GenerationStartsTyped ==
  ASSUME ServicesInit
  PROVE  GenerationRows
<1>1. GenerationInit
  BY DEF ServicesInit
<1>2. calls \in [Calls -> Request] /\ \A c \in Calls : MayAsk(calls[c])
  BY <1>1 DEF GenerationInit, Request, MayAsk
<1>3. voice \in Voice
  BY <1>1 DEF GenerationInit, Voice
<1>4. policies \in Seq(SafetyPolicy) /\ policies # <<>> /\ DOMAIN policies = {1}
  <2> DEFINE first == [terms |-> Terms, maxRisk |-> 72]
  <2>1. policies = <<first>>
    BY <1>1 DEF GenerationInit, FixturePolicies
  <2>2. first \in SafetyPolicy
    BY DEF SafetyPolicy
  <2> HIDE DEF first
  <2> QED
    BY <2>1, <2>2
<1>5. checks \in Seq(SafetyCheck) /\ DOMAIN checks = {1} /\ checks[1].policy = 1
  <2> DEFINE first == [source |-> "demo", policy |-> 1, risk |-> 92, status |-> "blocked"]
  <2>1. checks = <<first>>
    BY <1>1 DEF GenerationInit, FixtureChecks
  <2>2. first \in SafetyCheck /\ first.policy = 1
    BY DEF SafetyCheck
  <2> HIDE DEF first
  <2> QED
    BY <2>1, <2>2
<1>6. queue \in Seq(ModerationItem)
  <2> DEFINE first == [check |-> 1, status |-> "open"]
  <2>1. queue = <<first>>
    BY <1>1 DEF GenerationInit, FixtureQueue
  <2>2. first \in ModerationItem
    BY DEF ModerationItem
  <2> HIDE DEF first
  <2> QED
    BY <2>1, <2>2
<1> QED
  BY <1>1, <1>2, <1>3, <1>4, <1>5, <1>6 DEF GenerationInit, GenerationRows

LEMMA GenerationTypes == GenerationRows /\ GenerationInv => GenerationTypeOK
BY DEF GenerationRows, Request, GenerationInv, SafetyInv, LoggedAs, GenerationTypeOK

LEMMA ComposerTypes == ComposerInv => ComposerTypeOK
<1> SUFFICES ASSUME ComposerInv
             PROVE  ComposerTypeOK
  OBVIOUS
<1>1. form \in Form
  BY DEF ComposerInv, TypeInv
<1>2. form.master \in Texts /\ form.at \in Times
  BY <1>1 DEF Form
<1>3. page.post \in 0 .. Len(drafts)
  <2>1. page.post \in Nat /\ drafts \in Seq(Draft)
    BY DEF ComposerInv, TypeInv
  <2>2. Len(drafts) \in Nat
    BY <2>1
  <2>3. page.post # NoRecord => page.post \in 1 .. Len(drafts)
    BY DEF ComposerInv, PageKnows
  <2> QED
    BY <2>1, <2>2, <2>3 DEF NoRecord
<1>4. ASSUME NEW k \in Clicks, handlers[k] # Idle
      PROVE  handlers[k].post \in 0 .. Len(drafts)
  <2>1. drafts \in Seq(Draft) /\ Len(drafts) \in Nat
    BY DEF ComposerInv, TypeInv
  <2>2. handlers[k] \in SaveCall \/ handlers[k] \in PostCall
    BY <1>4, HandlerFacts DEF CallOf
  <2>3. CASE handlers[k] \in SaveCall
    BY <2>1, <2>3, HandlerFacts DEF SaveCall, CallKnows, NoRecord
  <2>4. CASE handlers[k] \in PostCall
    BY <2>1, <2>4, HandlerFacts DEF PostCall
  <2> QED
    BY <2>2, <2>3, <2>4
<1> QED
  BY <1>1, <1>2, <1>3, <1>4, FormTabs DEF ComposerTypeOK

-----------------------------------------------------------------------------
(* All services together.                                                  *)

TypesInv ==
  /\ focus \in Focuses
  /\ PanelsInv
  /\ AccessTyped /\ ChannelsTyped /\ MediaInv /\ AlertsTyped
  /\ GenerationRows /\ GenerationInv
  /\ LibraryTyped /\ RecordsTyped /\ ComposerInv

\* Whatever the callers and the panels do, however many records there are and in whatever order,
\* every list holds records as the schemas of packages/domain have them, a status is one of its
\* enum's, a count is a natural number, a time an instant, and a reference names a record there
\* is (the stores' Maps and arrays of apps/api/src/modules).
THEOREM ServicesTypeCorrect == ServicesSpec => []ServicesTypeOK
<1>1. ServicesInit => TypesInv
  <2> SUFFICES ASSUME ServicesInit
               PROVE  TypesInv
    OBVIOUS
  <2>1. focus \in Focuses /\ ComposerInv
    BY ComposerStart DEF ServicesInit
  <2> QED
    BY <2>1, PanelsStartSo, AccessStartsTyped, ChannelsStartTyped, MediaStart, AlertsStartTyped,
       GenerationStartsTyped, GenerationStart, LibraryStartsTyped, RecordsStartTyped
    DEF TypesInv
<1>2. TypesInv /\ [ServicesNext]_servicesVars => TypesInv'
  <2> SUFFICES ASSUME TypesInv, [ServicesNext]_servicesVars
               PROVE  TypesInv'
    OBVIOUS
  <2>1. focus' \in Focuses /\ PanelsInv'
    BY PanelsMove, PanelsKeep DEF TypesInv
  <2>2. AccessTyped' /\ ChannelsTyped' /\ AlertsTyped' /\ LibraryTyped' /\ RecordsTyped'
    BY AccessKeepsTypes, ChannelsKeepTypes, AlertsKeepTypes, LibraryKeepsTypes, RecordsKeepTypes
    DEF TypesInv
  <2>3. MediaInv' /\ ComposerInv'
    BY WhoMoves, MediaKeeps, ComposerKeeps DEF TypesInv
  <2>4. GenerationRows' /\ GenerationInv'
    BY WhoMoves, GenerationKeepsTypes, GenerationMoves, GenerationKeeps DEF TypesInv
  <2> QED
    BY <2>1, <2>2, <2>3, <2>4 DEF TypesInv
<1>3. TypesInv => ServicesTypeOK
  <2> SUFFICES ASSUME TypesInv
               PROVE  ServicesTypeOK
    OBVIOUS
  <2>1. now \in Instants /\ focus \in Focuses
    BY DEF TypesInv, AccessTyped, KeysInv
  <2>2. MediaTypeOK
    BY DEF TypesInv, MediaInv, MediaTypeOK
  <2> QED
    BY <2>1, <2>2, AccessTypes, ChannelsTypes, AlertsTypes, GenerationTypes, LibraryTypes,
       RecordsTypes, ComposerTypes DEF TypesInv, ServicesTypeOK
<1> QED
  BY <1>1, <1>2, <1>3, PTL DEF ServicesSpec
=============================================================================
