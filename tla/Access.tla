------------------------------- MODULE Access -------------------------------
(***************************************************************************)
(* Who may act for a workspace: MembersService (members and invitations),  *)
(* ApiKeysService with its guard, and IdentityService (single sign-on,     *)
(* trusted devices and the sessions an administrator sees).  The three     *)
(* share no state; nothing in the code accepts an invitation, and nothing  *)
(* reads when one expires.                                                 *)
(***************************************************************************)
EXTENDS Service

CONSTANTS
  MaxInvitations,  \* bound: invitations made
  MaxTokens,       \* bound: invitation tokens drawn
  MaxKeys,         \* bound: API keys created
  MaxConnections   \* bound: SSO connections created

VARIABLES
  members,      \* the fixtures' members
  invitations,  \* oldest first
  tokens,       \* how many tokens have been drawn
  apiKeys,      \* oldest first
  connections,  \* SSO connections, oldest first
  devices,      \* the fixtures' devices, of which there is the status
  authSessions  \* the fixtures' sessions that an administrator sees

membersVars == <<members, invitations, tokens>>
keysVars == <<apiKeys>>
identityVars == <<connections, devices, authSessions>>

AccessAssumption == MaxTokens \in Nat \ {0}
ASSUME AccessAssumption

Roles == {"owner", "reviewer"}
Member == [user : {"owner"}, role : Roles, status : {"active", "suspended"}]
Invitation == [email : Spelled, role : Roles, token : 1 .. MaxTokens, status : {"pending", "revoked"}]
ApiKey ==
  [createdAt : Instants, expiresAt : Nat, lastUsedAt : {Never} \cup Instants,
   revokedAt : {Never} \cup Instants, status : {"active", "revoked", "expired"}]
SsoConnection == [domain : Spelled, status : {"draft", "active", "disabled"}]
TrustedDevice == {"trusted", "pending", "revoked"}
AuthSession == [device : 1 .. 2, status : {"active", "revoked"}]

AccessTypeOK ==
  /\ members \in Seq(Member)
  /\ invitations \in Seq(Invitation)
  /\ tokens \in 0 .. MaxTokens
  /\ apiKeys \in Seq(ApiKey)
  /\ connections \in Seq(SsoConnection)
  /\ devices \in Seq(TrustedDevice)
  /\ authSessions \in Seq(AuthSession)

-----------------------------------------------------------------------------
(* Members and invitations. *)

FixtureMembers == << [user |-> "owner", role |-> "owner", status |-> "active"] >>
FixtureInvitations ==
  << [email |-> DemoName, role |-> "reviewer", token |-> 1, status |-> "pending"] >>

MembersInit ==
  /\ members = FixtureMembers
  /\ invitations = FixtureInvitations
  /\ tokens = 1

DrawToken == tokens < MaxTokens /\ tokens' = tokens + 1

PendingFor(email) ==
  {i \in DOMAIN invitations : invitations[i].email = email /\ invitations[i].status = "pending"}

\* Mutant: pending invitations are looked for under the address as it was typed.
Invite_AsTyped(email, role) ==
  /\ AssertAllowed("teamMembers", 1)
  /\ PendingFor(email) = {}
  /\ Len(invitations) < MaxInvitations
  /\ DrawToken
  /\ invitations' = Append(invitations, [email |-> Plain(email), role |-> role,
                                         token |-> tokens', status |-> "pending"])
  /\ UNCHANGED members

Invite(email, role) ==
  /\ AssertAllowed("teamMembers", 1)
  /\ PendingFor(Plain(email)) = {}
  /\ Len(invitations) < MaxInvitations
  /\ DrawToken
  /\ invitations' = Append(invitations, [email |-> Plain(email), role |-> role,
                                         token |-> tokens', status |-> "pending"])
  /\ UNCHANGED members

ResendInvitation(i) ==
  /\ invitations[i].status = "pending"
  /\ DrawToken
  /\ invitations' = [invitations EXCEPT ![i].token = tokens']
  /\ UNCHANGED members

RevokeInvitation(i) ==
  /\ invitations[i].status = "pending"
  /\ invitations' = [invitations EXCEPT ![i].status = "revoked"]
  /\ UNCHANGED <<members, tokens>>

\* Neither asks who the member is: the last owner can be given another role.
UpdateRole(m, role) ==
  /\ members' = [members EXCEPT ![m].role = role]
  /\ UNCHANGED <<invitations, tokens>>

Suspend(m, caller) ==
  /\ members[m].user # caller
  /\ members' = [members EXCEPT ![m].status = "suspended"]
  /\ UNCHANGED <<invitations, tokens>>

MembersNext ==
  /\ UNCHANGED now
  /\ \/ \E email \in Spelled, role \in Roles : Invite(email, role)
     \/ \E i \in DOMAIN invitations : ResendInvitation(i) \/ RevokeInvitation(i)
     \/ \E m \in DOMAIN members :
          \/ \E role \in Roles : UpdateRole(m, role)
          \/ \E caller \in {"owner", "another"} : Suspend(m, caller)

\* Two people are never invited as one: at most one pending invitation per address, whatever the
\* spelling, and no token opens two invitations.  [MembersService.invite, resendInvitation]
InvitationsApart ==
  \A i, j \in DOMAIN invitations : i # j =>
    /\ invitations[i].token # invitations[j].token
    /\ invitations[i].email = invitations[j].email =>
         "revoked" \in {invitations[i].status, invitations[j].status}

-----------------------------------------------------------------------------
(* API keys.  A key's secret is known by the key's place in the list; the  *)
(* fixtures' key has a made-up hash, which no secret has.                  *)

FixtureKeys ==
  << [createdAt |-> 1, expiresAt |-> MaxTime + 1, lastUsedAt |-> Never, revokedAt |-> Never,
      status |-> "active"] >>

KeysInit == apiKeys = FixtureKeys

CreateKey(expiresAt) ==
  /\ AssertAllowed("apiAccess", 1)
  /\ Len(apiKeys) < MaxKeys
  /\ apiKeys' = Append(apiKeys, [createdAt |-> now, expiresAt |-> expiresAt, lastUsedAt |-> Never,
                                 revokedAt |-> Never, status |-> "active"])

\* revoke does not look at the expiry: a key that lapsed unused is active until it is presented.
RevokeKey(k) ==
  /\ apiKeys[k].status = "active"
  /\ apiKeys' = [apiKeys EXCEPT ![k].status = "revoked", ![k].revokedAt = now]

Lapsed(k) == apiKeys[k].expiresAt # Never /\ apiKeys[k].expiresAt <= now

\* Mutant: a revoked key is told from an active one only by its expiry.
VerifySecret_Revoked(k) ==
  /\ apiKeys[k].status # "expired"
  /\ apiKeys' = [apiKeys EXCEPT ![k] =
                   IF Lapsed(k) THEN [@ EXCEPT !.status = "expired"]
                                ELSE [@ EXCEPT !.lastUsedAt = now]]

\* The guard lets the request in exactly when lastUsedAt is set.
VerifySecret(k) ==
  /\ apiKeys[k].status = "active"
  /\ apiKeys' = [apiKeys EXCEPT ![k] =
                   IF Lapsed(k) THEN [@ EXCEPT !.status = "expired"]
                                ELSE [@ EXCEPT !.lastUsedAt = now]]

KeysNext ==
  \/ Tick /\ UNCHANGED keysVars
  \/ /\ UNCHANGED now
     /\ \/ \E t \in {Never} \cup Instants : CreateKey(t)
        \/ \E k \in DOMAIN apiKeys : RevokeKey(k)
        \/ \E k \in DOMAIN apiKeys \ DOMAIN FixtureKeys : VerifySecret(k)

\* A key opens the API only between its creation and its end: never at or after its expiry, never
\* after it was revoked.  [ApiKeysService.verifySecret]
KeysUsedInTheirLife ==
  \A k \in DOMAIN apiKeys : apiKeys[k].lastUsedAt # Never =>
    /\ apiKeys[k].createdAt <= apiKeys[k].lastUsedAt
    /\ apiKeys[k].expiresAt # Never => apiKeys[k].lastUsedAt < apiKeys[k].expiresAt
    /\ apiKeys[k].revokedAt # Never => apiKeys[k].lastUsedAt <= apiKeys[k].revokedAt

-----------------------------------------------------------------------------
(* Identity. *)

FixtureConnections == << [domain |-> DemoName, status |-> "active"] >>
FixtureDevices == <<"trusted", "pending">>
FixtureSessions == << [device |-> 1, status |-> "active"], [device |-> 2, status |-> "active"] >>

IdentityInit ==
  /\ connections = FixtureConnections
  /\ devices = FixtureDevices
  /\ authSessions = FixtureSessions

CreateConnection(domain) ==
  /\ ~\E i \in DOMAIN connections :
        connections[i].domain = Plain(domain) /\ connections[i].status # "disabled"
  /\ Len(connections) < MaxConnections
  /\ connections' = Append(connections, [domain |-> Plain(domain), status |-> "draft"])
  /\ UNCHANGED <<devices, authSessions>>

\* A test activates whatever it is given, a disabled connection too.
TestConnection(i) ==
  /\ connections' = [connections EXCEPT ![i].status = "active"]
  /\ UNCHANGED <<devices, authSessions>>

DisableConnection(i) ==
  /\ connections[i].status # "disabled"
  /\ connections' = [connections EXCEPT ![i].status = "disabled"]
  /\ UNCHANGED <<devices, authSessions>>

RevokeAuthSession(s) ==
  /\ authSessions[s].status # "revoked"
  /\ authSessions' = [authSessions EXCEPT ![s].status = "revoked"]
  /\ UNCHANGED <<connections, devices>>

TrustDevice(d) ==
  /\ devices' = [devices EXCEPT ![d] = "trusted"]
  /\ UNCHANGED <<connections, authSessions>>

\* Mutant: the sessions of a device are ended only when it was trusted.
RevokeDevice_Trusted(d) ==
  /\ devices[d] # "revoked"
  /\ devices' = [devices EXCEPT ![d] = "revoked"]
  /\ authSessions' = [s \in DOMAIN authSessions |->
       IF authSessions[s].device = d /\ devices[d] = "trusted"
       THEN [authSessions[s] EXCEPT !.status = "revoked"] ELSE authSessions[s]]
  /\ UNCHANGED connections

RevokeDevice(d) ==
  /\ devices[d] # "revoked"
  /\ devices' = [devices EXCEPT ![d] = "revoked"]
  /\ authSessions' = [s \in DOMAIN authSessions |->
       IF authSessions[s].device = d
       THEN [authSessions[s] EXCEPT !.status = "revoked"] ELSE authSessions[s]]
  /\ UNCHANGED connections

IdentityNext ==
  /\ UNCHANGED now
  /\ \/ \E domain \in Spelled : CreateConnection(domain)
     \/ \E i \in DOMAIN connections : TestConnection(i) \/ DisableConnection(i)
     \/ \E s \in DOMAIN authSessions : RevokeAuthSession(s)
     \/ \E d \in DOMAIN devices : TrustDevice(d) \/ RevokeDevice(d)

\* No session outlives the trust in its device: a revoked device has no active session, and
\* trusting the device again brings none back.  [IdentityService.revokeDevice, trustDevice]
DevicesTakeTheirSessions ==
  [][/\ \A s \in DOMAIN authSessions : authSessions[s].status = "revoked" =>
          authSessions'[s].status = "revoked"
     /\ \A d \in DOMAIN devices, s \in DOMAIN authSessions :
          devices'[d] = "revoked" /\ authSessions[s].device = d =>
            authSessions'[s].status = "revoked"]_identityVars
=============================================================================
