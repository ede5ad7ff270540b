------------------------------ MODULE Sessions ------------------------------
(***************************************************************************)
(* SessionsService: the refresh-token session store of the API, with       *)
(* rotation, the rotation grace window, reuse detection, idle and absolute *)
(* expiry, the per-user bound and pruning.                                 *)
(*                                                                         *)
(* A session and its refresh token are issued together and one to one, so  *)
(* one number names both; numbers are handed out in issue order, which is  *)
(* also the insertion order of the sessions map.  A family is named by the *)
(* session that opened it.  Every method of the service is synchronous, so *)
(* each is one action.  The workspace, role, address and user agent of a   *)
(* session are carried along and never read, and are left out.             *)
(***************************************************************************)
EXTENDS Integers, FiniteSets

CONSTANTS
  Users,
  AbsoluteTtl,     \* REFRESH_TOKEN_TTL_DAYS
  IdleTimeout,     \* SESSION_IDLE_TIMEOUT_MINUTES
  Grace,           \* REFRESH_ROTATION_GRACE_SECONDS, may be 0
  MaxPerUser,      \* SESSION_MAX_PER_USER
  Retention,       \* how long dead sessions are kept (seven days)
  MaxSessions,     \* bound: sessions issued in a behaviour
  MaxTime          \* bound: ticks of the clock in a behaviour

ASSUME SessionsAssumption ==
  /\ AbsoluteTtl \in Nat \ {0}
  /\ IdleTimeout \in Nat \ {0}
  /\ Grace \in Nat
  /\ MaxPerUser \in Nat \ {0}
  /\ Retention \in Nat
  /\ MaxSessions \in Nat
  /\ MaxTime \in Nat

VARIABLES
  now,             \* Date.now()
  issued,          \* how many sessions have been issued
  sessions,        \* the sessions map: id -> session
  recentRotations, \* rotated token -> the replacement it was given
  answer,          \* what the last rotate call returned
  reused           \* history: the families in which reuse was detected

vars == <<now, issued, sessions, recentRotations, answer, reused>>

Never == -1
NoAnswer == [token |-> 0, kind |-> "none", session |-> 0]

Time == 0 .. MaxTime
Ids == 1 .. MaxSessions
Kinds == {"none", "ok", "unknown", "reuse_detected", "idle", "expired"}
\* "revoked" stands for every reason a caller may give; "lapsed" for idle_timeout and expired.
Reasons == {"", "rotated", "revoked", "lapsed", "concurrent_session_limit",
            "refresh_token_reuse_detected"}

\* replaces is history: the token this session was issued in exchange for, 0 for a sign-in.
Session ==
  [user : Users, family : Ids, lastUsedAt : Time, expiresAt : Nat,
   revokedAt : Time \cup {Never}, reason : Reasons, replaces : Ids \cup {0}]

Rotation == [session : Ids, family : Ids, expiresAt : Nat]

TypeOK ==
  /\ now \in Time
  /\ issued \in 0 .. MaxSessions
  /\ DOMAIN sessions \subseteq 1 .. issued
  /\ sessions \in [DOMAIN sessions -> Session]
  /\ DOMAIN recentRotations \subseteq 1 .. issued
  /\ recentRotations \in [DOMAIN recentRotations -> Rotation]
  /\ answer \in [token : Ids \cup {0}, kind : Kinds, session : Ids \cup {0}]
  /\ reused \subseteq Ids

Init ==
  /\ now = 0
  /\ issued = 0
  /\ sessions = [s \in {} |-> NoAnswer]
  /\ recentRotations = [t \in {} |-> NoAnswer]
  /\ answer = NoAnswer
  /\ reused = {}

-----------------------------------------------------------------------------
(* The private helpers of the service.                                     *)

StateOf(r) ==
  CASE r.expiresAt <= now                -> "expired"
    [] r.expiresAt > now /\ r.lastUsedAt + IdleTimeout <= now -> "idle"
    [] OTHER                             -> "active"

Validate(s) ==
  CASE s \notin DOMAIN sessions          -> "unknown"
    [] s \in DOMAIN sessions /\ sessions[s].revokedAt # Never -> "revoked"
    [] OTHER                             -> StateOf(sessions[s])

Usable(s) == Validate(s) = "active"

\* Stamps every unrevoked session of ids in the map S.
RevokedIn(S, ids, why) ==
  [s \in DOMAIN S |->
     IF s \in ids /\ S[s].revokedAt = Never
     THEN [S[s] EXCEPT !.revokedAt = now, !.reason = why]
     ELSE S[s]]

Without(f, D) == [x \in DOMAIN f \ D |-> f[x]]

Prunable(r) ==
  \/ r.expiresAt < now - Retention
  \/ r.revokedAt # Never /\ r.revokedAt < now - Retention

PrunedSessions(S) == Without(S, {s \in DOMAIN S : Prunable(S[s])})

PrunedRotations(R) == Without(R, {t \in DOMAIN R : R[t].expiresAt <= now})

Live(S, u) ==
  {s \in DOMAIN S : S[s].user = u /\ S[s].revokedAt = Never /\ StateOf(S[s]) = "active"}

\* Mutant: the bound evicts the most recently used.
Precedes_Newest(S, a, b) ==
  \/ S[a].lastUsedAt > S[b].lastUsedAt
  \/ S[a].lastUsedAt = S[b].lastUsedAt /\ a < b

\* a precedes b in the order the eviction loop visits them: a stable sort on lastUsedAt.
Precedes(S, a, b) ==
  \/ S[a].lastUsedAt < S[b].lastUsedAt
  \/ S[a].lastUsedAt = S[b].lastUsedAt /\ a < b

\* Mutant: the session just issued is not counted.
Evicted_OffByOne(S, u, keep) ==
  LET old    == Live(S, u) \ {keep}
      excess == Cardinality(old) - MaxPerUser
  IN {s \in old : Cardinality({r \in old : Precedes(S, r, s)}) < excess}

\* The live sessions of u that enforceConcurrencyLimit revokes: all but keep, oldest first,
\* for as long as there are too many.
Evicted(S, u, keep) ==
  LET live   == Live(S, u)
      excess == Cardinality(live) - MaxPerUser
  IN {s \in live \ {keep} :
        Cardinality({r \in live \ {keep} : Precedes(S, r, s)}) < excess}

\* The map after issue() has pruned it, added session id and enforced the bound.
WithIssued(S, id, u, fam, old) ==
  LET new  == [user |-> u, family |-> fam, lastUsedAt |-> now,
               expiresAt |-> now + AbsoluteTtl, revokedAt |-> Never, reason |-> "",
               replaces |-> old]
      kept == PrunedSessions(S)
      all  == [s \in DOMAIN kept \cup {id} |-> IF s = id THEN new ELSE kept[s]]
  IN RevokedIn(all, Evicted(all, u, id), "concurrent_session_limit")

FamilyOf(S, f) == {s \in DOMAIN S : S[s].family = f}

-----------------------------------------------------------------------------
(* The operations.                                                         *)

\* issue() with a family of its own: a sign-in, or a switch of workspace.
Issue(u) ==
  /\ issued < MaxSessions
  /\ issued' = issued + 1
  /\ sessions' = WithIssued(sessions, issued + 1, u, issued + 1, 0)
  /\ recentRotations' = PrunedRotations(recentRotations)
  /\ answer' = NoAnswer
  /\ UNCHANGED <<now, reused>>

\* Mutant: the window is checked, the replacement is not.
Replayable_NoValidate(t) ==
  /\ t \in DOMAIN recentRotations
  /\ recentRotations[t].expiresAt > now

\* A replay inside the grace window, of a token whose replacement is still usable.
Replayable(t) ==
  /\ t \in DOMAIN recentRotations
  /\ recentRotations[t].expiresAt > now
  /\ Usable(recentRotations[t].session)

RotateReplay(t) ==
  /\ Replayable(t)
  /\ answer' = [token |-> t, kind |-> "ok", session |-> recentRotations[t].session]
  /\ UNCHANGED <<now, issued, sessions, recentRotations, reused>>

RotateUnknown(t) ==
  /\ ~Replayable(t)
  /\ t \notin DOMAIN sessions
  /\ recentRotations' = Without(recentRotations, {t})
  /\ answer' = [token |-> t, kind |-> "unknown", session |-> 0]
  /\ UNCHANGED <<now, issued, sessions, reused>>

\* Mutant: reuse revokes the live sessions and leaves the family's grace entries.
RotateReused_KeepsGrace(t) ==
  /\ ~Replayable(t)
  /\ t \in DOMAIN sessions
  /\ sessions[t].revokedAt # Never
  /\ LET f == sessions[t].family
     IN /\ sessions' = RevokedIn(sessions, FamilyOf(sessions, f), "refresh_token_reuse_detected")
        /\ reused' = reused \cup {f}
  /\ recentRotations' = Without(recentRotations, {t})
  /\ answer' = [token |-> t, kind |-> "reuse_detected", session |-> 0]
  /\ UNCHANGED <<now, issued>>

\* A revoked token is presented: revokeFamily, which also forgets the family's grace entries.
RotateReused(t) ==
  /\ ~Replayable(t)
  /\ t \in DOMAIN sessions
  /\ sessions[t].revokedAt # Never
  /\ LET f == sessions[t].family
     IN /\ sessions' = RevokedIn(sessions, FamilyOf(sessions, f), "refresh_token_reuse_detected")
        /\ recentRotations' =
             Without(recentRotations,
                     {t} \cup {r \in DOMAIN recentRotations : recentRotations[r].family = f})
        /\ reused' = reused \cup {f}
  /\ answer' = [token |-> t, kind |-> "reuse_detected", session |-> 0]
  /\ UNCHANGED <<now, issued>>

RotateLapsed(t) ==
  /\ ~Replayable(t)
  /\ t \in DOMAIN sessions
  /\ sessions[t].revokedAt = Never
  /\ StateOf(sessions[t]) # "active"
  /\ LET idle == StateOf(sessions[t]) = "idle"
     IN /\ sessions' = RevokedIn(sessions, {t}, "lapsed")
        /\ answer' = [token |-> t, kind |-> IF idle THEN "idle" ELSE "expired", session |-> 0]
  /\ recentRotations' = Without(recentRotations, {t})
  /\ UNCHANGED <<now, issued, reused>>

\* Mutant: the entry is kept under the digest of the new token.
WithRotation_NewKey(R, t, id, fam) ==
  IF Grace = 0 THEN R
  ELSE [r \in DOMAIN R \cup {id} |->
          IF r = id THEN [session |-> id, family |-> fam, expiresAt |-> now + Grace] ELSE R[r]]

\* The grace entry rotate() leaves behind, on top of what issue() kept of the others.
WithRotation(R, t, id, fam) ==
  IF Grace = 0 THEN R
  ELSE [r \in DOMAIN R \cup {t} |->
          IF r = t THEN [session |-> id, family |-> fam, expiresAt |-> now + Grace] ELSE R[r]]

\* Mutant: the rotated session is not revoked.
RotateUsable_NoRevoke(t) ==
  /\ ~Replayable(t)
  /\ Usable(t)
  /\ issued < MaxSessions
  /\ issued' = issued + 1
  /\ sessions' = WithIssued(sessions, issued + 1, sessions[t].user, sessions[t].family, t)
  /\ recentRotations' = PrunedRotations(Without(recentRotations, {t}))
  /\ answer' = [token |-> t, kind |-> "ok", session |-> issued + 1]
  /\ UNCHANGED <<now, reused>>

\* Mutant: an idle session may still be rotated.
RotateUsable_IgnoresIdle(t) ==
  /\ ~Replayable(t)
  /\ t \in DOMAIN sessions /\ sessions[t].revokedAt = Never /\ sessions[t].expiresAt > now
  /\ issued < MaxSessions
  /\ issued' = issued + 1
  /\ LET s == sessions[t]
     IN /\ sessions' = WithIssued(RevokedIn(sessions, {t}, "rotated"), issued + 1,
                                  s.user, s.family, t)
        /\ recentRotations' =
             WithRotation(PrunedRotations(Without(recentRotations, {t})), t, issued + 1, s.family)
  /\ answer' = [token |-> t, kind |-> "ok", session |-> issued + 1]
  /\ UNCHANGED <<now, reused>>

RotateUsable(t) ==
  /\ ~Replayable(t)
  /\ Usable(t)
  /\ issued < MaxSessions
  /\ issued' = issued + 1
  /\ LET id == issued + 1
         s  == sessions[t]
     IN /\ sessions' = WithIssued(RevokedIn(sessions, {t}, "rotated"), id, s.user, s.family, t)
        /\ recentRotations' =
             WithRotation(PrunedRotations(Without(recentRotations, {t})), t, id, s.family)
        /\ answer' = [token |-> t, kind |-> "ok", session |-> id]
  /\ UNCHANGED <<now, reused>>

Rotate(t) ==
  \/ RotateReplay(t)
  \/ RotateUnknown(t)
  \/ RotateReused(t)
  \/ RotateLapsed(t)
  \/ RotateUsable(t)

\* Mutant: touch() looks at revokedAt and not at the state.
TouchedSession_AnyUnrevoked(s) ==
  IF s \in DOMAIN sessions /\ sessions[s].revokedAt = Never
  THEN [sessions EXCEPT ![s].lastUsedAt = now]
  ELSE sessions

\* touch(): slides the idle window of a usable session, and retires an idle one.
TouchedSession(s) ==
  IF Validate(s) = "idle" THEN RevokedIn(sessions, {s}, "lapsed")
  ELSE IF Usable(s) THEN [sessions EXCEPT ![s].lastUsedAt = now]
  ELSE sessions

Touch(s) ==
  /\ sessions' = TouchedSession(s)
  /\ answer' = NoAnswer
  /\ UNCHANGED <<now, issued, recentRotations, reused>>

\* revoke(id) and revokeByToken(token): the same effect, on the same session.
Revoke(s) ==
  /\ sessions' = RevokedIn(sessions, {s}, "revoked")
  /\ answer' = NoAnswer
  /\ UNCHANGED <<now, issued, recentRotations, reused>>

\* except is 0 when the caller spares no session.
RevokeAllForUser(u, except) ==
  /\ sessions' = RevokedIn(sessions, {s \in DOMAIN sessions : sessions[s].user = u} \ {except},
                           "revoked")
  /\ answer' = NoAnswer
  /\ UNCHANGED <<now, issued, recentRotations, reused>>

\* listForUser() prunes before it reads; what it returns is not kept.
ListForUser ==
  /\ sessions' = PrunedSessions(sessions)
  /\ recentRotations' = PrunedRotations(recentRotations)
  /\ answer' = NoAnswer
  /\ UNCHANGED <<now, issued, reused>>

Tick ==
  /\ now < MaxTime
  /\ now' = now + 1
  /\ answer' = NoAnswer
  /\ UNCHANGED <<issued, sessions, recentRotations, reused>>

\* The tokens a client may present: any that was issued, or one that never was.
Tokens == 0 .. issued

Next ==
  \/ \E u \in Users : Issue(u)
  \/ \E t \in Tokens : Rotate(t) \/ Touch(t) \/ Revoke(t)
  \/ \E u \in Users, s \in Tokens : RevokeAllForUser(u, s)
  \/ ListForUser
  \/ Tick

Spec == Init /\ [][Next]_vars

-----------------------------------------------------------------------------
(* Properties.                                                             *)

(***************************************************************************)
(* A family never has two unrevoked sessions: rotation hands a credential  *)
(* on, it never forks it, whatever replays, evictions and prunings happen  *)
(* around it.                                                              *)
(***************************************************************************)
OneUnrevokedPerFamily ==
  \A s, r \in DOMAIN sessions :
    /\ sessions[s].family = sessions[r].family
    /\ sessions[s].revokedAt = Never
    /\ sessions[r].revokedAt = Never
    => s = r

(***************************************************************************)
(* A refresh token is exchanged for one replacement in its life, and every *)
(* successful call that presents it, first or replayed, returns that one.  *)
(***************************************************************************)
OneReplacementPerToken ==
  /\ \A s, r \in DOMAIN sessions :
       sessions[s].replaces = sessions[r].replaces /\ sessions[s].replaces # 0 => s = r
  /\ answer.kind = "ok" =>
       /\ answer.session \in DOMAIN sessions
       /\ sessions[answer.session].replaces = answer.token

(***************************************************************************)
(* Every grace entry names the replacement of the very token it is filed   *)
(* under, in that token's family, and that token can no longer be used.    *)
(***************************************************************************)
GraceEntriesMatch ==
  \A t \in DOMAIN recentRotations :
    LET r == recentRotations[t]
    IN /\ t \in DOMAIN sessions =>
            /\ sessions[t].revokedAt # Never
            /\ sessions[t].family = r.family
       /\ r.session \in DOMAIN sessions =>
            /\ sessions[r.session].replaces = t
            /\ sessions[r.session].family = r.family

(***************************************************************************)
(* The session a rotation returns is usable at that moment: issuing it did *)
(* not evict it, and a replay does not resurrect a session that was logged *)
(* out, revoked or timed out meanwhile.                                    *)
(***************************************************************************)
AnswerIsUsable == answer.kind = "ok" => Usable(answer.session)

(***************************************************************************)
(* Once reuse has been detected the family has no unrevoked session and no *)
(* grace entry, for good: no later rotate, replay or touch brings it back. *)
(***************************************************************************)
ReusedFamilyIsDead ==
  /\ \A s \in DOMAIN sessions : sessions[s].family \in reused => sessions[s].revokedAt # Never
  /\ \A t \in DOMAIN recentRotations : recentRotations[t].family \notin reused

(***************************************************************************)
(* No user holds more usable sessions than SESSION_MAX_PER_USER.           *)
(***************************************************************************)
ConcurrencyBounded == \A u \in Users : Cardinality(Live(sessions, u)) <= MaxPerUser

(***************************************************************************)
(* A session that is not usable never becomes usable: neither a late touch *)
(* nor the clock nor a rotation of its family revives it.                  *)
(***************************************************************************)
LapsedStaysLapsed ==
  [][\A s \in 1 .. issued : ~Usable(s) => ~Usable(s)']_vars

(***************************************************************************)
(* The bound evicts the least recently used: whatever a step evicts was    *)
(* last used no later than any session of the same user it leaves usable.  *)
(***************************************************************************)
EvictsLeastRecentlyUsed ==
  [][\A s, r \in DOMAIN sessions \cap DOMAIN sessions' :
       /\ Usable(s) /\ sessions'[s].reason = "concurrent_session_limit"
       /\ Usable(r) /\ Usable(r)'
       /\ sessions[s].user = sessions[r].user
       => sessions[s].lastUsedAt <= sessions[r].lastUsedAt]_vars

\* The family's usable session, the refinement mapping onto SessionFamilies.
CurrentOf(f) ==
  IF \E s \in FamilyOf(sessions, f) : Usable(s)
  THEN CHOOSE s \in FamilyOf(sessions, f) : Usable(s)
  ELSE 0

Abstract == INSTANCE SessionFamilies
  WITH Families <- Ids, seq <- issued, current <- [f \in Ids |-> CurrentOf(f)]

(***************************************************************************)
(* The store implements the abstract chain of credentials.                 *)
(***************************************************************************)
ImplementsFamilies == Abstract!FSpec
=============================================================================
