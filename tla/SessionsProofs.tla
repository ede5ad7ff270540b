--------------------------- MODULE SessionsProofs ---------------------------
(***************************************************************************)
(* Theorems about Sessions, for every number of users, every length of the *)
(* windows and every bound.                                                *)
(*                                                                         *)
(* Every operation either only takes away from the sessions it finds       *)
(* (Shrunk), or does so and adds one new session (Grown).  The lemmas      *)
(* below establish that once, for each operation; the invariants and the   *)
(* refinement follow from it without looking into the operations again.    *)
(***************************************************************************)
EXTENDS Sessions, FiniteSetTheorems, TLAPS

\* The fields of a session that never change.
Same(a, b) ==
  /\ a.user = b.user
  /\ a.family = b.family
  /\ a.expiresAt = b.expiresAt
  /\ a.replaces = b.replaces

\* T keeps some of the sessions of S, and may have revoked any of them.
Shrunk(S, T) ==
  /\ DOMAIN T \subseteq DOMAIN S
  /\ \A s \in DOMAIN T :
       /\ Same(S[s], T[s])
       /\ T[s].lastUsedAt = S[s].lastUsedAt
       /\ T[s].revokedAt = Never => S[s].revokedAt = Never

NewSession(u, fam, old) ==
  [user |-> u, family |-> fam, lastUsedAt |-> now, expiresAt |-> now + AbsoluteTtl,
   revokedAt |-> Never, reason |-> "", replaces |-> old]

IsNew(n, u, fam, old) ==
  /\ n.user = u
  /\ n.family = fam
  /\ n.lastUsedAt = now
  /\ n.expiresAt = now + AbsoluteTtl
  /\ n.revokedAt = Never
  /\ n.replaces = old

\* T is what S shrinks to, plus a new session id.
Grown(S, T, id, u, fam, old) ==
  /\ id \in DOMAIN T
  /\ DOMAIN T \subseteq DOMAIN S \cup {id}
  /\ IsNew(T[id], u, fam, old)
  /\ \A s \in DOMAIN T \ {id} :
       /\ Same(S[s], T[s])
       /\ T[s].lastUsedAt = S[s].lastUsedAt
       /\ T[s].revokedAt = Never => S[s].revokedAt = Never

-----------------------------------------------------------------------------
(* The helpers.                                                            *)

(* Revoking keeps every session, its type and everything but the stamp. *)
LEMMA RevokedInFacts ==
  ASSUME NEW D, NEW S \in [D -> Session], NEW ids, NEW why \in Reasons, now \in Time
  PROVE  /\ RevokedIn(S, ids, why) \in [D -> Session]
         /\ Shrunk(S, RevokedIn(S, ids, why))
         /\ \A s \in D : RevokedIn(S, ids, why)[s].revokedAt =
              (IF s \in ids /\ S[s].revokedAt = Never THEN now ELSE S[s].revokedAt)
  BY DEF RevokedIn, Session, Shrunk, Same, Never, Time

(* Pruning only removes sessions. *)
LEMMA PrunedFacts ==
  ASSUME NEW D, NEW S \in [D -> Session]
  PROVE  /\ DOMAIN PrunedSessions(S) \subseteq D
         /\ PrunedSessions(S) \in [DOMAIN PrunedSessions(S) -> Session]
         /\ \A s \in DOMAIN PrunedSessions(S) : PrunedSessions(S)[s] = S[s]
  BY DEF PrunedSessions, Without

(* The record issue() builds, field by field. *)
LEMMA NewSessionIsNew ==
  ASSUME NEW u, NEW fam, NEW old, NEW n, n = NewSession(u, fam, old)
  PROVE  IsNew(n, u, fam, old)
  BY DEF NewSession, IsNew

(* issue() adds one session, which the bound does not evict, and otherwise shrinks the map. *)
LEMMA WithIssuedFacts ==
  ASSUME NEW D \in SUBSET Ids, NEW S \in [D -> Session],
         NEW id \in Ids \ D, NEW u \in Users, NEW fam \in Ids, NEW old \in Ids \cup {0},
         now \in Time
  PROVE  LET T == WithIssued(S, id, u, fam, old)
         IN /\ T \in [DOMAIN T -> Session]
            /\ Grown(S, T, id, u, fam, old)
<1> DEFINE kept == PrunedSessions(S)
           all  == [s \in DOMAIN kept \cup {id} |->
                      IF s = id THEN NewSession(u, fam, old) ELSE kept[s]]
           gone == Evicted(all, u, id)
           T    == RevokedIn(all, gone, "concurrent_session_limit")
<1>1. /\ DOMAIN kept \subseteq D
      /\ kept \in [DOMAIN kept -> Session]
      /\ \A s \in DOMAIN kept : kept[s] = S[s]
  BY PrunedFacts
<1>2. NewSession(u, fam, old) \in Session
  <2>1. now + AbsoluteTtl \in Nat
    BY SessionsAssumption DEF Time
  <2> QED
    BY <2>1 DEF NewSession, Session, Reasons
<1>3. all \in [DOMAIN kept \cup {id} -> Session]
  BY <1>1, <1>2
<1>4. id \notin gone
  BY DEF Evicted
<1>5. /\ T \in [DOMAIN kept \cup {id} -> Session]
      /\ Shrunk(all, T)
  <2> HIDE DEF kept, all, gone
  <2>1. "concurrent_session_limit" \in Reasons
    BY DEF Reasons
  <2> QED
    BY <1>3, <2>1, RevokedInFacts
<1>6. IsNew(T[id], u, fam, old)
  <2>1. T[id] = NewSession(u, fam, old)
    BY <1>3, <1>4 DEF RevokedIn
  <2> QED
    BY <2>1, NewSessionIsNew
<1>7. \A s \in DOMAIN kept : all[s] = S[s] /\ s # id
  BY <1>1 DEF all
<1> HIDE DEF T, kept, all
<1>8. Grown(S, T, id, u, fam, old)
  BY <1>1, <1>3, <1>5, <1>6, <1>7 DEF Grown, Shrunk
<1>9. T = WithIssued(S, id, u, fam, old)
  BY DEF WithIssued, T, all, kept, NewSession
<1> QED
  BY <1>5, <1>8, <1>9

(* Usable, without the case analysis. *)
LEMMA UsableFacts ==
  ASSUME TypeOK, NEW s
  PROVE  Usable(s) <=> /\ s \in DOMAIN sessions
                       /\ sessions[s].revokedAt = Never
                       /\ sessions[s].expiresAt > now
                       /\ sessions[s].lastUsedAt + IdleTimeout > now
<1>1. CASE s \notin DOMAIN sessions
  BY <1>1 DEF Usable, Validate
<1>2. CASE s \in DOMAIN sessions
  <2>1. /\ sessions[s].expiresAt \in Nat
        /\ sessions[s].lastUsedAt \in Nat
        /\ now \in Nat
    BY <1>2 DEF TypeOK, Session, Time
  <2> QED
    BY <1>2, <2>1, SessionsAssumption DEF Usable, Validate, StateOf
<1> QED
  BY <1>1, <1>2

(* The same, in the state after a step. *)
LEMMA UsableAfter ==
  ASSUME TypeOK', NEW s
  PROVE  Usable(s)' <=> /\ s \in DOMAIN sessions'
                        /\ sessions'[s].revokedAt = Never
                        /\ sessions'[s].expiresAt > now'
                        /\ sessions'[s].lastUsedAt + IdleTimeout > now'
<1>1. CASE s \notin DOMAIN sessions'
  BY <1>1 DEF Usable, Validate
<1>2. CASE s \in DOMAIN sessions'
  <2>1. /\ sessions'[s].expiresAt \in Nat
        /\ sessions'[s].lastUsedAt \in Nat
        /\ now' \in Nat
    BY <1>2 DEF TypeOK, Session, Time
  <2> QED
    BY <1>2, <2>1, SessionsAssumption DEF Usable, Validate, StateOf
<1> QED
  BY <1>1, <1>2

-----------------------------------------------------------------------------
(* The operations: each keeps the types, and shrinks or grows the map.     *)

\* A step that issues no session.  Only a usable session has its idle window moved.
NoneIssued ==
  /\ issued' = issued
  /\ DOMAIN sessions' \subseteq DOMAIN sessions
  /\ \A s \in DOMAIN sessions' :
       /\ Same(sessions[s], sessions'[s])
       /\ sessions'[s].lastUsedAt = sessions[s].lastUsedAt \/ Usable(s)
       /\ sessions'[s].revokedAt = Never => sessions[s].revokedAt = Never

\* A step that issues one, to user u in family fam, in exchange for token old.
OneIssued(u, fam, old) ==
  /\ issued < MaxSessions
  /\ issued' = issued + 1
  /\ Grown(sessions, sessions', issued + 1, u, fam, old)

\* A step keeps only grace entries it found, unchanged.
EntriesKept ==
  /\ DOMAIN recentRotations' \subseteq DOMAIN recentRotations
  /\ \A t \in DOMAIN recentRotations' : recentRotations'[t] = recentRotations[t]

(* Issue adds a session in a family of its own. *)
LEMMA IssueStep ==
  ASSUME TypeOK, NEW u \in Users, Issue(u)
  PROVE  /\ TypeOK'
         /\ OneIssued(u, issued + 1, 0)
         /\ EntriesKept
<1>1. /\ issued + 1 \in Ids \ DOMAIN sessions
      /\ DOMAIN sessions \in SUBSET Ids
      /\ sessions \in [DOMAIN sessions -> Session]
      /\ now \in Time
  BY SessionsAssumption DEF Issue, TypeOK, Ids
<1>2. /\ sessions' \in [DOMAIN sessions' -> Session]
      /\ Grown(sessions, sessions', issued + 1, u, issued + 1, 0)
  BY <1>1, WithIssuedFacts DEF Issue
<1>3. DOMAIN sessions' \subseteq 1 .. issued'
  BY <1>2, <1>1, SessionsAssumption DEF Grown, Issue, TypeOK
<1>4. /\ EntriesKept
      /\ recentRotations' \in [DOMAIN recentRotations' -> Rotation]
  BY DEF Issue, TypeOK, PrunedRotations, Without, EntriesKept
<1>5. DOMAIN recentRotations' \subseteq 1 .. issued'
  BY <1>4, SessionsAssumption DEF Issue, TypeOK, EntriesKept
<1>6. answer' \in [token : Ids \cup {0}, kind : Kinds, session : Ids \cup {0}]
  BY DEF Issue, NoAnswer, Kinds
<1> QED
  BY <1>2, <1>3, <1>4, <1>5, <1>6, SessionsAssumption DEF Issue, TypeOK, OneIssued

(* Rotating a usable token revokes it and adds its replacement to its family. *)
LEMMA RotateUsableStep ==
  ASSUME TypeOK, NEW t \in Tokens, RotateUsable(t)
  PROVE  /\ TypeOK'
         /\ OneIssued(sessions[t].user, sessions[t].family, t)
         /\ t \in DOMAIN sessions' => sessions'[t].revokedAt # Never
         /\ \A r \in DOMAIN recentRotations' :
              \/ /\ r = t
                 /\ recentRotations'[r].session = issued + 1
                 /\ recentRotations'[r].family = sessions[t].family
              \/ /\ r \in DOMAIN recentRotations \ {t}
                 /\ recentRotations'[r] = recentRotations[r]
<1> DEFINE id  == issued + 1
           S   == RevokedIn(sessions, {t}, "rotated")
           fam == sessions[t].family
           u   == sessions[t].user
           R   == PrunedRotations(Without(recentRotations, {t}))
<1>1. /\ id \in Ids \ DOMAIN sessions
      /\ DOMAIN sessions \in SUBSET Ids
      /\ sessions \in [DOMAIN sessions -> Session]
      /\ now \in Time
      /\ t \in DOMAIN sessions
      /\ t \in Ids \ {id}
      /\ sessions[t] \in Session
  BY UsableFacts, SessionsAssumption DEF RotateUsable, TypeOK, Ids
<1>2. u \in Users /\ fam \in Ids /\ t \in Ids \cup {0}
  BY <1>1 DEF Session
<1>3. /\ S \in [DOMAIN sessions -> Session]
      /\ Shrunk(sessions, S)
      /\ S[t].revokedAt # Never
  <2>1. "rotated" \in Reasons
    BY DEF Reasons
  <2>2. now # Never
    BY <1>1, SessionsAssumption DEF Time, Never
  <2> QED
    BY <1>1, <2>1, <2>2, RevokedInFacts
<1>4. sessions' = WithIssued(S, id, u, fam, t)
  BY DEF RotateUsable
<1> HIDE DEF S
<1>5. /\ sessions' \in [DOMAIN sessions' -> Session]
      /\ Grown(S, sessions', id, u, fam, t)
  BY <1>1, <1>2, <1>3, <1>4, WithIssuedFacts
<1>6. Grown(sessions, sessions', id, u, fam, t)
  BY <1>3, <1>5, <1>1 DEF Grown, Shrunk, Same
<1>7. t \in DOMAIN sessions' => sessions'[t].revokedAt # Never
  BY <1>1, <1>3, <1>5 DEF Grown
<1>8. /\ R \in [DOMAIN R -> Rotation]
      /\ DOMAIN R \subseteq DOMAIN recentRotations \ {t}
      /\ \A r \in DOMAIN R : R[r] = recentRotations[r]
  BY DEF TypeOK, PrunedRotations, Without
<1>9. recentRotations' = WithRotation(R, t, id, fam)
  BY DEF RotateUsable
<1>10. [session |-> id, family |-> fam, expiresAt |-> now + Grace] \in Rotation
  <2>1. now + Grace \in Nat
    BY <1>1, SessionsAssumption DEF Time
  <2> QED
    BY <1>1, <1>2, <2>1 DEF Rotation
<1> HIDE DEF R, u, fam
<1>11. /\ recentRotations' \in [DOMAIN recentRotations' -> Rotation]
       /\ DOMAIN recentRotations' \subseteq DOMAIN R \cup {t}
       /\ \A r \in DOMAIN recentRotations' :
            \/ r = t /\ recentRotations'[r] = [session |-> id, family |-> fam, expiresAt |-> now + Grace]
            \/ r \in DOMAIN R /\ recentRotations'[r] = R[r]
  BY <1>8, <1>9, <1>10 DEF WithRotation
<1>12. \A r \in DOMAIN recentRotations' :
              \/ /\ r = t
                 /\ recentRotations'[r].session = issued + 1
                 /\ recentRotations'[r].family = sessions[t].family
              \/ /\ r \in DOMAIN recentRotations \ {t}
                 /\ recentRotations'[r] = recentRotations[r]
  BY <1>8, <1>11 DEF fam
<1>13. /\ issued' = issued + 1 /\ issued' \in 0 .. MaxSessions
      /\ now' = now /\ reused' = reused
  BY SessionsAssumption DEF RotateUsable, TypeOK
<1>14. /\ DOMAIN sessions \subseteq 1 .. issued
      /\ DOMAIN recentRotations \subseteq 1 .. issued
      /\ issued \in Nat
  BY SessionsAssumption DEF TypeOK
<1>15. DOMAIN sessions' \subseteq 1 .. issued' /\ DOMAIN recentRotations' \subseteq 1 .. issued'
  <2>1. DOMAIN sessions' \subseteq DOMAIN sessions \cup {id}
    BY <1>6 DEF Grown
  <2>2. DOMAIN recentRotations' \subseteq DOMAIN recentRotations \cup {t}
    BY <1>8, <1>11
  <2> QED
    BY <1>1, <1>13, <1>14, <2>1, <2>2
<1>16. answer' \in [token : Ids \cup {0}, kind : Kinds, session : Ids \cup {0}]
  BY <1>1, <1>2 DEF RotateUsable, Kinds
<1>17. TypeOK'
  BY <1>5, <1>11, <1>15, <1>16, <1>13 DEF TypeOK
<1>18. OneIssued(u, fam, t)
  BY <1>6, SessionsAssumption DEF RotateUsable, OneIssued
<1> QED
  BY <1>7, <1>12, <1>17, <1>18 DEF u, fam

(* A replay changes nothing but the answer. *)
LEMMA RotateReplayStep ==
  ASSUME TypeOK, NEW t \in Tokens, RotateReplay(t)
  PROVE  TypeOK' /\ NoneIssued /\ EntriesKept
<1>1. recentRotations[t] \in Rotation /\ t \in Ids
  BY SessionsAssumption DEF RotateReplay, Replayable, TypeOK, Ids
<1>2. answer' \in [token : Ids \cup {0}, kind : Kinds, session : Ids \cup {0}]
  BY <1>1 DEF RotateReplay, Rotation, Kinds
<1>3. TypeOK'
  BY <1>2 DEF RotateReplay, TypeOK
<1> QED
  BY <1>3 DEF RotateReplay, NoneIssued, Same, EntriesKept

(* An unknown token changes nothing but its own grace entry. *)
LEMMA RotateUnknownStep ==
  ASSUME TypeOK, NEW t \in Tokens, RotateUnknown(t)
  PROVE  TypeOK' /\ NoneIssued /\ EntriesKept
<1>1. t \in Ids \cup {0}
  BY SessionsAssumption DEF Tokens, TypeOK, Ids
<1>2. answer' \in [token : Ids \cup {0}, kind : Kinds, session : Ids \cup {0}]
  BY <1>1 DEF RotateUnknown, Kinds
<1>3. EntriesKept /\ recentRotations' \in [DOMAIN recentRotations' -> Rotation]
  BY DEF RotateUnknown, TypeOK, EntriesKept, Without
<1>4. TypeOK'
  BY <1>2, <1>3 DEF RotateUnknown, TypeOK, EntriesKept
<1> QED
  BY <1>3, <1>4 DEF RotateUnknown, NoneIssued, Same

(* Reuse revokes the family, and drops its grace entries. *)
LEMMA RotateReusedStep ==
  ASSUME TypeOK, NEW t \in Tokens, RotateReused(t)
  PROVE  /\ TypeOK' /\ NoneIssued /\ EntriesKept
         /\ reused' = reused \cup {sessions[t].family}
         /\ \A s \in DOMAIN sessions' :
              sessions'[s].family = sessions[t].family => sessions'[s].revokedAt # Never
         /\ \A r \in DOMAIN recentRotations' : recentRotations'[r].family # sessions[t].family
<1> DEFINE f == sessions[t].family
<1>1. /\ sessions[t] \in Session
      /\ t \in Ids \cup {0}
      /\ now \in Time
      /\ sessions \in [DOMAIN sessions -> Session]
      /\ "refresh_token_reuse_detected" \in Reasons
      /\ now # Never
  BY SessionsAssumption DEF RotateReused, TypeOK, Ids, Tokens, Reasons, Time, Never
<1>2. /\ sessions' \in [DOMAIN sessions -> Session]
      /\ Shrunk(sessions, sessions')
      /\ \A s \in DOMAIN sessions : sessions'[s].revokedAt =
           (IF s \in FamilyOf(sessions, f) /\ sessions[s].revokedAt = Never
            THEN now ELSE sessions[s].revokedAt)
  <2>1. sessions' = RevokedIn(sessions, FamilyOf(sessions, f), "refresh_token_reuse_detected")
    BY DEF RotateReused
  <2> QED
    BY <1>1, <2>1, RevokedInFacts
<1>3. \A s \in DOMAIN sessions' : sessions'[s].family = f => sessions'[s].revokedAt # Never
  BY <1>1, <1>2 DEF Shrunk, Same, FamilyOf
<1>4. /\ EntriesKept
      /\ recentRotations' \in [DOMAIN recentRotations' -> Rotation]
      /\ \A r \in DOMAIN recentRotations' : recentRotations'[r].family # f
  BY DEF RotateReused, TypeOK, EntriesKept, Without
<1>5. answer' \in [token : Ids \cup {0}, kind : Kinds, session : Ids \cup {0}]
  BY <1>1 DEF RotateReused, Kinds
<1>6. reused' = reused \cup {f} /\ f \in Ids
  BY <1>1 DEF RotateReused, Session
<1>7. issued' = issued /\ now' = now
  BY DEF RotateReused
<1> HIDE DEF f
<1>8. TypeOK'
  BY <1>2, <1>4, <1>5, <1>6, <1>7 DEF TypeOK, EntriesKept, Shrunk
<1> QED
  BY <1>2, <1>3, <1>4, <1>6, <1>7, <1>8 DEF NoneIssued, Shrunk, f

(* A lapsed token is retired. *)
LEMMA RotateLapsedStep ==
  ASSUME TypeOK, NEW t \in Tokens, RotateLapsed(t)
  PROVE  TypeOK' /\ NoneIssued /\ EntriesKept
<1>1. /\ t \in Ids \cup {0}
      /\ now \in Time
      /\ sessions \in [DOMAIN sessions -> Session]
      /\ "lapsed" \in Reasons
  BY SessionsAssumption DEF TypeOK, Ids, Tokens, Reasons
<1>2. /\ sessions' \in [DOMAIN sessions -> Session]
      /\ Shrunk(sessions, sessions')
  <2>1. sessions' = RevokedIn(sessions, {t}, "lapsed")
    BY DEF RotateLapsed
  <2> QED
    BY <1>1, <2>1, RevokedInFacts
<1>3. EntriesKept /\ recentRotations' \in [DOMAIN recentRotations' -> Rotation]
  BY DEF RotateLapsed, TypeOK, EntriesKept, Without
<1>4. answer' \in [token : Ids \cup {0}, kind : Kinds, session : Ids \cup {0}]
  BY <1>1 DEF RotateLapsed, Kinds
<1>5. issued' = issued /\ now' = now /\ reused' = reused
  BY DEF RotateLapsed
<1> QED
  BY <1>2, <1>3, <1>4, <1>5 DEF TypeOK, NoneIssued, EntriesKept, Shrunk

(* A touch moves the idle window of a usable session, or retires an idle one. *)
LEMMA TouchStep ==
  ASSUME TypeOK, NEW s \in Tokens, Touch(s)
  PROVE  TypeOK' /\ NoneIssued /\ EntriesKept
<1>1. /\ now \in Time
      /\ sessions \in [DOMAIN sessions -> Session]
      /\ "lapsed" \in Reasons
      /\ sessions' = TouchedSession(s)
  BY DEF TypeOK, Reasons, Touch
<1>2. sessions' \in [DOMAIN sessions -> Session]
  <2>1. CASE Validate(s) = "idle"
    BY <1>1, <2>1, RevokedInFacts DEF TouchedSession
  <2>2. CASE Validate(s) # "idle"
    BY <1>1, <2>2 DEF TouchedSession, Session
  <2> QED
    BY <2>1, <2>2
<1>3. \A r \in DOMAIN sessions :
        /\ Same(sessions[r], sessions'[r])
        /\ sessions'[r].lastUsedAt = sessions[r].lastUsedAt \/ Usable(r)
        /\ sessions'[r].revokedAt = Never => sessions[r].revokedAt = Never
  <2>1. CASE Validate(s) = "idle"
    BY <1>1, <1>2, <2>1, RevokedInFacts DEF TouchedSession, Shrunk
  <2>2. CASE Validate(s) # "idle"
    BY <1>1, <2>2 DEF TouchedSession, Session, Same
  <2> QED
    BY <2>1, <2>2
<1>4. answer' \in [token : Ids \cup {0}, kind : Kinds, session : Ids \cup {0}]
  BY DEF Touch, NoAnswer, Kinds
<1>5. UNCHANGED <<now, issued, recentRotations, reused>>
  BY DEF Touch
<1> QED
  BY <1>2, <1>3, <1>4, <1>5 DEF TypeOK, NoneIssued, EntriesKept

(* The revocations, by session, by token and by user. *)
LEMMA RevokeStep ==
  ASSUME TypeOK, NEW ids, sessions' = RevokedIn(sessions, ids, "revoked"), answer' = NoAnswer,
         UNCHANGED <<now, issued, recentRotations, reused>>
  PROVE  TypeOK' /\ NoneIssued /\ EntriesKept
<1>1. /\ now \in Time
      /\ sessions \in [DOMAIN sessions -> Session]
      /\ "revoked" \in Reasons
  BY DEF TypeOK, Reasons
<1>2. sessions' \in [DOMAIN sessions -> Session] /\ Shrunk(sessions, sessions')
  BY <1>1, RevokedInFacts
<1>3. answer' \in [token : Ids \cup {0}, kind : Kinds, session : Ids \cup {0}]
  BY DEF NoAnswer, Kinds
<1> QED
  BY <1>2, <1>3 DEF TypeOK, NoneIssued, EntriesKept, Shrunk

(* Listing prunes, and does nothing else. *)
LEMMA ListStep ==
  ASSUME TypeOK, ListForUser
  PROVE  TypeOK' /\ NoneIssued /\ EntriesKept
<1>1. /\ DOMAIN sessions' \subseteq DOMAIN sessions
      /\ sessions' \in [DOMAIN sessions' -> Session]
      /\ \A s \in DOMAIN sessions' : sessions'[s] = sessions[s]
  BY PrunedFacts DEF ListForUser, TypeOK
<1>2. EntriesKept /\ recentRotations' \in [DOMAIN recentRotations' -> Rotation]
  BY DEF ListForUser, TypeOK, EntriesKept, PrunedRotations, Without
<1>3. answer' \in [token : Ids \cup {0}, kind : Kinds, session : Ids \cup {0}]
  BY DEF ListForUser, NoAnswer, Kinds
<1> QED
  BY <1>1, <1>2, <1>3 DEF ListForUser, TypeOK, NoneIssued, EntriesKept, Same

(* The clock changes nothing else. *)
LEMMA TickStep ==
  ASSUME TypeOK, Tick
  PROVE  TypeOK' /\ NoneIssued /\ EntriesKept
<1>1. now' \in Time
  BY SessionsAssumption DEF Tick, TypeOK, Time
<1>2. answer' \in [token : Ids \cup {0}, kind : Kinds, session : Ids \cup {0}]
  BY DEF Tick, NoAnswer, Kinds
<1> QED
  BY <1>1, <1>2 DEF Tick, TypeOK, NoneIssued, EntriesKept, Same

(* So does a step of nobody. *)
LEMMA StutterStep ==
  ASSUME TypeOK, UNCHANGED vars
  PROVE  TypeOK' /\ NoneIssued /\ EntriesKept
  BY DEF vars, TypeOK, NoneIssued, EntriesKept, Same

-----------------------------------------------------------------------------
(* Every step is of one of five kinds.                                     *)

Quiet ==
  NoneIssued /\ EntriesKept /\ reused' = reused /\ answer'.kind # "ok"

Replayed(t) ==
  /\ NoneIssued /\ EntriesKept /\ sessions' = sessions /\ now' = now /\ reused' = reused
  /\ t \in DOMAIN recentRotations
  /\ Usable(recentRotations[t].session)
  /\ answer' = [token |-> t, kind |-> "ok", session |-> recentRotations[t].session]

FamilyKilled(t) ==
  /\ NoneIssued /\ EntriesKept /\ answer'.kind # "ok"
  /\ reused' = reused \cup {sessions[t].family}
  /\ t \in DOMAIN sessions
  /\ \A s \in DOMAIN sessions' :
       sessions'[s].family = sessions[t].family => sessions'[s].revokedAt # Never
  /\ \A r \in DOMAIN recentRotations' : recentRotations'[r].family # sessions[t].family

Opened(u) ==
  /\ OneIssued(u, issued + 1, 0) /\ EntriesKept
  /\ reused' = reused /\ now' = now /\ answer'.kind # "ok"

Exchanged(t) ==
  /\ Usable(t)
  /\ OneIssued(sessions[t].user, sessions[t].family, t)
  /\ reused' = reused /\ now' = now
  /\ answer' = [token |-> t, kind |-> "ok", session |-> issued + 1]
  /\ t \in DOMAIN sessions' => sessions'[t].revokedAt # Never
  /\ \A r \in DOMAIN recentRotations' :
       \/ /\ r = t
          /\ recentRotations'[r].session = issued + 1
          /\ recentRotations'[r].family = sessions[t].family
       \/ /\ r \in DOMAIN recentRotations \ {t}
          /\ recentRotations'[r] = recentRotations[r]

(* The case analysis on Next that every theorem below starts from. *)
LEMMA StepKinds ==
  ASSUME TypeOK, [Next]_vars
  PROVE  /\ TypeOK'
         /\ now' >= now
         /\ \/ Quiet \/ UNCHANGED vars
            \/ \E t \in Tokens : Replayed(t) \/ FamilyKilled(t) \/ Exchanged(t)
            \/ \E u \in Users : Opened(u)
<1> DEFINE Goal == /\ TypeOK'
                   /\ now' >= now
                   /\ \/ Quiet \/ UNCHANGED vars
                      \/ \E t \in Tokens : Replayed(t) \/ FamilyKilled(t) \/ Exchanged(t)
                      \/ \E u \in Users : Opened(u)
<1>0. now \in Nat
  BY SessionsAssumption DEF TypeOK, Time
<1>1. ASSUME NEW u \in Users, Issue(u) PROVE Goal
  <2>1. Opened(u)
    BY <1>1, IssueStep DEF Opened, Issue, NoAnswer
  <2> QED
    BY <1>0, <1>1, <2>1, IssueStep DEF Issue
<1>2. ASSUME NEW t \in Tokens, RotateReplay(t) PROVE Goal
  <2>1. Replayed(t)
    BY <1>2, RotateReplayStep DEF Replayed, RotateReplay, Replayable
  <2> QED
    BY <1>0, <1>2, <2>1, RotateReplayStep DEF RotateReplay
<1>3. ASSUME NEW t \in Tokens, RotateUnknown(t) PROVE Goal
  <2>1. Quiet
    BY <1>3, RotateUnknownStep DEF Quiet, RotateUnknown
  <2> QED
    BY <1>0, <1>3, <2>1, RotateUnknownStep DEF RotateUnknown
<1>4. ASSUME NEW t \in Tokens, RotateReused(t) PROVE Goal
  <2>1. FamilyKilled(t)
    BY <1>4, RotateReusedStep DEF FamilyKilled, RotateReused
  <2> QED
    BY <1>0, <1>4, <2>1, RotateReusedStep DEF RotateReused
<1>5. ASSUME NEW t \in Tokens, RotateLapsed(t) PROVE Goal
  <2>1. answer'.kind # "ok" /\ UNCHANGED <<now, reused>>
    BY <1>5 DEF RotateLapsed
  <2>2. Quiet
    BY <1>5, <2>1, RotateLapsedStep DEF Quiet
  <2> QED
    BY <1>0, <1>5, <2>1, <2>2, RotateLapsedStep
<1>6. ASSUME NEW t \in Tokens, RotateUsable(t) PROVE Goal
  <2>1. /\ answer' = [token |-> t, kind |-> "ok", session |-> issued + 1]
        /\ Usable(t)
        /\ UNCHANGED <<now, reused>>
    BY <1>6 DEF RotateUsable
  <2>2. Exchanged(t)
    BY <1>6, <2>1, RotateUsableStep DEF Exchanged
  <2> QED
    BY <1>0, <1>6, <2>1, <2>2, RotateUsableStep
<1>7. ASSUME NEW t \in Tokens, Touch(t) PROVE Goal
  <2>1. Quiet
    BY <1>7, TouchStep DEF Quiet, Touch, NoAnswer
  <2> QED
    BY <1>0, <1>7, <2>1, TouchStep DEF Touch
<1>8. ASSUME NEW t \in Tokens, Revoke(t) PROVE Goal
  <2>1. TypeOK' /\ NoneIssued /\ EntriesKept
    BY <1>8, RevokeStep DEF Revoke
  <2>2. Quiet
    BY <1>8, <2>1 DEF Quiet, Revoke, NoAnswer
  <2> QED
    BY <1>0, <1>8, <2>1, <2>2 DEF Revoke
<1>9. ASSUME NEW u \in Users, NEW t \in Tokens, RevokeAllForUser(u, t) PROVE Goal
  <2>1. TypeOK' /\ NoneIssued /\ EntriesKept
    BY <1>9, RevokeStep DEF RevokeAllForUser
  <2>2. Quiet
    BY <1>9, <2>1 DEF Quiet, RevokeAllForUser, NoAnswer
  <2> QED
    BY <1>0, <1>9, <2>1, <2>2 DEF RevokeAllForUser
<1>10. ASSUME ListForUser PROVE Goal
  <2>1. Quiet
    BY <1>10, ListStep DEF Quiet, ListForUser, NoAnswer
  <2> QED
    BY <1>0, <1>10, <2>1, ListStep DEF ListForUser
<1>11. ASSUME Tick PROVE Goal
  <2>1. Quiet
    BY <1>11, TickStep DEF Quiet, Tick, NoAnswer
  <2> QED
    BY <1>0, <1>11, <2>1, TickStep DEF Tick
<1>12. ASSUME UNCHANGED vars PROVE Goal
  BY <1>0, <1>12, StutterStep DEF vars
<1> QED
  BY <1>1, <1>2, <1>3, <1>4, <1>5, <1>6, <1>7, <1>8, <1>9, <1>10, <1>11, <1>12 DEF Next, Rotate

-----------------------------------------------------------------------------
(* The theorems.                                                           *)

(* The variables keep their types: nothing outside the maps' domains is ever dereferenced. *)
THEOREM TypeCorrect == Spec => []TypeOK
<1>1. Init => TypeOK
  BY SessionsAssumption DEF Init, TypeOK, NoAnswer, Time, Ids, Kinds
<1>2. TypeOK /\ [Next]_vars => TypeOK'
  BY StepKinds
<1> QED
  BY <1>1, <1>2, PTL DEF Spec

(* A session usable after a step, unless the step issued it, was usable before. *)
LEMMA UsableBefore ==
  ASSUME TypeOK, TypeOK', [Next]_vars, NEW s \in 1 .. issued, Usable(s)'
  PROVE  /\ Usable(s)
         /\ s \in DOMAIN sessions'
         /\ Same(sessions[s], sessions'[s])
<1>1. /\ s \in DOMAIN sessions'
      /\ sessions'[s].revokedAt = Never
      /\ sessions'[s].expiresAt > now'
      /\ sessions'[s].lastUsedAt + IdleTimeout > now'
  BY UsableAfter
<1>2. s # issued + 1 /\ now \in Nat /\ now' \in Nat /\ now' >= now
  BY SessionsAssumption, StepKinds DEF TypeOK, Time
<1>3. /\ s \in DOMAIN sessions
      /\ Same(sessions[s], sessions'[s])
      /\ sessions'[s].lastUsedAt = sessions[s].lastUsedAt \/ Usable(s)
      /\ sessions[s].revokedAt = Never
  <2>1. CASE NoneIssued
    BY <1>1, <2>1 DEF NoneIssued
  <2>2. CASE \E u, f, o : OneIssued(u, f, o)
    BY <1>1, <1>2, <2>2 DEF OneIssued, Grown
  <2>3. CASE UNCHANGED vars
    BY <1>1, <2>3 DEF vars, Same
  <2> QED
    BY <2>1, <2>2, <2>3, StepKinds DEF Quiet, Replayed, FamilyKilled, Exchanged, Opened
<1>4. /\ sessions[s].expiresAt \in Nat
      /\ sessions[s].lastUsedAt \in Nat
  BY <1>3 DEF TypeOK, Session, Time
<1> QED
  BY <1>1, <1>2, <1>3, <1>4, UsableFacts, SessionsAssumption DEF Same

(* An unusable session is never revived, whatever the lengths of the windows. *)
THEOREM LapsedIsFinal == Spec => LapsedStaysLapsed
<1>1. TypeOK /\ TypeOK' /\ [Next]_vars
        => [\A s \in 1 .. issued : ~Usable(s) => ~Usable(s)']_vars
  BY UsableBefore
<1> QED
  BY <1>1, TypeCorrect, PTL DEF Spec, LapsedStaysLapsed

-----------------------------------------------------------------------------
(* The inductive invariant: what TypeOK and the safety properties leave    *)
(* out is where the numbers come from.  A family and a replaced token are  *)
(* older than the session, and a replaced token is revoked while it is     *)
(* still in the map, so a new session can repeat neither.                  *)

OriginsAreOlder ==
  /\ \A s \in DOMAIN sessions : sessions[s].family \in 1 .. issued
  /\ \A t \in DOMAIN recentRotations : recentRotations[t].session \in 1 .. issued
  /\ reused \subseteq 1 .. issued

ReplacedIsRevoked ==
  \A s \in DOMAIN sessions :
    LET t == sessions[s].replaces
    IN /\ t \in 0 .. issued
       /\ t \in DOMAIN sessions => sessions[t].revokedAt # Never
       /\ t # 0 => \A r \in DOMAIN sessions : sessions[r].replaces = t => s = r

AnswerMatches ==
  answer.kind = "ok" =>
    /\ Usable(answer.session)
    /\ sessions[answer.session].replaces = answer.token

IInv ==
  /\ TypeOK
  /\ OriginsAreOlder
  /\ OneUnrevokedPerFamily
  /\ ReplacedIsRevoked
  /\ GraceEntriesMatch
  /\ ReusedFamilyIsDead
  /\ AnswerMatches

(* A session a step does not issue was there before, with the same origins. *)
LEMMA OldSession ==
  ASSUME IInv, TypeOK', [Next]_vars, NEW s \in DOMAIN sessions', s # issued + 1
  PROVE  /\ s \in DOMAIN sessions
         /\ Same(sessions[s], sessions'[s])
         /\ sessions'[s].revokedAt = Never => sessions[s].revokedAt = Never
<1>1. CASE NoneIssued
  BY <1>1 DEF NoneIssued
<1>2. CASE \E u, f, o : OneIssued(u, f, o)
  BY <1>2 DEF OneIssued, Grown
<1>3. CASE UNCHANGED vars
  BY <1>3 DEF vars, Same
<1> QED
  BY <1>1, <1>2, <1>3, StepKinds
     DEF IInv, Quiet, Replayed, FamilyKilled, Exchanged, Opened

(* A session a step issues opens a family, or continues that of a usable one. *)
LEMMA NewSessionFacts ==
  ASSUME IInv, TypeOK', [Next]_vars, issued + 1 \in DOMAIN sessions'
  PROVE  /\ issued' = issued + 1
         /\ now' = now
         /\ reused' = reused
         /\ LET n == sessions'[issued + 1]
            IN /\ n.revokedAt = Never
               /\ n.expiresAt = now + AbsoluteTtl
               /\ n.lastUsedAt = now
               /\ \/ n.family = issued + 1 /\ n.replaces = 0
                  \/ /\ Exchanged(n.replaces)
                     /\ n.replaces \in DOMAIN sessions
                     /\ n.family = sessions[n.replaces].family
<1>1. issued + 1 \notin DOMAIN sessions
  BY SessionsAssumption DEF IInv, TypeOK
<1>2. \/ \E t \in Tokens : Exchanged(t)
      \/ \E u \in Users : Opened(u)
  BY <1>1, StepKinds DEF IInv, Quiet, Replayed, FamilyKilled, NoneIssued, vars
<1>3. ASSUME NEW u \in Users, Opened(u)
      PROVE  /\ issued' = issued + 1 /\ now' = now /\ reused' = reused
             /\ IsNew(sessions'[issued + 1], u, issued + 1, 0)
  BY <1>3 DEF Opened, OneIssued, Grown
<1>4. ASSUME NEW t \in Tokens, Exchanged(t)
      PROVE  /\ issued' = issued + 1 /\ now' = now /\ reused' = reused
             /\ IsNew(sessions'[issued + 1], sessions[t].user, sessions[t].family, t)
             /\ t \in DOMAIN sessions
  BY <1>4, UsableFacts DEF Exchanged, OneIssued, Grown, IInv
<1> DEFINE n == sessions'[issued + 1]
<1>5. CASE \E u \in Users : Opened(u)
  <2>1. /\ n.family = issued + 1 /\ n.replaces = 0 /\ n.revokedAt = Never
        /\ n.expiresAt = now + AbsoluteTtl /\ n.lastUsedAt = now
    BY <1>3, <1>5 DEF IsNew
  <2> QED
    BY <1>3, <1>5, <2>1
<1>6. CASE \E t \in Tokens : Exchanged(t)
  <2>1. PICK t \in Tokens : Exchanged(t)
    BY <1>6
  <2>2. /\ n.family = sessions[t].family /\ n.replaces = t /\ n.revokedAt = Never
        /\ n.expiresAt = now + AbsoluteTtl /\ n.lastUsedAt = now
    BY <1>4, <2>1 DEF IsNew
  <2>3. Exchanged(n.replaces)
    BY <2>1, <2>2
  <2> QED
    BY <1>4, <2>1, <2>2, <2>3
<1> QED
  BY <1>2, <1>5, <1>6

(* IInv holds initially. *)
LEMMA IInvInit == Init => IInv
  BY SessionsAssumption
     DEF Init, IInv, TypeOK, NoAnswer, Time, Ids, Kinds, OriginsAreOlder, OneUnrevokedPerFamily,
         ReplacedIsRevoked, GraceEntriesMatch, ReusedFamilyIsDead, AnswerMatches

(* IInv is preserved by every step. *)
LEMMA IInvStep == IInv /\ [Next]_vars => IInv'
<1> SUFFICES ASSUME IInv, [Next]_vars
             PROVE  IInv'
  OBVIOUS
<1> DEFINE id == issued + 1
<1>1. TypeOK'
  BY StepKinds DEF IInv
<1>2. /\ issued \in Nat /\ issued' \in Nat /\ issued' >= issued
      /\ DOMAIN sessions \subseteq 1 .. issued
      /\ id \in DOMAIN sessions' => issued' = id
  BY <1>1, StepKinds, NewSessionFacts, SessionsAssumption
     DEF IInv, TypeOK, Quiet, Replayed, FamilyKilled, Opened, Exchanged, NoneIssued, OneIssued, vars
<1>3. OriginsAreOlder'
  <2>1. \A s \in DOMAIN sessions' : sessions'[s].family \in 1 .. issued'
    <3> SUFFICES ASSUME NEW s \in DOMAIN sessions' PROVE sessions'[s].family \in 1 .. issued'
      OBVIOUS
    <3>1. CASE s # id
      BY <1>1, <1>2, <3>1, OldSession DEF IInv, OriginsAreOlder, Same
    <3>2. CASE s = id
      BY <1>1, <1>2, <3>2, NewSessionFacts DEF IInv, OriginsAreOlder
    <3> QED
      BY <3>1, <3>2
  <2>2. \A t \in DOMAIN recentRotations' : recentRotations'[t].session \in 1 .. issued'
    <3>1. CASE EntriesKept
      BY <1>2, <3>1 DEF EntriesKept, IInv, OriginsAreOlder
    <3>2. CASE \E t \in Tokens : Exchanged(t)
      BY <1>2, <3>2 DEF Exchanged, OneIssued, IInv, OriginsAreOlder
    <3>3. CASE UNCHANGED vars
      BY <3>3 DEF vars, IInv, OriginsAreOlder
    <3> QED
      BY <3>1, <3>2, <3>3, StepKinds DEF IInv, Quiet, Replayed, FamilyKilled, Opened
  <2>3. reused' \subseteq 1 .. issued'
    <3>1. CASE reused' = reused
      BY <1>2, <3>1 DEF IInv, OriginsAreOlder
    <3>2. CASE \E t \in Tokens : FamilyKilled(t)
      <4>1. PICK t \in DOMAIN sessions : reused' = reused \cup {sessions[t].family}
        BY <3>2 DEF FamilyKilled
      <4>2. sessions[t].family \in 1 .. issued /\ reused \subseteq 1 .. issued
        BY DEF IInv, OriginsAreOlder
      <4>3. 1 .. issued \subseteq 1 .. issued'
        BY <1>2
      <4> QED
        BY <4>1, <4>2, <4>3
    <3> QED
      BY <3>1, <3>2, StepKinds DEF IInv, Quiet, Replayed, Opened, Exchanged, vars
  <2> QED
    BY <2>1, <2>2, <2>3 DEF OriginsAreOlder
<1>4. OneUnrevokedPerFamily'
  <2> SUFFICES ASSUME NEW s \in DOMAIN sessions', NEW r \in DOMAIN sessions',
                      sessions'[s].family = sessions'[r].family,
                      sessions'[s].revokedAt = Never, sessions'[r].revokedAt = Never,
                      s # id
               PROVE  s = r
    BY DEF OneUnrevokedPerFamily
  <2>1. /\ s \in DOMAIN sessions
        /\ sessions[s].family = sessions'[s].family
        /\ sessions[s].revokedAt = Never
    BY <1>1, OldSession DEF Same
  <2>2. CASE r # id
    BY <1>1, <2>1, <2>2, OldSession DEF IInv, OneUnrevokedPerFamily, Same
  <2>3. CASE r = id
    <3>1. \/ sessions'[id].family = id
          \/ \E t \in DOMAIN sessions : Exchanged(t) /\ sessions'[id].family = sessions[t].family
      BY <1>1, <2>3, NewSessionFacts
    <3>2. sessions'[id].family # id
      BY <1>2, <2>1, <2>3 DEF IInv, OriginsAreOlder
    <3>3. PICK t \in DOMAIN sessions : Exchanged(t) /\ sessions'[id].family = sessions[t].family
      BY <3>1, <3>2
    <3>4. sessions[t].revokedAt = Never
      BY <3>3, UsableFacts DEF IInv, Exchanged
    <3>5. s = t
      BY <2>1, <2>3, <3>3, <3>4 DEF IInv, OneUnrevokedPerFamily
    <3> QED
      BY <3>3, <3>5 DEF Exchanged
  <2> QED
    BY <2>2, <2>3
<1>5. ReplacedIsRevoked'
  <2> SUFFICES ASSUME NEW s \in DOMAIN sessions'
               PROVE  LET t == sessions'[s].replaces
                      IN /\ t \in 0 .. issued'
                         /\ t \in DOMAIN sessions' => sessions'[t].revokedAt # Never
                         /\ t # 0 => \A r \in DOMAIN sessions' : sessions'[r].replaces = t => s = r
    BY DEF ReplacedIsRevoked
  <2> DEFINE t == sessions'[s].replaces
  <2>1. CASE s # id
    <3>1. s \in DOMAIN sessions /\ sessions[s].replaces = t
      BY <1>1, <2>1, OldSession DEF Same
    <3>2. /\ t \in 0 .. issued
          /\ t \in DOMAIN sessions => sessions[t].revokedAt # Never
          /\ t # 0 => \A r \in DOMAIN sessions : sessions[r].replaces = t => s = r
      BY <3>1 DEF IInv, ReplacedIsRevoked
    <3> HIDE DEF t
    <3>3. t \in DOMAIN sessions' => sessions'[t].revokedAt # Never
      BY <1>1, <1>2, <3>2, OldSession
    <3>4. ASSUME t # 0, NEW r \in DOMAIN sessions', sessions'[r].replaces = t PROVE s = r
      <4>1. CASE r # id
        BY <1>1, <3>2, <3>4, <4>1, OldSession DEF Same
      <4>2. CASE r = id
        <5>1. t \in DOMAIN sessions /\ Exchanged(t)
          BY <1>1, <3>4, <4>2, NewSessionFacts
        <5> QED
          BY <3>2, <5>1, UsableFacts DEF Exchanged, IInv
      <4> QED
        BY <4>1, <4>2
    <3> QED
      BY <1>2, <3>2, <3>3, <3>4 DEF t
  <2>2. CASE s = id
    <3>1. \/ t = 0
          \/ t \in DOMAIN sessions /\ Exchanged(t)
      BY <1>1, <2>2, NewSessionFacts
    <3> HIDE DEF t
    <3>2. t \in 0 .. issued' /\ (t \in DOMAIN sessions' => sessions'[t].revokedAt # Never)
      BY <1>1, <1>2, <3>1 DEF Exchanged, TypeOK
    <3>3. ASSUME t # 0, NEW r \in DOMAIN sessions', sessions'[r].replaces = t, r # id PROVE FALSE
      <4>1. r \in DOMAIN sessions /\ sessions[r].replaces = t
        BY <1>1, <3>3, OldSession DEF Same
      <4>2. sessions[t].revokedAt # Never
        BY <3>1, <3>3, <4>1 DEF IInv, ReplacedIsRevoked
      <4> QED
        BY <3>1, <3>3, <4>2, UsableFacts DEF Exchanged, IInv
    <3> QED
      BY <2>2, <3>2, <3>3 DEF t
  <2> QED
    BY <2>1, <2>2
<1>6. GraceEntriesMatch'
  <2> SUFFICES ASSUME NEW t \in DOMAIN recentRotations'
               PROVE  LET r == recentRotations'[t]
                      IN /\ t \in DOMAIN sessions' =>
                              /\ sessions'[t].revokedAt # Never
                              /\ sessions'[t].family = r.family
                         /\ r.session \in DOMAIN sessions' =>
                              /\ sessions'[r.session].replaces = t
                              /\ sessions'[r.session].family = r.family
    BY DEF GraceEntriesMatch
  <2>1. CASE t \in DOMAIN recentRotations /\ recentRotations'[t] = recentRotations[t]
    <3>1. t # id /\ recentRotations[t].session # id
      BY <1>2, <2>1 DEF IInv, TypeOK, OriginsAreOlder
    <3> QED
      BY <1>1, <2>1, <3>1, OldSession DEF IInv, GraceEntriesMatch, Same
  <2>2. CASE /\ Exchanged(t)
             /\ recentRotations'[t].session = id
             /\ recentRotations'[t].family = sessions[t].family
    <3>1. id \in DOMAIN sessions' /\ t \in DOMAIN sessions /\ t # id
      BY <1>2, <2>2, UsableFacts DEF Exchanged, OneIssued, Grown, IInv
    <3>2. sessions'[id].replaces = t /\ sessions'[id].family = sessions[t].family
      BY <2>2 DEF Exchanged, OneIssued, Grown, IsNew
    <3>3. t \in DOMAIN sessions' =>
            sessions'[t].revokedAt # Never /\ sessions'[t].family = sessions[t].family
      BY <1>1, <2>2, <3>1, OldSession DEF Exchanged, Same
    <3> QED
      BY <2>2, <3>2, <3>3
  <2>3. \/ t \in DOMAIN recentRotations /\ recentRotations'[t] = recentRotations[t]
        \/ /\ Exchanged(t)
           /\ recentRotations'[t].session = id
           /\ recentRotations'[t].family = sessions[t].family
    <3>1. CASE EntriesKept
      BY <3>1 DEF EntriesKept
    <3>2. CASE \E x \in Tokens : Exchanged(x)
      BY <3>2 DEF Exchanged
    <3>3. CASE UNCHANGED vars
      BY <3>3 DEF vars
    <3> QED
      BY <3>1, <3>2, <3>3, StepKinds DEF IInv, Quiet, Replayed, FamilyKilled, Opened
  <2> QED
    BY <2>1, <2>2, <2>3
<1>7. ReusedFamilyIsDead'
  <2>1. ASSUME NEW s \in DOMAIN sessions', sessions'[s].family \in reused'
        PROVE  sessions'[s].revokedAt # Never
    <3>1. CASE s # id
      <4>1. /\ s \in DOMAIN sessions
            /\ sessions[s].family = sessions'[s].family
            /\ sessions'[s].revokedAt = Never => sessions[s].revokedAt = Never
        BY <1>1, <3>1, OldSession DEF Same
      <4>2. CASE sessions[s].family \in reused
        BY <4>1, <4>2 DEF IInv, ReusedFamilyIsDead
      <4>3. CASE sessions[s].family \notin reused
        BY <2>1, <4>1, <4>3, StepKinds
           DEF IInv, Quiet, Replayed, FamilyKilled, Opened, Exchanged, vars
      <4> QED
        BY <4>2, <4>3
    <3>2. CASE s = id
      <4>1. /\ reused' = reused
            /\ \/ sessions'[id].family = id
               \/ \E t \in DOMAIN sessions :
                    Exchanged(t) /\ sessions'[id].family = sessions[t].family
        BY <1>1, <3>2, NewSessionFacts
      <4>2. id \notin reused
        BY <1>2 DEF IInv, OriginsAreOlder
      <4>3. PICK t \in DOMAIN sessions : Exchanged(t) /\ sessions[t].family \in reused
        BY <2>1, <3>2, <4>1, <4>2
      <4> QED
        BY <4>3, UsableFacts DEF IInv, ReusedFamilyIsDead, Exchanged
    <3> QED
      BY <3>1, <3>2
  <2>2. ASSUME NEW t \in DOMAIN recentRotations'
        PROVE  recentRotations'[t].family \notin reused'
    <3>1. CASE Quiet \/ Replayed(t) \/ UNCHANGED vars
      BY <3>1 DEF Quiet, Replayed, EntriesKept, vars, IInv, ReusedFamilyIsDead
    <3>2. CASE \E x \in Tokens : FamilyKilled(x)
      BY <3>2 DEF FamilyKilled, EntriesKept, IInv, ReusedFamilyIsDead
    <3>3. CASE \E u \in Users : Opened(u)
      BY <3>3 DEF Opened, EntriesKept, IInv, ReusedFamilyIsDead
    <3>4. CASE \E x \in Tokens : Replayed(x)
      BY <3>4 DEF Replayed, EntriesKept, IInv, ReusedFamilyIsDead
    <3>5. CASE \E x \in Tokens : Exchanged(x)
      <4>1. PICK x \in Tokens : Exchanged(x)
        BY <3>5
      <4>2. sessions[x].family \notin reused
        BY <4>1, UsableFacts DEF Exchanged, IInv, ReusedFamilyIsDead
      <4> QED
        BY <4>1, <4>2 DEF Exchanged, IInv, ReusedFamilyIsDead
    <3> QED
      BY <3>1, <3>2, <3>3, <3>4, <3>5, StepKinds DEF IInv
  <2> QED
    BY <2>1, <2>2 DEF ReusedFamilyIsDead
<1>8. AnswerMatches'
  <2>1. CASE Quiet \/ (\E x \in Tokens : FamilyKilled(x)) \/ \E u \in Users : Opened(u)
    BY <2>1 DEF Quiet, FamilyKilled, Opened, AnswerMatches
  <2>2. CASE UNCHANGED vars
    BY <2>2 DEF vars, IInv, AnswerMatches, Usable, Validate, StateOf
  <2>3. ASSUME NEW t \in Tokens, Replayed(t) PROVE AnswerMatches'
    <3>1. PICK x : x = recentRotations[t].session
      OBVIOUS
    <3>2. /\ Usable(x) /\ answer'.session = x /\ answer'.token = t
          /\ sessions' = sessions /\ now' = now /\ t \in DOMAIN recentRotations
      BY <2>3, <3>1 DEF Replayed
    <3>3. Usable(x)'
      BY <3>2 DEF Usable, Validate, StateOf
    <3>4. x \in DOMAIN sessions
      BY <3>2, UsableFacts DEF IInv
    <3>5. sessions[x].replaces = t
      BY <3>1, <3>2, <3>4 DEF IInv, GraceEntriesMatch
    <3> QED
      BY <3>2, <3>3, <3>5 DEF AnswerMatches, Usable
  <2>4. ASSUME NEW t \in Tokens, Exchanged(t) PROVE AnswerMatches'
    <3>1. /\ id \in DOMAIN sessions'
          /\ IsNew(sessions'[id], sessions[t].user, sessions[t].family, t)
          /\ now' = now
          /\ answer'.session = id /\ answer'.token = t
      BY <2>4 DEF Exchanged, OneIssued, Grown
    <3>2. PICK x : x = id
      OBVIOUS
    <3>3. now + AbsoluteTtl > now /\ now + IdleTimeout > now
      BY SessionsAssumption DEF IInv, TypeOK, Time
    <3>4. Usable(x)'
      BY <1>1, <3>1, <3>2, <3>3, UsableAfter DEF IsNew
    <3> QED
      BY <3>1, <3>2, <3>4 DEF AnswerMatches, IsNew, Usable
  <2> QED
    BY <2>1, <2>2, <2>3, <2>4, StepKinds DEF IInv
<1> QED
  BY <1>1, <1>3, <1>4, <1>5, <1>6, <1>7, <1>8 DEF IInv

(* IInv holds in every reachable state. *)
THEOREM Invariance == Spec => []IInv
  BY IInvInit, IInvStep, PTL DEF Spec

(* However rotations, replays, evictions and prunings interleave, a family never has two
   unrevoked sessions: rotate() hands the credential on, it never forks it. *)
THEOREM NeverForked == Spec => []OneUnrevokedPerFamily
<1>1. IInv => OneUnrevokedPerFamily
  BY DEF IInv
<1> QED
  BY <1>1, Invariance, PTL

(* Every successful rotate() of a token, first or replayed, returns the one session ever
   issued in exchange for it. *)
THEOREM RedeemedOnce == Spec => []OneReplacementPerToken
<1>1. IInv => OneReplacementPerToken
  <2> SUFFICES ASSUME IInv PROVE OneReplacementPerToken
    OBVIOUS
  <2>1. answer.kind = "ok" => answer.session \in DOMAIN sessions
    BY UsableFacts DEF IInv, AnswerMatches
  <2>2. \A s, r \in DOMAIN sessions :
          sessions[s].replaces = sessions[r].replaces /\ sessions[s].replaces # 0 => s = r
    BY DEF IInv, ReplacedIsRevoked
  <2> QED
    BY <2>1, <2>2 DEF IInv, AnswerMatches, OneReplacementPerToken
<1> QED
  BY <1>1, Invariance, PTL

(* The session rotate() returns is usable when it is returned. *)
THEOREM AnswersUsable == Spec => []AnswerIsUsable
<1>1. IInv => AnswerIsUsable
  BY DEF IInv, AnswerMatches, AnswerIsUsable
<1> QED
  BY <1>1, Invariance, PTL

(* A family in which reuse was detected has no unrevoked session and no grace entry, ever again. *)
THEOREM ReuseIsFinal == Spec => []ReusedFamilyIsDead
<1>1. IInv => ReusedFamilyIsDead
  BY DEF IInv
<1> QED
  BY <1>1, Invariance, PTL

-----------------------------------------------------------------------------
(* The refinement of SessionFamilies.                                      *)

(* The refinement mapping picks the family's usable session, which is the only one. *)
LEMMA CurrentFacts ==
  ASSUME IInv, NEW f
  PROVE  /\ CurrentOf(f) # 0 =>
              /\ CurrentOf(f) \in DOMAIN sessions
              /\ sessions[CurrentOf(f)].family = f
              /\ Usable(CurrentOf(f))
         /\ \A s \in DOMAIN sessions : sessions[s].family = f /\ Usable(s) => CurrentOf(f) = s
<1> DEFINE c == CHOOSE s \in FamilyOf(sessions, f) : Usable(s)
<1>1. CASE \E s \in FamilyOf(sessions, f) : Usable(s)
  <2>1. CurrentOf(f) = c
    BY <1>1 DEF CurrentOf
  <2>2. c \in FamilyOf(sessions, f) /\ Usable(c)
    BY <1>1
  <2> HIDE DEF c
  <2>3. c \in DOMAIN sessions /\ sessions[c].family = f /\ sessions[c].revokedAt = Never
    BY <2>2, UsableFacts DEF FamilyOf, IInv
  <2>4. ASSUME NEW s \in DOMAIN sessions, sessions[s].family = f, Usable(s) PROVE s = c
    BY <2>3, <2>4, UsableFacts DEF IInv, OneUnrevokedPerFamily
  <2> QED
    BY <2>1, <2>2, <2>3, <2>4
<1>2. CASE ~ \E s \in FamilyOf(sessions, f) : Usable(s)
  BY <1>2 DEF CurrentOf, FamilyOf
<1> QED
  BY <1>1, <1>2

(* The same, in the state after a step. *)
LEMMA CurrentAfter ==
  ASSUME IInv', NEW f
  PROVE  /\ CurrentOf(f)' # 0 =>
              /\ CurrentOf(f)' \in DOMAIN sessions'
              /\ sessions'[CurrentOf(f)'].family = f
              /\ \A s : s = CurrentOf(f)' => Usable(s)'
         /\ \A s \in DOMAIN sessions' : sessions'[s].family = f /\ Usable(s)' => CurrentOf(f)' = s
<1> DEFINE c == (CHOOSE s \in FamilyOf(sessions, f) : Usable(s))'
<1>1. CASE \E s \in FamilyOf(sessions, f)' : Usable(s)'
  <2>1. CurrentOf(f)' = c
    BY <1>1 DEF CurrentOf
  <2>2. PICK x \in FamilyOf(sessions, f)' : x = c /\ Usable(x)'
    BY <1>1
  <2> HIDE DEF c
  <2>3. x \in DOMAIN sessions' /\ sessions'[x].family = f /\ sessions'[x].revokedAt = Never
    BY <2>2, UsableAfter DEF FamilyOf, IInv
  <2>4. ASSUME NEW s \in DOMAIN sessions', sessions'[s].family = f, Usable(s)' PROVE s = x
    BY <2>3, <2>4, UsableAfter DEF IInv, OneUnrevokedPerFamily
  <2> QED
    BY <2>1, <2>2, <2>3, <2>4
<1>2. CASE ~ \E s \in FamilyOf(sessions, f)' : Usable(s)'
  BY <1>2 DEF CurrentOf, FamilyOf
<1> QED
  BY <1>1, <1>2

(* Every step keeps a family's credential, closes it, or gives the new session to one family. *)
LEMMA CurrentStep ==
  ASSUME IInv, IInv', [Next]_vars, NEW f \in Ids
  PROVE  /\ CurrentOf(f)' \in Nat
         /\ \/ CurrentOf(f)' \in {CurrentOf(f), 0}
            \/ /\ CurrentOf(f)' = issued + 1
               /\ issued' = issued + 1
               /\ issued + 1 \in DOMAIN sessions'
               /\ sessions'[issued + 1].family = f
               /\ f = issued + 1 \/ CurrentOf(f) # 0
<1>1. CASE CurrentOf(f)' = 0
  BY <1>1
<1>2. CASE CurrentOf(f)' # 0
  <2>1. PICK s \in DOMAIN sessions' : s = CurrentOf(f)' /\ sessions'[s].family = f /\ Usable(s)'
    BY <1>2, CurrentAfter
  <2>2. s \in Nat /\ issued \in Nat
    BY SessionsAssumption DEF IInv, TypeOK
  <2>3. CASE s = issued + 1
    <3>1. issued' = issued + 1
      BY <2>3, NewSessionFacts DEF IInv
    <3>2. \/ f = issued + 1
          \/ \E t \in DOMAIN sessions : Exchanged(t) /\ sessions[t].family = f
      BY <2>1, <2>3, NewSessionFacts DEF IInv
    <3>3. ASSUME NEW t \in DOMAIN sessions, Exchanged(t), sessions[t].family = f
          PROVE  CurrentOf(f) # 0
      <4>1. CurrentOf(f) = t
        BY <3>3, CurrentFacts DEF Exchanged
      <4> QED
        BY <4>1 DEF IInv, TypeOK
    <3> QED
      BY <2>1, <2>2, <2>3, <3>1, <3>2, <3>3
  <2>4. CASE s # issued + 1
    <3>1. s \in 1 .. issued
      BY <2>1, <2>4, OldSession DEF IInv, TypeOK
    <3>2. Usable(s) /\ s \in DOMAIN sessions /\ sessions[s].family = f
      BY <2>1, <3>1, UsableBefore, UsableFacts DEF IInv, Same
    <3>3. CurrentOf(f) = s
      BY <3>2, CurrentFacts
    <3> QED
      BY <2>1, <2>2, <3>3
  <2> QED
    BY <2>3, <2>4
<1> QED
  BY <1>1, <1>2

(* A session that is issued is its family's credential at once. *)
LEMMA NewIsCurrent ==
  ASSUME IInv, IInv', [Next]_vars, issued' # issued, NEW f, f = sessions'[issued + 1].family
  PROVE  /\ issued' = issued + 1
         /\ CurrentOf(f)' = issued + 1
         /\ f \in Ids
<1>1. PICK id : id = issued + 1
  OBVIOUS
<1>2. id \in DOMAIN sessions'
  BY <1>1, StepKinds
     DEF IInv, Quiet, Replayed, FamilyKilled, NoneIssued, Exchanged, Opened, OneIssued, Grown, vars
<1>3. /\ issued' = issued + 1 /\ now' = now
      /\ sessions'[id].revokedAt = Never
      /\ sessions'[id].expiresAt = now + AbsoluteTtl
      /\ sessions'[id].lastUsedAt = now
  BY <1>1, <1>2, NewSessionFacts DEF IInv
<1>4. now + AbsoluteTtl > now /\ now + IdleTimeout > now
  BY SessionsAssumption DEF IInv, TypeOK, Time
<1>5. Usable(id)'
  BY <1>2, <1>3, <1>4, UsableAfter DEF IInv
<1>6. CurrentOf(f)' = id
  BY <1>1, <1>2, <1>5, CurrentAfter
<1>7. f \in Ids
  BY <1>1, <1>2 DEF IInv, TypeOK, Session
<1> QED
  BY <1>1, <1>3, <1>6, <1>7

(* The store implements the abstract chain of credentials. *)
THEOREM Refinement == Spec => ImplementsFamilies
<1> DEFINE cur == [f \in Ids |-> CurrentOf(f)]
<1>1. Init => Abstract!FInit
  BY DEF Init, Abstract!FInit, CurrentOf, FamilyOf
<1>2. IInv /\ IInv' /\ [Next]_vars => [Abstract!FNext]_(Abstract!fvars)
  <2> SUFFICES ASSUME IInv, IInv', [Next]_vars
               PROVE  Abstract!FNext
    OBVIOUS
  <2>1. cur' \in [Ids -> Nat]
    BY CurrentStep
  <2>2. \A f \in Ids : cur[f] = CurrentOf(f) /\ cur'[f] = CurrentOf(f)'
    OBVIOUS
  <2>3. CASE issued' = issued
    <3>1. \A f \in Ids : cur'[f] \in {cur[f], 0}
      <4>1. issued \in Nat
        BY SessionsAssumption DEF IInv, TypeOK
      <4> QED
        BY <2>2, <2>3, <4>1, CurrentStep
    <3>2. Abstract!Close
      BY <2>3, <3>1 DEF Abstract!Close, Abstract!OthersOnlyClose
    <3> QED
      BY <2>1, <3>2 DEF Abstract!FNext
  <2>4. CASE issued' # issued
    <3>1. PICK f \in Ids : f = sessions'[issued + 1].family
      BY <2>4, NewIsCurrent
    <3>2. issued' = issued + 1 /\ cur'[f] = issued + 1
      BY <2>2, <2>4, <3>1, NewIsCurrent
    <3>3. \A g \in Ids \ {f} : cur'[g] \in {cur[g], 0}
      BY <2>2, <3>1, CurrentStep
    <3>4. f = issued + 1 \/ cur[f] # 0
      <4>1. issued + 1 # 0
        BY SessionsAssumption DEF IInv, TypeOK
      <4> QED
        BY <2>2, <3>2, <4>1, CurrentStep
    <3>5. CASE f = issued + 1
      BY <2>1, <3>2, <3>3, <3>5
         DEF Abstract!FNext, Abstract!Open, Abstract!OthersOnlyClose
    <3>6. CASE cur[f] # 0
      BY <2>1, <3>2, <3>3, <3>6
         DEF Abstract!FNext, Abstract!Advance, Abstract!OthersOnlyClose
    <3> QED
      BY <3>4, <3>5, <3>6
  <2> QED
    BY <2>3, <2>4
<1> QED
  BY <1>1, <1>2, Invariance, PTL DEF Spec, ImplementsFamilies, Abstract!FSpec

-----------------------------------------------------------------------------
(* The bound on a user's sessions.  The eviction loop revokes the sessions *)
(* with fewer than excess sessions before them in its order.  That there   *)
(* are exactly excess of them needs counting: the number of predecessors   *)
(* is an injection into, and so a bijection with, an interval of numbers.  *)

\* The sessions of A that the eviction loop visits before s.
Before(T, A, s) == {r \in A : Precedes(T, r, s)}

(* The loop's order is a strict total order, and counts every session differently. *)
LEMMA BeforeFacts ==
  ASSUME NEW A, IsFiniteSet(A), A \subseteq Int, NEW T, \A a \in A : T[a].lastUsedAt \in Int
  PROVE  /\ \A s \in A : /\ IsFiniteSet(Before(T, A, s))
                         /\ Cardinality(Before(T, A, s)) \in 0 .. Cardinality(A) - 1
         /\ \A r, s \in A : Precedes(T, r, s)
              => Cardinality(Before(T, A, r)) < Cardinality(Before(T, A, s))
         /\ \A r, s \in A : r # s => Precedes(T, r, s) \/ Precedes(T, s, r)
<1>1. ASSUME NEW s \in A
      PROVE  /\ IsFiniteSet(Before(T, A, s))
             /\ Cardinality(Before(T, A, s)) \in 0 .. Cardinality(A) - 1
  <2>1. Before(T, A, s) \in SUBSET (A \ {s})
    BY DEF Before, Precedes
  <2>2. IsFiniteSet(A \ {s}) /\ Cardinality(A \ {s}) = Cardinality(A) - 1
    BY FS_RemoveElement
  <2>3. /\ IsFiniteSet(Before(T, A, s))
        /\ Cardinality(Before(T, A, s)) <= Cardinality(A \ {s})
    BY <2>1, <2>2, FS_Subset
  <2>4. Cardinality(Before(T, A, s)) \in Nat /\ Cardinality(A) \in Nat
    BY <2>3, FS_CardinalityType
  <2> QED
    BY <2>2, <2>3, <2>4
<1>2. ASSUME NEW r \in A, NEW s \in A, Precedes(T, r, s)
      PROVE  Cardinality(Before(T, A, r)) < Cardinality(Before(T, A, s))
  <2>1. Before(T, A, r) \in SUBSET Before(T, A, s)
    <3>1. ASSUME NEW x \in A, Precedes(T, x, r) PROVE Precedes(T, x, s)
      <4>1. /\ x \in Int /\ r \in Int /\ s \in Int
            /\ T[x].lastUsedAt \in Int /\ T[r].lastUsedAt \in Int /\ T[s].lastUsedAt \in Int
        BY <1>2
      <4> QED
        BY <1>2, <3>1, <4>1 DEF Precedes
    <3> QED
      BY <3>1 DEF Before
  <2>2. r \in Before(T, A, s) /\ r \notin Before(T, A, r)
    BY <1>2 DEF Before, Precedes
  <2>3. /\ Cardinality(Before(T, A, r)) <= Cardinality(Before(T, A, s))
        /\ Cardinality(Before(T, A, r)) # Cardinality(Before(T, A, s))
    BY <1>1, <2>1, <2>2, FS_Subset
  <2>4. Cardinality(Before(T, A, r)) \in Nat /\ Cardinality(Before(T, A, s)) \in Nat
    BY <1>1, FS_CardinalityType
  <2> QED
    BY <2>3, <2>4
<1>3. \A r, s \in A : r # s => Precedes(T, r, s) \/ Precedes(T, s, r)
  BY DEF Precedes
<1> QED
  BY <1>1, <1>2, <1>3

(* There are n numbers below n. *)
LEMMA UpTo ==
  ASSUME NEW n \in Nat
  PROVE  IsFiniteSet(0 .. n - 1) /\ Cardinality(0 .. n - 1) = n
<1>1. 0 \in Int /\ n - 1 \in Int
  OBVIOUS
<1>2. IsFiniteSet(0 .. n - 1) /\ Cardinality(0 .. n - 1) = IF 0 > n - 1 THEN 0 ELSE n - 1 - 0 + 1
  BY <1>1, FS_Interval
<1> QED
  BY <1>2

(* The loop evicts as many sessions as it set out to. *)
LEMMA AsManyBefore ==
  ASSUME NEW A, IsFiniteSet(A), A \subseteq Int, NEW T, \A a \in A : T[a].lastUsedAt \in Int,
         NEW k \in 0 .. Cardinality(A)
  PROVE  Cardinality({s \in A : Cardinality(Before(T, A, s)) < k}) = k
<1> DEFINE n    == Cardinality(A)
           rank == [s \in A |-> Cardinality(Before(T, A, s))]
           K    == {s \in A : Cardinality(Before(T, A, s)) < k}
           part == [s \in K |-> rank[s]]
<1>1. n \in Nat /\ k \in Nat /\ k <= n
  BY FS_CardinalityType
<1>2. rank \in Injection(A, 0 .. n - 1)
  <2>1. rank \in [A -> 0 .. n - 1]
    BY BeforeFacts
  <2>2. ASSUME NEW r \in A, NEW s \in A, r # s PROVE rank[r] # rank[s]
    <3>1. rank[r] < rank[s] \/ rank[s] < rank[r]
      BY <2>2, BeforeFacts
    <3>2. rank[r] \in Int /\ rank[s] \in Int
      BY <2>1
    <3> QED
      BY <3>1, <3>2
  <2> QED
    BY <2>1, <2>2 DEF Injection, IsInjective
<1>3. IsFiniteSet(0 .. n - 1) /\ Cardinality(0 .. n - 1) = n
  BY <1>1, UpTo
<1>4. rank \in Surjection(A, 0 .. n - 1)
  <2> HIDE DEF rank
  <2> QED
    BY <1>2, <1>3, FS_Injection
<1>5. part \in Injection(K, 0 .. k - 1)
  <2>1. part \in [K -> 0 .. k - 1]
    <3>1. ASSUME NEW s \in K PROVE part[s] \in 0 .. k - 1
      <4>1. rank[s] \in 0 .. n - 1 /\ rank[s] < k
        BY BeforeFacts
      <4> HIDE DEF n, rank
      <4> QED
        BY <1>1, <4>1
    <3> QED
      BY <3>1
  <2>2. \A r, s \in K : part[r] = part[s] => r = s
    BY <1>2 DEF Injection, IsInjective
  <2> QED
    BY <2>1, <2>2 DEF Injection, IsInjective
<1>6. part \in Surjection(K, 0 .. k - 1)
  <2>1. part \in [K -> 0 .. k - 1]
    BY <1>5 DEF Injection
  <2>2. ASSUME NEW i \in 0 .. k - 1 PROVE \E s \in K : part[s] = i
    <3>1. i \in 0 .. n - 1 /\ i < k
      BY <1>1
    <3>2. PICK s \in A : rank[s] = i
      BY <1>4, <3>1 DEF Surjection
    <3>3. s \in K
      BY <3>1, <3>2
    <3> QED
      BY <3>2, <3>3
  <2> QED
    BY <2>1, <2>2 DEF Surjection
<1>7. IsFiniteSet(0 .. k - 1) /\ Cardinality(0 .. k - 1) = k
  BY <1>1, UpTo
<1> HIDE DEF part
<1>8. Cardinality(K) = Cardinality(0 .. k - 1)
  <2> HIDE DEF K
  <2> QED
    BY <1>5, <1>6, <1>7, FS_Injection
<1> QED
  BY <1>7, <1>8

(* What is live in a map of sessions, without the case analysis. *)
LEMMA LiveFacts ==
  ASSUME NEW D, NEW S \in [D -> Session], now \in Time, NEW u
  PROVE  Live(S, u) = {s \in D : /\ S[s].user = u
                                 /\ S[s].revokedAt = Never
                                 /\ S[s].expiresAt > now
                                 /\ S[s].lastUsedAt + IdleTimeout > now}
<1>1. ASSUME NEW s \in D
      PROVE  StateOf(S[s]) = "active" <=> /\ S[s].expiresAt > now
                                          /\ S[s].lastUsedAt + IdleTimeout > now
  <2>1. S[s].expiresAt \in Nat /\ S[s].lastUsedAt \in Nat /\ now \in Nat
    BY DEF Session, Time
  <2> QED
    BY <2>1, SessionsAssumption DEF StateOf
<1> QED
  BY <1>1 DEF Live

(* Finitely many sessions are ever issued. *)
LEMMA FiniteIds == IsFiniteSet(Ids)
<1>1. 1 \in Int /\ MaxSessions \in Int
  BY SessionsAssumption
<1> QED
  BY <1>1, FS_Interval DEF Ids

(* enforceConcurrencyLimit() leaves at most MaxPerUser live sessions of the user. *)
LEMMA EvictionBounds ==
  ASSUME NEW D \in SUBSET Ids, NEW S \in [D -> Session], now \in Time,
         NEW u, NEW id \in Live(S, u)
  PROVE  LET T == RevokedIn(S, Evicted(S, u, id), "concurrent_session_limit")
         IN Cardinality(Live(T, u)) <= MaxPerUser
<1> DEFINE live   == Live(S, u)
           old    == live \ {id}
           excess == Cardinality(live) - MaxPerUser
           gone   == {s \in old : Cardinality(Before(S, old, s)) < excess}
           T      == RevokedIn(S, gone, "concurrent_session_limit")
<1>1. gone = Evicted(S, u, id)
  BY DEF Evicted, Before
<1>2. /\ live \subseteq D /\ live \subseteq Ids
      /\ IsFiniteSet(live)
  <2>1. IsFiniteSet(Ids)
    BY FiniteIds
  <2>2. live \in SUBSET Ids
    BY DEF Live
  <2>3. IsFiniteSet(live)
    BY <2>1, <2>2, FS_Subset
  <2> QED
    BY <2>2, <2>3 DEF Live
<1>3. Cardinality(live) \in Nat /\ MaxPerUser \in Nat \ {0}
  BY <1>2, FS_CardinalityType, SessionsAssumption
<1>4. /\ IsFiniteSet(old)
      /\ Cardinality(old) = Cardinality(live) - 1
      /\ old \subseteq Int
      /\ \A a \in old : S[a].lastUsedAt \in Int
  <2>1. IsFiniteSet(old) /\ Cardinality(old) = Cardinality(live) - 1
    BY <1>2, FS_RemoveElement
  <2>2. old \subseteq D /\ old \subseteq Int
    BY <1>2 DEF Ids
  <2>3. \A a \in D : S[a].lastUsedAt \in Int
    BY DEF Session, Time
  <2> QED
    BY <2>1, <2>2, <2>3
<1>5. Live(T, u) \subseteq live \ gone
  <2>1. ASSUME NEW s \in Live(T, u) PROVE s \in live \ gone
    <3>1. s \in D /\ T[s].revokedAt = Never /\ T[s].user = u /\ StateOf(T[s]) = "active"
      BY <2>1 DEF Live, RevokedIn
    <3>2. s \notin gone /\ T[s] = S[s]
      <4>1. now # Never
        BY SessionsAssumption DEF Time, Never
      <4>2. CASE s \in gone /\ S[s].revokedAt = Never
        <5>1. T[s] = [S[s] EXCEPT !.revokedAt = now, !.reason = "concurrent_session_limit"]
          BY <3>1, <4>2 DEF RevokedIn
        <5>2. S[s] \in Session
          BY <3>1
        <5>3. T[s].revokedAt = now
          BY <5>1, <5>2 DEF Session
        <5> QED
          BY <3>1, <4>1, <5>3
      <4>3. CASE ~ (s \in gone /\ S[s].revokedAt = Never)
        <5>1. T[s] = S[s]
          BY <3>1, <4>3 DEF RevokedIn
        <5> QED
          BY <3>1, <4>3, <5>1
      <4> QED
        BY <4>2, <4>3
    <3> QED
      BY <3>1, <3>2 DEF Live
  <2> QED
    BY <2>1
<1>6. /\ IsFiniteSet(live \ gone)
      /\ Cardinality(live \ gone) = Cardinality(live) - Cardinality(gone)
  <2>1. /\ IsFiniteSet(live \ gone)
        /\ Cardinality(live \ gone) = Cardinality(live) - Cardinality(live \cap gone)
    BY <1>2, FS_Difference
  <2>2. live \cap gone = gone
    OBVIOUS
  <2> QED
    BY <2>1, <2>2
<1>7. Cardinality(live \ gone) <= MaxPerUser
  <2>1. CASE excess < 0
    <3>1. IsFiniteSet(gone)
      BY <1>4, FS_Subset
    <3>2. Cardinality(gone) \in Nat
      BY <3>1, FS_CardinalityType
    <3> HIDE DEF live, gone
    <3> QED
      BY <1>3, <1>6, <2>1, <3>2
  <2>2. CASE excess >= 0
    <3>1. excess \in 0 .. Cardinality(old)
      BY <1>3, <1>4, <2>2
    <3> HIDE DEF old, excess
    <3>2. Cardinality(gone) = excess
      BY <1>4, <3>1, AsManyBefore
    <3> HIDE DEF live, gone
    <3> QED
      BY <1>3, <1>6, <3>2 DEF excess
  <2> QED
    BY <1>3, <2>1, <2>2
<1>8. Cardinality(Live(T, u)) <= Cardinality(live \ gone)
  <2> HIDE DEF T, live, gone
  <2> QED
    BY <1>5, <1>6, FS_Subset
<1>9. IsFiniteSet(Live(T, u))
  <2> HIDE DEF T, live, gone
  <2> QED
    BY <1>5, <1>6, FS_Subset
<1>10. Cardinality(Live(T, u)) \in Nat /\ Cardinality(live \ gone) \in Nat
  BY <1>6, <1>9, FS_CardinalityType
<1>11. Cardinality(Live(T, u)) <= MaxPerUser
  <2> HIDE DEF T, live, gone
  <2> QED
    BY <1>3, <1>7, <1>8, <1>10
<1> QED
  BY <1>1, <1>11

(* issue() leaves at most MaxPerUser live sessions of the user it issues to. *)
LEMMA IssueBounds ==
  ASSUME NEW D \in SUBSET Ids, NEW S \in [D -> Session],
         NEW id \in Ids \ D, NEW u \in Users, NEW fam \in Ids, NEW old \in Ids \cup {0},
         now \in Time
  PROVE  Cardinality(Live(WithIssued(S, id, u, fam, old), u)) <= MaxPerUser
<1> DEFINE kept == PrunedSessions(S)
           E    == DOMAIN kept \cup {id}
           all  == [s \in E |-> IF s = id THEN NewSession(u, fam, old) ELSE kept[s]]
<1>1. DOMAIN kept \subseteq D /\ kept \in [DOMAIN kept -> Session]
  BY PrunedFacts
<1>2. now + AbsoluteTtl \in Nat /\ now \in Nat /\ now + AbsoluteTtl > now /\ now + IdleTimeout > now
  BY SessionsAssumption DEF Time
<1>3. NewSession(u, fam, old) \in Session
  BY <1>2 DEF NewSession, Session, Reasons
<1>4. E \in SUBSET Ids /\ all \in [E -> Session]
  BY <1>1, <1>3
<1>5. all[id] = NewSession(u, fam, old) /\ id \in E
  OBVIOUS
<1> HIDE DEF kept, E, all
<1>6. IsNew(all[id], u, fam, old)
  BY <1>5, NewSessionIsNew
<1>7. id \in Live(all, u)
  BY <1>2, <1>4, <1>5, <1>6, LiveFacts DEF IsNew
<1>8. Cardinality(Live(RevokedIn(all, Evicted(all, u, id), "concurrent_session_limit"), u))
        <= MaxPerUser
  BY <1>4, <1>7, EvictionBounds
<1> QED
  BY <1>8 DEF WithIssued, NewSession, all, E, kept

(* What is live after a step. *)
LEMMA LiveAfter ==
  ASSUME TypeOK', NEW u
  PROVE  Live(sessions, u)' = {s \in DOMAIN sessions' : sessions'[s].user = u /\ Usable(s)'}
<1>1. ASSUME NEW s \in DOMAIN sessions'
      PROVE  (StateOf(sessions[s]) = "active")' <=> /\ sessions'[s].expiresAt > now'
                                                    /\ sessions'[s].lastUsedAt + IdleTimeout > now'
  <2>1. sessions'[s].expiresAt \in Nat /\ sessions'[s].lastUsedAt \in Nat /\ now' \in Nat
    BY DEF TypeOK, Session, Time
  <2> QED
    BY <2>1, SessionsAssumption DEF StateOf
<1>2. ASSUME NEW s \in DOMAIN sessions'
      PROVE  Usable(s)' <=> sessions'[s].revokedAt = Never /\ (StateOf(sessions[s]) = "active")'
  BY <1>1, UsableAfter
<1>3. Live(sessions, u)' = {s \in DOMAIN sessions' : /\ sessions'[s].user = u
                                                     /\ sessions'[s].revokedAt = Never
                                                     /\ (StateOf(sessions[s]) = "active")'}
  BY DEF Live
<1> QED
  BY <1>2, <1>3

(* Only issue() adds sessions, and the map it leaves is the one WithIssued describes. *)
LEMMA IssuedBy ==
  ASSUME TypeOK, [Next]_vars
  PROVE  \/ issued' = issued
         \/ \E u \in Users, fam \in Ids, old \in Ids \cup {0} :
              \E S \in [DOMAIN sessions -> Session] :
                /\ issued' = issued + 1 /\ now' = now
                /\ issued + 1 \in Ids \ DOMAIN sessions
                /\ sessions' = WithIssued(S, issued + 1, u, fam, old)
                /\ issued + 1 \in DOMAIN sessions'
                /\ sessions'[issued + 1].user = u
                /\ \/ S = sessions
                   \/ S = RevokedIn(sessions, {old}, "rotated") /\ Usable(old)
<1> DEFINE Goal ==
      \E u \in Users, fam \in Ids, old \in Ids \cup {0} :
              \E S \in [DOMAIN sessions -> Session] :
                /\ issued' = issued + 1 /\ now' = now
                /\ issued + 1 \in Ids \ DOMAIN sessions
                /\ sessions' = WithIssued(S, issued + 1, u, fam, old)
                /\ issued + 1 \in DOMAIN sessions'
                /\ sessions'[issued + 1].user = u
                /\ \/ S = sessions
                   \/ S = RevokedIn(sessions, {old}, "rotated") /\ Usable(old)
<1>1. /\ sessions \in [DOMAIN sessions -> Session]
      /\ now \in Time
  BY DEF TypeOK
<1>2. ASSUME issued < MaxSessions PROVE issued + 1 \in Ids \ DOMAIN sessions
  BY <1>2, SessionsAssumption DEF TypeOK, Ids
<1>3. ASSUME NEW u \in Users, Issue(u) PROVE Goal
  <2>1. /\ sessions' = WithIssued(sessions, issued + 1, u, issued + 1, 0)
        /\ issued + 1 \in Ids \ DOMAIN sessions
        /\ issued' = issued + 1 /\ now' = now
    BY <1>2, <1>3 DEF Issue
  <2>2. issued + 1 \in DOMAIN sessions' /\ sessions'[issued + 1].user = u
    BY <1>3, IssueStep DEF OneIssued, Grown, IsNew
  <2> QED
    BY <1>1, <2>1, <2>2
<1>4. ASSUME NEW t \in Tokens, RotateUsable(t) PROVE Goal
  <2> DEFINE S == RevokedIn(sessions, {t}, "rotated")
  <2>1. /\ sessions' = WithIssued(S, issued + 1, sessions[t].user, sessions[t].family, t)
        /\ issued + 1 \in Ids \ DOMAIN sessions
        /\ issued' = issued + 1 /\ now' = now
        /\ Usable(t)
    BY <1>2, <1>4 DEF RotateUsable
  <2>2. issued + 1 \in DOMAIN sessions' /\ sessions'[issued + 1].user = sessions[t].user
    BY <1>4, RotateUsableStep DEF OneIssued, Grown, IsNew
  <2>3. t \in DOMAIN sessions
    BY <2>1, UsableFacts
  <2>4. sessions[t].user \in Users /\ sessions[t].family \in Ids /\ t \in Ids
    BY <1>1, <2>3, SessionsAssumption DEF Session, TypeOK, Ids
  <2>5. S \in [DOMAIN sessions -> Session]
    <3>1. "rotated" \in Reasons
      BY DEF Reasons
    <3> QED
      BY <1>1, <3>1, RevokedInFacts
  <2> QED
    BY <2>1, <2>2, <2>4, <2>5
<1>5. ASSUME NEW t \in Tokens,
             RotateReplay(t) \/ RotateUnknown(t) \/ RotateReused(t) \/ RotateLapsed(t)
             \/ Touch(t) \/ Revoke(t) \/ (\E u \in Users : RevokeAllForUser(u, t))
      PROVE  issued' = issued
  BY <1>5 DEF RotateReplay, RotateUnknown, RotateReused, RotateLapsed, Touch, Revoke,
              RevokeAllForUser
<1>6. ASSUME ListForUser \/ Tick \/ UNCHANGED vars PROVE issued' = issued
  BY <1>6 DEF ListForUser, Tick, vars
<1> QED
  BY <1>3, <1>4, <1>5, <1>6 DEF Next, Rotate

(* A step either takes from the live sessions of a user, or issues one and enforces the bound. *)
LEMMA BoundStep ==
  ASSUME TypeOK, TypeOK', [Next]_vars, NEW u \in Users, Cardinality(Live(sessions, u)) <= MaxPerUser
  PROVE  Cardinality(Live(sessions, u)') <= MaxPerUser
<1>1. CASE \E fam \in Ids, old \in Ids \cup {0} : \E S \in [DOMAIN sessions -> Session] :
             /\ issued + 1 \in Ids \ DOMAIN sessions /\ now' = now
             /\ sessions' = WithIssued(S, issued + 1, u, fam, old)
  <2>1. PICK fam \in Ids, old \in Ids \cup {0} : \E S \in [DOMAIN sessions -> Session] :
             /\ issued + 1 \in Ids \ DOMAIN sessions /\ now' = now
             /\ sessions' = WithIssued(S, issued + 1, u, fam, old)
    BY <1>1
  <2>2. PICK S \in [DOMAIN sessions -> Session] :
             /\ issued + 1 \in Ids \ DOMAIN sessions /\ now' = now
             /\ sessions' = WithIssued(S, issued + 1, u, fam, old)
    BY <2>1
  <2>3. DOMAIN sessions \in SUBSET Ids /\ now \in Time
    BY SessionsAssumption DEF TypeOK, Ids
  <2>4. Cardinality(Live(sessions', u)) <= MaxPerUser
    BY <2>2, <2>3, IssueBounds
  <2>5. Live(sessions, u)' = Live(sessions', u)
    BY <2>2 DEF Live, StateOf
  <2> QED
    BY <2>4, <2>5
<1>2. CASE ~ (issued + 1 \in DOMAIN sessions' /\ sessions'[issued + 1].user = u)
  <2>1. ASSUME NEW s \in Live(sessions, u)' PROVE s \in Live(sessions, u)
    <3>1. s \in DOMAIN sessions' /\ sessions'[s].user = u /\ Usable(s)'
      BY <2>1, LiveAfter
    <3>2. s \in 1 .. issued
      <4>1. s \in 1 .. issued' /\ issued \in Nat
        BY <3>1, SessionsAssumption DEF TypeOK
      <4>2. issued' = issued \/ issued' = issued + 1
        BY IssuedBy
      <4> QED
        BY <1>2, <3>1, <4>1, <4>2
    <3>3. Usable(s) /\ sessions[s].user = u
      BY <3>1, <3>2, UsableBefore DEF Same
    <3>4. /\ s \in DOMAIN sessions /\ sessions[s].revokedAt = Never
          /\ sessions[s].expiresAt > now /\ sessions[s].lastUsedAt + IdleTimeout > now
      BY <3>3, UsableFacts
    <3>5. sessions \in [DOMAIN sessions -> Session] /\ now \in Time
      BY DEF TypeOK
    <3> QED
      BY <3>3, <3>4, <3>5, LiveFacts
  <2>2. IsFiniteSet(Live(sessions, u))
    <3>1. IsFiniteSet(1 .. issued)
      <4>1. issued \in Int
        BY DEF TypeOK
      <4> QED
        BY <4>1, FS_Interval
    <3>2. Live(sessions, u) \in SUBSET (1 .. issued)
      BY DEF Live, TypeOK
    <3> QED
      BY <3>1, <3>2, FS_Subset
  <2>3. /\ Live(sessions, u)' \in SUBSET Live(sessions, u)
        /\ IsFiniteSet(Live(sessions, u)')
        /\ Cardinality(Live(sessions, u)') <= Cardinality(Live(sessions, u))
    BY <2>1, <2>2, FS_Subset
  <2>4. Cardinality(Live(sessions, u)') \in Nat /\ Cardinality(Live(sessions, u)) \in Nat
    BY <2>2, <2>3, FS_CardinalityType
  <2> QED
    BY <2>3, <2>4, SessionsAssumption
<1>3. CASE issued + 1 \in DOMAIN sessions' /\ sessions'[issued + 1].user = u
  <2>1. issued' # issued
    BY <1>3, SessionsAssumption DEF TypeOK
  <2> QED
    BY <1>1, <1>3, <2>1, IssuedBy
<1> QED
  BY <1>2, <1>3

(* However sign-ins, workspace switches and rotations interleave, no user ever holds more usable
   sessions than SESSION_MAX_PER_USER (sessions.service.ts, enforceConcurrencyLimit). *)
THEOREM ConcurrencyIsBounded == Spec => []ConcurrencyBounded
<1>1. Init => ConcurrencyBounded
  <2> SUFFICES ASSUME Init, NEW u \in Users PROVE Cardinality(Live(sessions, u)) <= MaxPerUser
    BY DEF ConcurrencyBounded
  <2>1. Live(sessions, u) = {}
    BY DEF Init, Live
  <2> QED
    BY <2>1, FS_EmptySet, SessionsAssumption
<1>2. ConcurrencyBounded /\ TypeOK /\ TypeOK' /\ [Next]_vars => ConcurrencyBounded'
  BY BoundStep DEF ConcurrencyBounded
<1> QED
  BY <1>1, <1>2, TypeCorrect, PTL DEF Spec

\* An unrevoked session carries no reason.
Reasoned(S) == \A s \in DOMAIN S : S[s].revokedAt = Never => S[s].reason = ""

Evicting == "concurrent_session_limit"

(* A session is stamped with the reason it was revoked for, and with no other. *)
LEMMA ReasonGiven ==
  ASSUME NEW D, NEW S \in [D -> Session], Reasoned(S), NEW ids, NEW why, now \in Time
  PROVE  /\ Reasoned(RevokedIn(S, ids, why))
         /\ \A s \in D : /\ RevokedIn(S, ids, why)[s].lastUsedAt = S[s].lastUsedAt
                         /\ \/ RevokedIn(S, ids, why)[s] = S[s]
                            \/ /\ s \in ids /\ S[s].revokedAt = Never
                               /\ RevokedIn(S, ids, why)[s].revokedAt # Never
                               /\ RevokedIn(S, ids, why)[s].reason = why
<1> DEFINE T == RevokedIn(S, ids, why)
<1>1. DOMAIN T = D
  BY DEF RevokedIn
<1>2. now # Never
  BY SessionsAssumption DEF Time, Never
<1>3. ASSUME NEW s \in D
      PROVE  /\ T[s].lastUsedAt = S[s].lastUsedAt
             /\ \/ T[s] = S[s]
                \/ /\ s \in ids /\ S[s].revokedAt = Never
                   /\ T[s].revokedAt # Never /\ T[s].reason = why
  <2>1. S[s] \in Session
    OBVIOUS
  <2>2. CASE s \in ids /\ S[s].revokedAt = Never
    <3>1. T[s] = [S[s] EXCEPT !.revokedAt = now, !.reason = why]
      BY <2>2 DEF RevokedIn
    <3>2. T[s].revokedAt = now /\ T[s].reason = why /\ T[s].lastUsedAt = S[s].lastUsedAt
      BY <2>1, <3>1 DEF Session
    <3> QED
      BY <1>2, <2>2, <3>2
  <2>3. CASE ~ (s \in ids /\ S[s].revokedAt = Never)
    BY <2>3 DEF RevokedIn
  <2> QED
    BY <2>2, <2>3
<1> HIDE DEF T
<1>4. Reasoned(T)
  BY <1>1, <1>3 DEF Reasoned
<1> QED
  BY <1>3, <1>4 DEF T

(* issue() evicts by the loop's order, and stamps no other session. *)
LEMMA IssueEvicts ==
  ASSUME NEW D \in SUBSET Ids, NEW S \in [D -> Session], Reasoned(S),
         NEW id \in Ids \ D, NEW u \in Users, NEW fam \in Ids, NEW old \in Ids \cup {0},
         now \in Time
  PROVE  LET T == WithIssued(S, id, u, fam, old)
         IN /\ Reasoned(T)
            /\ \A s, r \in D \cap DOMAIN T :
                 /\ S[s].reason # Evicting /\ T[s].reason = Evicting
                 /\ S[r].user = S[s].user
                 /\ T[r].revokedAt = Never /\ T[r].expiresAt > now
                 /\ T[r].lastUsedAt + IdleTimeout > now
                 => S[s].lastUsedAt <= S[r].lastUsedAt
<1> DEFINE kept == PrunedSessions(S)
           E    == DOMAIN kept \cup {id}
           all  == [s \in E |-> IF s = id THEN NewSession(u, fam, old) ELSE kept[s]]
           gone == Evicted(all, u, id)
           T    == RevokedIn(all, gone, Evicting)
<1>1. /\ DOMAIN kept \subseteq D /\ kept \in [DOMAIN kept -> Session]
      /\ \A s \in DOMAIN kept : kept[s] = S[s]
  BY PrunedFacts
<1>2. NewSession(u, fam, old) \in Session
  <2>1. now + AbsoluteTtl \in Nat
    BY SessionsAssumption DEF Time
  <2> QED
    BY <2>1 DEF NewSession, Session, Reasons
<1>3. E \in SUBSET Ids /\ all \in [E -> Session] /\ E \subseteq D \cup {id}
  BY <1>1, <1>2
<1>4. \A s \in E \cap D : all[s] = S[s] /\ s # id
  BY <1>1
<1>5. Reasoned(all)
  <2>1. all[id] = NewSession(u, fam, old)
    OBVIOUS
  <2>2. all[id].reason = ""
    BY <2>1 DEF NewSession
  <2> HIDE DEF E, all
  <2> QED
    BY <1>3, <1>4, <2>2 DEF Reasoned
<1> HIDE DEF kept, E, all, gone
<1>6. /\ Reasoned(T) /\ DOMAIN T = E
      /\ \A s \in E : /\ T[s].lastUsedAt = all[s].lastUsedAt
                      /\ \/ T[s] = all[s]
                         \/ /\ s \in gone /\ all[s].revokedAt = Never
                            /\ T[s].revokedAt # Never
                            /\ T[s].reason = Evicting
  <2>1. DOMAIN T = E
    BY <1>3 DEF RevokedIn
  <2> QED
    BY <1>3, <1>5, <2>1, ReasonGiven
<1> HIDE DEF T
<1>7. ASSUME NEW s \in D \cap E, NEW r \in D \cap E,
             S[s].reason # Evicting, T[s].reason = Evicting, S[r].user = S[s].user,
             T[r].revokedAt = Never, T[r].expiresAt > now, T[r].lastUsedAt + IdleTimeout > now
      PROVE  S[s].lastUsedAt <= S[r].lastUsedAt
  <2> DEFINE others == Live(all, u) \ {id}
             excess == Cardinality(Live(all, u)) - MaxPerUser
  <2>1. s \in gone /\ s \in E /\ all[s] = S[s] /\ all[r] = S[r] /\ r # id
    BY <1>4, <1>6, <1>7
  <2>2. T[r] = all[r]
    BY <1>6, <1>7
  <2>3. s \in others /\ Cardinality(Before(all, others, s)) < excess
    BY <2>1 DEF gone, Evicted, Before
  <2>4. all[s].user = u
    BY <2>3 DEF Live
  <2>5. r \in others
    <3>1. r \in Live(all, u)
      BY <1>3, <1>7, <2>1, <2>2, <2>4, LiveFacts
    <3> QED
      BY <2>1, <3>1
  <2>6. r \notin gone
    <3>1. ASSUME r \in gone PROVE T[r].revokedAt # Never
      <4>1. S[r] \in Session /\ all[r].revokedAt = Never /\ r \in E
        BY <1>7, <2>1, <2>2
      <4>2. T[r] = [all[r] EXCEPT !.revokedAt = now, !.reason = Evicting]
        BY <1>3, <3>1, <4>1 DEF T, RevokedIn
      <4>3. T[r].revokedAt = now
        BY <1>3, <4>1, <4>2 DEF Session
      <4> QED
        BY <4>3, SessionsAssumption DEF Time, Never
    <3> QED
      BY <1>7, <3>1
  <2>7. ~ (Cardinality(Before(all, others, r)) < excess)
    BY <2>5, <2>6 DEF gone, Evicted, Before
  <2>8. /\ IsFiniteSet(others) /\ others \subseteq Int
        /\ \A a \in others : all[a].lastUsedAt \in Int
        /\ Cardinality(Live(all, u)) \in Nat
    <3>1. IsFiniteSet(Ids)
      BY FiniteIds
    <3>2. Live(all, u) \in SUBSET Ids /\ others \in SUBSET Ids /\ others \subseteq E
      BY <1>3 DEF Live
    <3>3. IsFiniteSet(Live(all, u)) /\ IsFiniteSet(others)
      BY <3>1, <3>2, FS_Subset
    <3>4. \A a \in E : all[a].lastUsedAt \in Int
      BY <1>3 DEF Session, Time
    <3> QED
      BY <3>2, <3>3, <3>4, FS_CardinalityType DEF Ids
  <2>9. ~ Precedes(all, r, s)
    <3> HIDE DEF others
    <3>1. /\ Cardinality(Before(all, others, r)) \in Int
          /\ Cardinality(Before(all, others, s)) \in Int
          /\ excess \in Int
      <4>1. excess \in Int
        BY <2>8, SessionsAssumption
      <4>2. IsFiniteSet(Before(all, others, r)) /\ IsFiniteSet(Before(all, others, s))
        BY <2>3, <2>5, <2>8, BeforeFacts
      <4> HIDE DEF excess
      <4> QED
        BY <4>1, <4>2, FS_CardinalityType
    <3>2. Precedes(all, r, s)
            => Cardinality(Before(all, others, r)) < Cardinality(Before(all, others, s))
      BY <2>3, <2>5, <2>8, BeforeFacts
    <3> HIDE DEF excess
    <3> QED
      BY <2>3, <2>7, <3>1, <3>2
  <2>10. all[s].lastUsedAt \in Int /\ all[r].lastUsedAt \in Int
    BY <2>3, <2>5, <2>8
  <2> QED
    BY <2>1, <2>9, <2>10 DEF Precedes
<1>8. T = WithIssued(S, id, u, fam, old)
  BY DEF WithIssued, T, gone, all, E, kept, NewSession, Evicting
<1> QED
  BY <1>6, <1>7, <1>8

(* Without issue() no session is evicted: it is stamped with another reason, touched or pruned. *)
LEMMA NotIssuedEvicts ==
  ASSUME TypeOK, Reasoned(sessions), [Next]_vars, issued' = issued
  PROVE  /\ Reasoned(sessions')
         /\ \A s \in DOMAIN sessions \cap DOMAIN sessions' :
              sessions[s].revokedAt = Never => sessions'[s].reason # Evicting
<1> DEFINE Goal == /\ Reasoned(sessions')
                   /\ \A s \in DOMAIN sessions \cap DOMAIN sessions' :
                        sessions[s].revokedAt = Never => sessions'[s].reason # Evicting
<1>1. sessions \in [DOMAIN sessions -> Session] /\ now \in Time
  BY DEF TypeOK
<1>2. ASSUME NEW ids, NEW why, why # Evicting, sessions' = RevokedIn(sessions, ids, why)
      PROVE  Goal
  <2>1. "" # Evicting
    BY DEF Evicting
  <2>2. DOMAIN sessions' = DOMAIN sessions
    BY <1>2 DEF RevokedIn
  <2>3. /\ Reasoned(sessions')
        /\ \A s \in DOMAIN sessions : \/ sessions'[s] = sessions[s]
                                      \/ sessions'[s].reason = why
    BY <1>1, <1>2, ReasonGiven
  <2> QED
    BY <1>2, <2>1, <2>2, <2>3 DEF Reasoned
<1>3. ASSUME sessions' = sessions PROVE Goal
  BY <1>3 DEF Reasoned, Evicting
<1>4. ASSUME sessions' = PrunedSessions(sessions) PROVE Goal
  <2>1. /\ DOMAIN sessions' \subseteq DOMAIN sessions
        /\ \A s \in DOMAIN sessions' : sessions'[s] = sessions[s]
    BY <1>1, <1>4, PrunedFacts
  <2> QED
    BY <2>1 DEF Reasoned, Evicting
<1>5. ASSUME NEW t, sessions' = [sessions EXCEPT ![t].lastUsedAt = now] PROVE Goal
  <2>1. /\ DOMAIN sessions' = DOMAIN sessions
        /\ \A s \in DOMAIN sessions : /\ sessions'[s].revokedAt = sessions[s].revokedAt
                                      /\ sessions'[s].reason = sessions[s].reason
    BY <1>1, <1>5 DEF Session
  <2> QED
    BY <2>1 DEF Reasoned, Evicting
<1>6. ASSUME NEW t \in Tokens, Rotate(t) PROVE Goal
  <2>1. CASE RotateReplay(t) \/ RotateUnknown(t)
    BY <1>3, <2>1 DEF RotateReplay, RotateUnknown
  <2>2. CASE RotateReused(t)
    BY <1>2, <2>2 DEF RotateReused, Evicting
  <2>3. CASE RotateLapsed(t)
    BY <1>2, <2>3 DEF RotateLapsed, Evicting
  <2>4. CASE RotateUsable(t)
    BY <2>4, SessionsAssumption DEF RotateUsable, TypeOK
  <2> QED
    BY <1>6, <2>1, <2>2, <2>3, <2>4 DEF Rotate
<1>7. ASSUME NEW t \in Tokens, Touch(t) PROVE Goal
  <2>1. CASE Validate(t) = "idle"
    BY <1>2, <1>7, <2>1 DEF Touch, TouchedSession, Evicting
  <2>2. CASE Validate(t) # "idle"
    BY <1>3, <1>5, <1>7, <2>2 DEF Touch, TouchedSession
  <2> QED
    BY <2>1, <2>2
<1>8. ASSUME NEW t \in Tokens, Revoke(t) \/ \E u \in Users : RevokeAllForUser(u, t) PROVE Goal
  BY <1>2, <1>8 DEF Revoke, RevokeAllForUser, Evicting
<1>9. CASE ListForUser
  BY <1>4, <1>9 DEF ListForUser
<1>10. CASE Tick \/ UNCHANGED vars
  BY <1>3, <1>10 DEF Tick, vars
<1>11. ASSUME NEW u \in Users, Issue(u) PROVE Goal
  BY <1>11, SessionsAssumption DEF Issue, TypeOK
<1> QED
  BY <1>6, <1>7, <1>8, <1>9, <1>10, <1>11 DEF Next

\* What the bound may do in one step: the action of EvictsLeastRecentlyUsed.
OldestEvicted ==
  \A s, r \in DOMAIN sessions \cap DOMAIN sessions' :
    /\ Usable(s) /\ sessions'[s].reason = "concurrent_session_limit"
    /\ Usable(r) /\ Usable(r)'
    /\ sessions[s].user = sessions[r].user
    => sessions[s].lastUsedAt <= sessions[r].lastUsedAt

(* No step evicts a session and spares one of the same user that was used less recently. *)
LEMMA EvictionStep ==
  ASSUME TypeOK, TypeOK', Reasoned(sessions), [Next]_vars
  PROVE  Reasoned(sessions') /\ OldestEvicted
<1>1. CASE issued' = issued
  BY <1>1, NotIssuedEvicts, UsableFacts DEF OldestEvicted, Evicting
<1>2. CASE issued' # issued
  <2>1. PICK u \in Users, fam \in Ids, old \in Ids \cup {0} :
          \E S \in [DOMAIN sessions -> Session] :
                /\ now' = now
                /\ issued + 1 \in Ids \ DOMAIN sessions
                /\ sessions' = WithIssued(S, issued + 1, u, fam, old)
                /\ \/ S = sessions
                   \/ S = RevokedIn(sessions, {old}, "rotated")
    BY <1>2, IssuedBy
  <2>2. PICK S \in [DOMAIN sessions -> Session] :
                /\ now' = now
                /\ issued + 1 \in Ids \ DOMAIN sessions
                /\ sessions' = WithIssued(S, issued + 1, u, fam, old)
                /\ \/ S = sessions
                   \/ S = RevokedIn(sessions, {old}, "rotated")
    BY <2>1
  <2>3. /\ DOMAIN sessions \in SUBSET Ids /\ now \in Time
        /\ sessions \in [DOMAIN sessions -> Session]
    BY SessionsAssumption DEF TypeOK, Ids
  <2>4. /\ Reasoned(S)
        /\ \A s \in DOMAIN sessions :
             /\ S[s].lastUsedAt = sessions[s].lastUsedAt
             /\ S[s].user = sessions[s].user
             /\ sessions[s].revokedAt = Never => S[s].reason # Evicting
    <3>1. CASE S = sessions
      BY <3>1 DEF Reasoned, Evicting
    <3>2. CASE S = RevokedIn(sessions, {old}, "rotated")
      <4>1. Shrunk(sessions, S) /\ DOMAIN S = DOMAIN sessions
        <5>1. "rotated" \in Reasons
          BY DEF Reasons
        <5> QED
          BY <2>3, <3>2, <5>1, RevokedInFacts
      <4>2. /\ Reasoned(S)
            /\ \A s \in DOMAIN sessions : S[s] = sessions[s] \/ S[s].reason = "rotated"
        BY <2>3, <3>2, ReasonGiven
      <4>3. "" # Evicting /\ "rotated" # Evicting
        BY DEF Evicting
      <4> QED
        BY <4>1, <4>2, <4>3 DEF Shrunk, Same, Reasoned
    <3> QED
      BY <2>2, <3>1, <3>2
  <2>5. /\ Reasoned(sessions')
        /\ \A s, r \in DOMAIN sessions \cap DOMAIN sessions' :
             /\ S[s].reason # Evicting /\ sessions'[s].reason = Evicting
             /\ S[r].user = S[s].user
             /\ sessions'[r].revokedAt = Never /\ sessions'[r].expiresAt > now
             /\ sessions'[r].lastUsedAt + IdleTimeout > now
             => S[s].lastUsedAt <= S[r].lastUsedAt
    <3> DEFINE D == DOMAIN sessions
               T == WithIssued(S, issued + 1, u, fam, old)
    <3>1. /\ Reasoned(T)
          /\ \A s, r \in D \cap DOMAIN T :
               /\ S[s].reason # Evicting /\ T[s].reason = Evicting
               /\ S[r].user = S[s].user
               /\ T[r].revokedAt = Never /\ T[r].expiresAt > now
               /\ T[r].lastUsedAt + IdleTimeout > now
               => S[s].lastUsedAt <= S[r].lastUsedAt
      BY <2>2, <2>3, <2>4, IssueEvicts
    <3>2. sessions' = T
      BY <2>2
    <3> HIDE DEF T
    <3> QED
      BY <3>1, <3>2
  <2>6. ASSUME NEW s \in DOMAIN sessions \cap DOMAIN sessions',
               NEW r \in DOMAIN sessions \cap DOMAIN sessions',
               Usable(s), sessions'[s].reason = Evicting, Usable(r)',
               sessions[s].user = sessions[r].user
        PROVE  sessions[s].lastUsedAt <= sessions[r].lastUsedAt
    <3>1. /\ sessions[s].revokedAt = Never
          /\ sessions'[r].revokedAt = Never /\ sessions'[r].expiresAt > now
          /\ sessions'[r].lastUsedAt + IdleTimeout > now
      BY <2>2, <2>6, UsableFacts, UsableAfter
    <3>2. S[s].reason # Evicting /\ S[r].user = S[s].user
      BY <2>4, <2>6, <3>1
    <3>3. S[s].lastUsedAt <= S[r].lastUsedAt
      BY <2>5, <2>6, <3>1, <3>2
    <3> QED
      BY <2>4, <3>3
  <2> QED
    BY <2>5, <2>6 DEF OldestEvicted, Evicting
<1> QED
  BY <1>1, <1>2

(* The bound evicts the least recently used: no step evicts a session and leaves usable one of
   the same user that was last used before it (sessions.service.ts, enforceConcurrencyLimit). *)
THEOREM EvictionIsFair == Spec => EvictsLeastRecentlyUsed
<1> DEFINE Inv == TypeOK /\ Reasoned(sessions)
<1>1. Init => Reasoned(sessions)
  BY DEF Init, Reasoned
<1>2. Inv /\ TypeOK' /\ [Next]_vars => Reasoned(sessions)'
  BY EvictionStep DEF Reasoned
<1>3. Inv /\ TypeOK' /\ [Next]_vars => [OldestEvicted]_vars
  BY EvictionStep
<1> QED
  BY <1>1, <1>2, <1>3, TypeCorrect, PTL DEF Spec, EvictsLeastRecentlyUsed, OldestEvicted

=============================================================================
