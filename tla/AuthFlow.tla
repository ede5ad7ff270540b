------------------------------ MODULE AuthFlow ------------------------------
(***************************************************************************)
(* AuthService over AccountsService, LoginAttemptsService and the session  *)
(* store of module Sessions: registration, sign-in with its per-account    *)
(* lockout, switching of workspace, password change and the seeding of the *)
(* demo account.                                                           *)
(*                                                                         *)
(* Argon2 is awaited between most checks and the writes they guard, so a   *)
(* request is a sequence of steps, and other requests run between any two. *)
(* An access token is the session it names: the guard of a request that    *)
(* needs one finds the session usable and touches it.  Nothing in the code *)
(* ever suspends or deletes an account, or changes its memberships, and    *)
(* those are left out with the profile fields and the rules for passwords, *)
(* which the passwords of the model are taken to satisfy.                  *)
(***************************************************************************)
EXTENDS Sessions

CONSTANTS
  Emails,
  Passwords,
  DemoUser, DemoEmail, DemoPassword,
  Callers,           \* bound: requests under way at one time
  MaxFailed,         \* AUTH_MAX_FAILED_LOGINS
  LockFor,           \* AUTH_LOCKOUT_MINUTES
  Window,            \* windowMs: when an unfinished run of failures is forgiven
  MaxChanges         \* bound: password changes of one account

ASSUME AuthAssumption ==
  /\ DemoUser \in Users /\ DemoEmail \in Emails /\ DemoPassword \in Passwords
  /\ MaxFailed \in Nat \ {0}
  /\ LockFor \in Nat \ {0}
  /\ Window \in Nat
  /\ MaxChanges \in Nat
  /\ IsFiniteSet(Callers)

VARIABLES
  accounts,     \* user -> account
  emailIndex,   \* email -> user
  seeding,      \* how far ensureSeeded has come
  attempts,     \* email -> the record of its failed sign-ins
  requests,     \* caller -> the request it waits for
  opened        \* history: family -> the password changes its account had seen, those that had
                \* ended, and those its opener's credentials had seen

authVars == <<accounts, emailIndex, seeding, attempts, requests, opened>>
allVars  == <<vars, authVars>>

\* changes and ended are history: how often a new password has been written, and how often the
\* revocation that goes with it has run.
Account == [email : Emails, password : Passwords, changes : 0 .. MaxChanges, ended : Nat]

AttemptRecord == [failed : Nat \ {0}, first : Time, lockedUntil : Nat]

Steps == {"seed", "lookup", "verify", "compare", "hash", "open", "revoke"}

\* ok holds the answer a request waits for from Argon2; under is history: the password changes
\* its credentials had seen.  Fields a request has no use for, or no more, are at their default.
Request ==
  [kind : {"login", "register", "change", "switch"}, step : Steps, email : Emails,
   user : Users, password : Passwords, next : Passwords, ok : BOOLEAN, under : 0 .. MaxChanges]

NoRequest(kind) ==
  [kind |-> kind, step |-> "lookup", email |-> DemoEmail, user |-> DemoUser,
   password |-> DemoPassword, next |-> DemoPassword, ok |-> FALSE, under |-> 0]

Opening == [at : 0 .. MaxChanges, ended : Nat, knew : 0 .. MaxChanges]

AuthTypeOK ==
  /\ TypeOK
  /\ DOMAIN accounts \subseteq Users
  /\ accounts \in [DOMAIN accounts -> Account]
  /\ DOMAIN emailIndex \subseteq Emails
  /\ emailIndex \in [DOMAIN emailIndex -> DOMAIN accounts]
  /\ seeding \in {"no", "hashing", "done"}
  /\ DOMAIN attempts \subseteq Emails
  /\ attempts \in [DOMAIN attempts -> AttemptRecord]
  /\ DOMAIN requests \subseteq Callers
  /\ requests \in [DOMAIN requests -> Request]
  /\ DOMAIN opened \subseteq 1 .. issued
  /\ opened \in [DOMAIN opened -> Opening]

AuthInit ==
  /\ Init
  /\ accounts = [u \in {} |-> NoAnswer]
  /\ emailIndex = [e \in {} |-> DemoUser]
  /\ seeding = "no"
  /\ attempts = [e \in {} |-> NoAnswer]
  /\ requests = [c \in {} |-> NoAnswer]
  /\ opened = [f \in {} |-> NoAnswer]

\* f with its value at x replaced, or added.
Put(f, x, v) == [y \in DOMAIN f \cup {x} |-> IF y = x THEN v ELSE f[y]]

-----------------------------------------------------------------------------
(* LoginAttemptsService.                                                   *)

Locked(e) == e \in DOMAIN attempts /\ attempts[e].lockedUntil > now

\* A record that status() drops: its lock is over, or it never locked and its window is.
Lapsed(r) == IF r.lockedUntil # 0 THEN r.lockedUntil <= now ELSE now - r.first > Window

\* status(): what it leaves of the attempts.
StatusRead(e) ==
  attempts' = IF e \in DOMAIN attempts /\ Lapsed(attempts[e])
              THEN Without(attempts, {e}) ELSE attempts

\* The record after one more failure; a lock is set anew by each failure past the maximum.
FailedOnce(e) ==
  LET known == e \in DOMAIN attempts /\ now - attempts[e].first <= Window
      old   == IF known THEN attempts[e] ELSE [failed |-> 0, first |-> now, lockedUntil |-> 0]
  IN [old EXCEPT !.failed = @ + 1,
                 !.lockedUntil = IF old.failed + 1 >= MaxFailed THEN now + LockFor ELSE @]

RecordFailure(e) == attempts' = Put(attempts, e, FailedOnce(e))

RecordSuccess(e) == attempts' = Without(attempts, {e})

-----------------------------------------------------------------------------
(* A request starts, waits and ends.                                       *)

\* ensureSeeded() makes the first caller wait for the demo account's hash; it sets its flag
\* before that, and later callers go on at once, with the account still missing.
Start(c, r) ==
  /\ c \notin DOMAIN requests
  /\ seeding' = IF seeding = "no" THEN "hashing" ELSE seeding
  /\ requests' = Put(requests, c, [r EXCEPT !.step = IF seeding = "no" THEN "seed" ELSE "lookup"])

At(c, kind, step) ==
  c \in DOMAIN requests /\ requests[c].kind = kind /\ requests[c].step = step

Continue(c, r) == requests' = [requests EXCEPT ![c] = r]

End(c) == requests' = Without(requests, {c})

\* The demo account is there, whoever has taken its address meanwhile.
Seeded(c) ==
  /\ c \in DOMAIN requests
  /\ requests[c].step = "seed"
  /\ seeding' = "done"
  /\ accounts' = Put(accounts, DemoUser,
                     [email |-> DemoEmail, password |-> DemoPassword, changes |-> 0, ended |-> 0])
  /\ emailIndex' = Put(emailIndex, DemoEmail, DemoUser)
  /\ Continue(c, [requests[c] EXCEPT !.step = "lookup"])
  /\ UNCHANGED <<vars, attempts, opened>>

\* completeSignIn(): a session with a family of its own.  knew is what the opener had seen.
OpenSession(u, knew) ==
  /\ Issue(u)
  /\ opened' = Put(opened, issued + 1,
                   [at |-> accounts[u].changes, ended |-> accounts[u].ended, knew |-> knew])

-----------------------------------------------------------------------------
(* login().                                                                *)

\* Mutant: the lock is read and not heeded.
LoginStart_NoLock(c, e, pw) ==
  /\ Start(c, [NoRequest("login") EXCEPT !.email = e, !.password = pw])
  /\ StatusRead(e)
  /\ UNCHANGED <<vars, accounts, emailIndex, opened>>

LoginStart(c, e, pw) ==
  /\ ~Locked(e)
  /\ Start(c, [NoRequest("login") EXCEPT !.email = e, !.password = pw])
  /\ StatusRead(e)
  /\ UNCHANGED <<vars, accounts, emailIndex, opened>>

\* findByEmail(), and the verification against the password of this moment; an unknown address
\* is verified against a decoy.
LoginLookup(c) ==
  /\ At(c, "login", "lookup")
  /\ LET r == requests[c]
     IN IF r.email \in DOMAIN emailIndex
        THEN LET u == emailIndex[r.email]
             IN Continue(c, [r EXCEPT !.step = "verify", !.user = u, !.password = DemoPassword,
                                      !.ok = (r.password = accounts[u].password),
                                      !.under = accounts[u].changes])
        ELSE Continue(c, [r EXCEPT !.step = "verify", !.password = DemoPassword])
  /\ UNCHANGED <<vars, accounts, emailIndex, seeding, attempts, opened>>

LoginFails(c) ==
  /\ At(c, "login", "verify")
  /\ ~requests[c].ok
  /\ RecordFailure(requests[c].email)
  /\ End(c)
  /\ UNCHANGED <<vars, accounts, emailIndex, seeding, opened>>

\* The password was right, but the caller named a workspace the account is no member of: the
\* call fails before it counts or clears anything.
LoginElsewhere(c) ==
  /\ At(c, "login", "verify")
  /\ requests[c].ok
  /\ End(c)
  /\ UNCHANGED <<vars, accounts, emailIndex, seeding, attempts, opened>>

LoginSucceeds(c) ==
  /\ At(c, "login", "verify")
  /\ requests[c].ok
  /\ RecordSuccess(requests[c].email)
  /\ OpenSession(requests[c].user, requests[c].under)
  /\ End(c)
  /\ UNCHANGED <<accounts, emailIndex, seeding>>

-----------------------------------------------------------------------------
(* register().                                                             *)

RegisterStart(c, e, pw) ==
  /\ Start(c, [NoRequest("register") EXCEPT !.email = e, !.password = pw])
  /\ UNCHANGED <<vars, accounts, emailIndex, attempts, opened>>

\* The address is looked up, and the password hashed if it is free.
RegisterCheck(c) ==
  /\ At(c, "register", "lookup")
  /\ IF requests[c].email \in DOMAIN emailIndex
     THEN End(c)
     ELSE Continue(c, [requests[c] EXCEPT !.step = "hash"])
  /\ UNCHANGED <<vars, accounts, emailIndex, seeding, attempts, opened>>

\* The account is written under a new id, and the address given to it.
RegisterWrite(c, u) ==
  /\ At(c, "register", "hash")
  /\ u \notin DOMAIN accounts \cup {DemoUser}
  /\ LET r == requests[c]
     IN /\ accounts' = Put(accounts, u, [email |-> r.email, password |-> r.password,
                                          changes |-> 0, ended |-> 0])
        /\ emailIndex' = Put(emailIndex, r.email, u)
        /\ Continue(c, [r EXCEPT !.step = "open", !.user = u, !.password = DemoPassword])
  /\ UNCHANGED <<vars, seeding, attempts, opened>>

RegisterOpens(c) ==
  /\ At(c, "register", "open")
  /\ OpenSession(requests[c].user, requests[c].under)
  /\ End(c)
  /\ UNCHANGED <<accounts, emailIndex, seeding, attempts>>

-----------------------------------------------------------------------------
(* The requests of a signed-in user.                                       *)

\* What the guard asks of the session behind the access token, and the credentials it stands
\* for: those of the sign-in that opened its family.
Principal(s) == Usable(s) /\ sessions[s].family \in DOMAIN opened

ChangeStart(c, s, pw, new) ==
  /\ Principal(s)
  /\ Start(c, [NoRequest("change") EXCEPT !.user = sessions[s].user, !.password = pw,
                                           !.next = new])
  /\ Touch(s)
  /\ UNCHANGED <<accounts, emailIndex, attempts, opened>>

\* The current password is verified.
ChangeLookup(c) ==
  /\ At(c, "change", "lookup")
  /\ LET r == requests[c]
     IN Continue(c, [r EXCEPT !.step = "verify", !.password = DemoPassword,
                              !.ok = (r.password = accounts[r.user].password)])
  /\ UNCHANGED <<vars, accounts, emailIndex, seeding, attempts, opened>>

\* If it is right, the new one is compared with the one in force by now.
ChangeVerified(c) ==
  /\ At(c, "change", "verify")
  /\ LET r == requests[c]
     IN IF r.ok THEN Continue(c, [r EXCEPT !.step = "compare",
                                           !.ok = (r.next # accounts[r.user].password)])
                ELSE End(c)
  /\ UNCHANGED <<vars, accounts, emailIndex, seeding, attempts, opened>>

\* If it is different it is hashed and written; nothing is compared again.
ChangeWrite(c) ==
  /\ At(c, "change", "compare")
  /\ requests[c].ok
  /\ LET r == requests[c]
     IN /\ accounts[r.user].changes < MaxChanges
        /\ accounts' = [accounts EXCEPT ![r.user].password = r.next,
                                        ![r.user].changes = @ + 1]
        /\ Continue(c, [NoRequest("change") EXCEPT !.step = "revoke", !.user = r.user])
  /\ UNCHANGED <<vars, emailIndex, seeding, attempts, opened>>

ChangeRefused(c) ==
  /\ At(c, "change", "compare")
  /\ ~requests[c].ok
  /\ End(c)
  /\ UNCHANGED <<vars, accounts, emailIndex, seeding, attempts, opened>>

\* Mutant: only the sessions opened before the new password was written are revoked.
ChangeRevokes_Earlier(c) ==
  /\ At(c, "change", "revoke")
  /\ LET u == requests[c].user
     IN /\ sessions' = RevokedIn(sessions, {s \in DOMAIN sessions :
                                             /\ sessions[s].user = u
                                             /\ opened[sessions[s].family].at < accounts[u].changes},
                                 "revoked")
        /\ accounts' = [accounts EXCEPT ![u].ended = @ + 1]
  /\ answer' = NoAnswer
  /\ End(c)
  /\ UNCHANGED <<now, issued, recentRotations, reused, emailIndex, seeding, attempts, opened>>

\* "Rotating credentials must invalidate every outstanding session."
ChangeRevokes(c) ==
  /\ At(c, "change", "revoke")
  /\ RevokeAllForUser(requests[c].user, 0)
  /\ accounts' = [accounts EXCEPT ![requests[c].user].ended = @ + 1]
  /\ End(c)
  /\ UNCHANGED <<emailIndex, seeding, attempts, opened>>

SwitchStart(c, s) ==
  /\ Principal(s)
  /\ Start(c, [NoRequest("switch") EXCEPT !.user = sessions[s].user,
                                           !.under = opened[sessions[s].family].knew])
  /\ Touch(s)
  /\ UNCHANGED <<accounts, emailIndex, attempts, opened>>

\* A session for the other workspace; the one the request came with is left as it is.
SwitchOpens(c) ==
  /\ At(c, "switch", "lookup")
  /\ OpenSession(requests[c].user, requests[c].under)
  /\ End(c)
  /\ UNCHANGED <<accounts, emailIndex, seeding, attempts>>

\* refresh(), logout() and revokeSession(), listSessions(), the guard of any other request, and
\* the clock.  The account of a session that was rotated is always found.
SessionStep ==
  /\ \/ \E t \in Tokens : Rotate(t) \/ Revoke(t) \/ Touch(t)
     \/ ListForUser
     \/ Tick
  /\ UNCHANGED authVars

-----------------------------------------------------------------------------

RequestStep(c) ==
  \/ Seeded(c)
  \/ LoginLookup(c) \/ LoginFails(c) \/ LoginElsewhere(c) \/ LoginSucceeds(c)
  \/ RegisterCheck(c) \/ (\E u \in Users : RegisterWrite(c, u)) \/ RegisterOpens(c)
  \/ ChangeLookup(c) \/ ChangeVerified(c) \/ ChangeWrite(c) \/ ChangeRefused(c)
  \/ ChangeRevokes(c)
  \/ SwitchOpens(c)

AuthNext ==
  \/ \E c \in Callers : RequestStep(c)
  \/ \E c \in Callers, e \in Emails, pw \in Passwords :
       LoginStart(c, e, pw) \/ RegisterStart(c, e, pw)
  \/ \E c \in Callers, s \in Ids :
       SwitchStart(c, s) \/ \E pw, new \in Passwords : ChangeStart(c, s, pw, new)
  \/ SessionStep

AuthSpec == AuthInit /\ [][AuthNext]_allVars

-----------------------------------------------------------------------------
(* Properties.                                                             *)

Changing(u) ==
  \E c \in DOMAIN requests : requests[c].step = "revoke" /\ requests[c].user = u

(***************************************************************************)
(* A password change ends what was open.  No session is left unrevoked of  *)
(* a family opened before a revocation that has run: neither one a         *)
(* rotation or a replay handed on, nor one opened between the write of the *)
(* new hash and the revocation, nor one whose opener overlapped with a     *)
(* second change.  And unless a revocation is still to come, none of a     *)
(* family opened before the hash was written                               *)
(* (auth.service.ts:255-262, accounts.service.ts:169).                     *)
(***************************************************************************)
ChangeEndsSessions ==
  \A s \in DOMAIN sessions :
    LET u == sessions[s].user
        o == opened[sessions[s].family]
    IN sessions[s].revokedAt = Never =>
         /\ o.ended = accounts[u].ended
         /\ Changing(u) \/ o.at = accounts[u].changes

\* The sign-ins under way for an address.
Guessing(e) == {c \in DOMAIN requests : requests[c].kind = "login" /\ requests[c].email = e}

(***************************************************************************)
(* The lockout bounds the guesses at one address however many sign-ins run *)
(* at once: failures on record, and guesses still being verified, stay     *)
(* below AUTH_MAX_FAILED_LOGINS plus the requests that can be under way    *)
(* (login-attempts.service.ts:63-82, auth.service.ts:112-144).             *)
(***************************************************************************)
GuessesBounded ==
  \A e \in DOMAIN attempts :
    attempts[e].failed + Cardinality(Guessing(e)) < MaxFailed + Cardinality(Callers)

-----------------------------------------------------------------------------
(* What the documents say.                                                 *)

(***************************************************************************)
(* authz-rbac.md:126 says that password rotation "signs out every device". *)
(* A sign-in verified with the old password while the change was under way *)
(* opens its session afterwards.                                           *)
(***************************************************************************)
OldPasswordSignedOut ==
  \A s \in DOMAIN sessions :
    LET u == sessions[s].user
    IN Usable(s) /\ ~Changing(u) => opened[sessions[s].family].knew = accounts[u].changes
=============================================================================
