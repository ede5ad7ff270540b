--------------------------- MODULE AuthFlowProofs ---------------------------
(***************************************************************************)
(* Theorems about AuthFlow, for all users, addresses and passwords, any    *)
(* number of requests under way and every value of the bounds.  Accounts   *)
(* only reach the session store through its own operations, so that what   *)
(* is proved of the store holds of it under sign-in; and a password change *)
(* ends the sessions there were.                                           *)
(***************************************************************************)
EXTENDS AuthFlow, SessionsProofs, FiniteSetTheorems

\* What a session needs of its account and its family, and what is to be shown of it.
StoreInv ==
  /\ \A s \in DOMAIN sessions :
       sessions[s].user \in DOMAIN accounts /\ sessions[s].family \in DOMAIN opened
  /\ ChangeEndsSessions

\* The requests whose user is an account.
NamesAccount(r) ==
  \/ r.kind \in {"change", "switch"}
  \/ r.step = "open"
  \/ r.kind = "login" /\ r.ok

RequestsInv ==
  \A c \in DOMAIN requests : NamesAccount(requests[c]) => requests[c].user \in DOMAIN accounts

\* One request seeds the demo account, which is not there before that.
SeedInv ==
  /\ seeding # "done" => DemoUser \notin DOMAIN accounts
  /\ \A c \in DOMAIN requests : requests[c].step = "seed" => seeding = "hashing"
  /\ \A c, d \in DOMAIN requests :
       requests[c].step = "seed" /\ requests[d].step = "seed" => c = d

AuthInv == AuthTypeOK /\ StoreInv /\ RequestsInv /\ SeedInv

\* u's new password is written, and its sessions are still to be revoked.
ChangingIn(R, u) == \E c \in DOMAIN R : R[c].step = "revoke" /\ R[c].user = u

\* All requests but that of c wait as they did.
Others(c) ==
  /\ requests' = [d \in DOMAIN requests' |-> requests'[d]]
  /\ DOMAIN requests' \subseteq Callers
  /\ DOMAIN requests' \ {c} = DOMAIN requests \ {c}
  /\ \A d \in DOMAIN requests \ {c} : requests'[d] = requests[d]

-----------------------------------------------------------------------------
(* The requests.                                                           *)

LEMMA BlankRequest ==
  ASSUME NEW kind \in {"login", "register", "change", "switch"}
  PROVE  NoRequest(kind) \in Request /\ NoRequest(kind).kind = kind
<1>1. 0 \in 0 .. MaxChanges
  BY AuthAssumption
<1> QED
  BY <1>1, AuthAssumption DEF NoRequest, Request, Steps

LEMMA PutType ==
  ASSUME NEW f, NEW R, f \in [DOMAIN f -> R], NEW x, NEW v \in R
  PROVE  Put(f, x, v) \in [DOMAIN f \cup {x} -> R]
  BY DEF Put

LEMMA StartFacts ==
  ASSUME AuthTypeOK, NEW c \in Callers, NEW r \in Request, Start(c, r)
  PROVE  /\ Others(c) /\ c \notin DOMAIN requests /\ DOMAIN requests' = DOMAIN requests \cup {c}
         /\ requests'[c] \in Request
         /\ requests'[c].kind = r.kind /\ requests'[c].user = r.user /\ requests'[c].ok = r.ok
         /\ requests'[c].step = (IF seeding = "no" THEN "seed" ELSE "lookup")
         /\ seeding' = (IF seeding = "no" THEN "hashing" ELSE seeding)
<1> DEFINE q == [r EXCEPT !.step = IF seeding = "no" THEN "seed" ELSE "lookup"]
<1>1. q \in Request /\ q.kind = r.kind /\ q.user = r.user /\ q.ok = r.ok
      /\ q.step = (IF seeding = "no" THEN "seed" ELSE "lookup")
  BY DEF Request, Steps
<1>2. requests' = Put(requests, c, q) /\ c \notin DOMAIN requests
  BY DEF Start
<1> HIDE DEF q
<1>3. DOMAIN requests \subseteq Callers
  BY DEF AuthTypeOK
<1>4. /\ DOMAIN requests' = DOMAIN requests \cup {c}
      /\ requests'[c] = q
      /\ \A d \in DOMAIN requests \ {c} : requests'[d] = requests[d]
      /\ requests' = [d \in DOMAIN requests' |-> requests'[d]]
  BY <1>2 DEF Put
<1> QED
  BY <1>1, <1>2, <1>3, <1>4 DEF Others, Start

LEMMA ContinueFacts ==
  ASSUME AuthTypeOK, NEW c \in DOMAIN requests, NEW r, Continue(c, r)
  PROVE  Others(c) /\ DOMAIN requests' = DOMAIN requests /\ requests'[c] = r
  BY DEF Continue, Others, AuthTypeOK

LEMMA EndFacts ==
  ASSUME AuthTypeOK, NEW c \in DOMAIN requests, End(c)
  PROVE  Others(c) /\ DOMAIN requests' = DOMAIN requests \ {c}
  BY DEF End, Without, Others, AuthTypeOK

LEMMA ChangingKept ==
  ASSUME NEW c, Others(c), c \in DOMAIN requests => requests[c].step # "revoke",
         NEW u, ChangingIn(requests, u)
  PROVE  ChangingIn(requests', u)
<1>1. PICK d \in DOMAIN requests : requests[d].step = "revoke" /\ requests[d].user = u
  BY DEF ChangingIn
<1>2. d \in DOMAIN requests' /\ requests'[d] = requests[d]
  BY <1>1 DEF Others
<1> QED
  BY <1>1, <1>2 DEF ChangingIn

LEMMA RequestsKept ==
  ASSUME RequestsInv, NEW c, Others(c), DOMAIN accounts \subseteq DOMAIN accounts',
         c \in DOMAIN requests' /\ NamesAccount(requests'[c])
           => requests'[c].user \in DOMAIN accounts'
  PROVE  RequestsInv'
<1> SUFFICES ASSUME NEW d \in DOMAIN requests', NamesAccount(requests'[d])
             PROVE  requests'[d].user \in DOMAIN accounts'
  BY DEF RequestsInv, NamesAccount
<1>1. CASE d = c
  BY <1>1
<1>2. CASE d # c
  BY <1>2 DEF Others, RequestsInv
<1> QED
  BY <1>1, <1>2

LEMMA SeedKept ==
  ASSUME SeedInv, NEW c, Others(c), UNCHANGED seeding,
         seeding # "done" => DemoUser \notin DOMAIN accounts',
         c \in DOMAIN requests' => requests'[c].step # "seed"
  PROVE  SeedInv'
<1>1. \A d \in DOMAIN requests' : requests'[d].step = "seed" =>
        d \in DOMAIN requests /\ requests[d].step = "seed"
  BY DEF Others
<1> QED
  BY <1>1 DEF SeedInv

LEMMA RequestsTyped ==
  ASSUME AuthTypeOK, NEW c, Others(c), c \in DOMAIN requests' => requests'[c] \in Request
  PROVE  DOMAIN requests' \subseteq Callers /\ requests' \in [DOMAIN requests' -> Request]
<1>1. \A d \in DOMAIN requests' : requests'[d] \in Request
  BY DEF Others, AuthTypeOK
<1> QED
  BY <1>1 DEF Others

-----------------------------------------------------------------------------
(* The sessions.                                                           *)

\* What ChangeEndsSessions asks of family f of user u.
Stands(O, A, R, f, u) ==
  /\ O[f].ended = A[u].ended
  /\ ChangingIn(R, u) \/ O[f].at = A[u].changes

\* ChangeEndsSessions, before and after a step.
LEMMA EndsNow ==
  ChangeEndsSessions <=>
    \A s \in DOMAIN sessions :
      sessions[s].revokedAt = Never
        => Stands(opened, accounts, requests, sessions[s].family, sessions[s].user)
  BY DEF ChangeEndsSessions, Changing, ChangingIn, Stands

LEMMA EndsAfter ==
  ChangeEndsSessions' <=>
    \A s \in DOMAIN sessions' :
      sessions'[s].revokedAt = Never
        => Stands(opened', accounts', requests', sessions'[s].family, sessions'[s].user)
  BY DEF ChangeEndsSessions, Changing, ChangingIn, Stands

\* A step that opens nothing: an account is as it was, or its change is under way.
LEMMA StoreKept ==
  ASSUME StoreInv, NoneIssued, UNCHANGED opened, DOMAIN accounts \subseteq DOMAIN accounts',
         \A u \in DOMAIN accounts :
           /\ accounts'[u].ended = accounts[u].ended
           /\ \/ ChangingIn(requests', u)
              \/ accounts'[u].changes = accounts[u].changes /\ ~ChangingIn(requests, u)
  PROVE  StoreInv'
<1>1. \A s \in DOMAIN sessions' :
        /\ s \in DOMAIN sessions
        /\ sessions'[s].user = sessions[s].user /\ sessions'[s].family = sessions[s].family
        /\ sessions'[s].revokedAt = Never => sessions[s].revokedAt = Never
  BY DEF NoneIssued, Same
<1>2. \A s \in DOMAIN sessions' :
        sessions'[s].user \in DOMAIN accounts' /\ sessions'[s].family \in DOMAIN opened'
  BY <1>1 DEF StoreInv
<1>3. ASSUME NEW s \in DOMAIN sessions', sessions'[s].revokedAt = Never
      PROVE  Stands(opened', accounts', requests', sessions'[s].family, sessions'[s].user)
  <2> DEFINE u == sessions[s].user
  <2>1. s \in DOMAIN sessions /\ sessions[s].revokedAt = Never /\ u \in DOMAIN accounts
    BY <1>1, <1>3 DEF StoreInv
  <2>2. Stands(opened, accounts, requests, sessions[s].family, u)
    BY <2>1, EndsNow DEF StoreInv
  <2> QED
    BY <1>1, <2>1, <2>2 DEF Stands
<1>4. ChangeEndsSessions'
  BY <1>3, EndsAfter
<1> QED
  BY <1>2, <1>4 DEF StoreInv

\* A rotation hands on the family of a session that was not revoked.
LEMMA StoreRotated ==
  ASSUME AuthTypeOK, StoreInv, NEW t, Usable(t), UNCHANGED authVars,
         OneIssued(sessions[t].user, sessions[t].family, t)
  PROVE  StoreInv'
<1>1. t \in DOMAIN sessions /\ sessions[t].revokedAt = Never
  BY UsableFacts DEF AuthTypeOK
<1>2. requests' = requests
  BY DEF authVars
<1>3. \A s \in DOMAIN sessions' : \E r \in DOMAIN sessions :
        /\ sessions'[s].user = sessions[r].user /\ sessions'[s].family = sessions[r].family
        /\ sessions'[s].revokedAt = Never => sessions[r].revokedAt = Never
  <2> SUFFICES ASSUME NEW s \in DOMAIN sessions'
               PROVE  \E r \in DOMAIN sessions :
                 /\ sessions'[s].user = sessions[r].user /\ sessions'[s].family = sessions[r].family
                 /\ sessions'[s].revokedAt = Never => sessions[r].revokedAt = Never
    OBVIOUS
  <2>1. CASE s = issued + 1
    BY <1>1, <2>1 DEF OneIssued, Grown, IsNew
  <2>2. CASE s # issued + 1
    BY <2>2 DEF OneIssued, Grown, Same
  <2> QED
    BY <2>1, <2>2
<1>4. accounts' = accounts /\ opened' = opened
  BY DEF authVars
<1>5. \A s \in DOMAIN sessions' :
        sessions'[s].user \in DOMAIN accounts' /\ sessions'[s].family \in DOMAIN opened'
  BY <1>3, <1>4 DEF StoreInv
<1>6. ASSUME NEW s \in DOMAIN sessions', sessions'[s].revokedAt = Never
      PROVE  Stands(opened', accounts', requests', sessions'[s].family, sessions'[s].user)
  <2>1. PICK r \in DOMAIN sessions :
          /\ sessions'[s].user = sessions[r].user /\ sessions'[s].family = sessions[r].family
          /\ sessions'[s].revokedAt = Never => sessions[r].revokedAt = Never
    BY <1>3
  <2>2. Stands(opened, accounts, requests, sessions[r].family, sessions[r].user)
    BY <1>6, <2>1, EndsNow DEF StoreInv
  <2> QED
    BY <1>2, <1>4, <2>1, <2>2
<1>7. ChangeEndsSessions'
  BY <1>6, EndsAfter
<1> QED
  BY <1>5, <1>7 DEF StoreInv

LEMMA OpenFacts ==
  ASSUME AuthTypeOK, NEW u \in Users, NEW knew \in 0 .. MaxChanges, u \in DOMAIN accounts,
         OpenSession(u, knew)
  PROVE  /\ TypeOK' /\ OneIssued(u, issued + 1, 0) /\ issued \in Nat
         /\ DOMAIN opened' = DOMAIN opened \cup {issued + 1}
         /\ opened'[issued + 1].at = accounts[u].changes
         /\ opened'[issued + 1].ended = accounts[u].ended
         /\ \A f \in DOMAIN opened : opened'[f] = opened[f]
         /\ DOMAIN opened' \subseteq 1 .. issued'
         /\ opened' \in [DOMAIN opened' -> Opening]
<1> DEFINE o == [at |-> accounts[u].changes, ended |-> accounts[u].ended, knew |-> knew]
<1>1. TypeOK /\ Issue(u) /\ opened' = Put(opened, issued + 1, o)
  BY DEF AuthTypeOK, OpenSession
<1>2. TypeOK' /\ OneIssued(u, issued + 1, 0)
  BY <1>1, IssueStep
<1>3. issued \in Nat /\ issued' = issued + 1 /\ DOMAIN opened \subseteq 1 .. issued
  BY <1>1 DEF TypeOK, AuthTypeOK, Issue
<1>4. accounts[u] \in Account
  BY DEF AuthTypeOK
<1>5. o \in Opening /\ o.at = accounts[u].changes /\ o.ended = accounts[u].ended
  BY <1>4 DEF Account, Opening
<1>6. opened \in [DOMAIN opened -> Opening]
  BY DEF AuthTypeOK
<1> HIDE DEF o
<1>7. /\ DOMAIN opened' = DOMAIN opened \cup {issued + 1}
      /\ opened'[issued + 1] = o
      /\ \A f \in DOMAIN opened \ {issued + 1} : opened'[f] = opened[f]
  BY <1>1 DEF Put
<1>8. opened' \in [DOMAIN opened' -> Opening]
  BY <1>1, <1>5, <1>6, <1>7, PutType
<1>9. issued + 1 \notin DOMAIN opened /\ DOMAIN opened' \subseteq 1 .. issued'
  BY <1>3, <1>7
<1> QED
  BY <1>2, <1>3, <1>5, <1>7, <1>8, <1>9

\* A session opened with the account as it stands.
LEMMA StoreOpened ==
  ASSUME AuthTypeOK, StoreInv, NEW u \in Users, NEW knew \in 0 .. MaxChanges,
         u \in DOMAIN accounts, OpenSession(u, knew), UNCHANGED accounts,
         \A v : ChangingIn(requests, v) => ChangingIn(requests', v)
  PROVE  StoreInv'
<1>1. /\ OneIssued(u, issued + 1, 0) /\ issued \in Nat
      /\ DOMAIN opened' = DOMAIN opened \cup {issued + 1}
      /\ opened'[issued + 1].at = accounts[u].changes
      /\ opened'[issued + 1].ended = accounts[u].ended
      /\ \A f \in DOMAIN opened : opened'[f] = opened[f]
  BY OpenFacts
<1>2. /\ issued + 1 \in DOMAIN sessions'
      /\ sessions'[issued + 1].user = u /\ sessions'[issued + 1].family = issued + 1
      /\ \A s \in DOMAIN sessions' \ {issued + 1} :
           /\ s \in DOMAIN sessions
           /\ sessions'[s].user = sessions[s].user /\ sessions'[s].family = sessions[s].family
           /\ sessions'[s].revokedAt = Never => sessions[s].revokedAt = Never
  BY <1>1 DEF OneIssued, Grown, IsNew, Same
<1>3. \A s \in DOMAIN sessions' :
        sessions'[s].user \in DOMAIN accounts' /\ sessions'[s].family \in DOMAIN opened'
  BY <1>1, <1>2 DEF StoreInv
<1>4. ASSUME NEW s \in DOMAIN sessions', sessions'[s].revokedAt = Never
      PROVE  Stands(opened', accounts', requests', sessions'[s].family, sessions'[s].user)
  <2>1. CASE s = issued + 1
    BY <1>1, <1>2, <2>1 DEF Stands
  <2>2. CASE s # issued + 1
    <3>1. /\ s \in DOMAIN sessions /\ sessions[s].revokedAt = Never
          /\ sessions'[s].user = sessions[s].user /\ sessions'[s].family = sessions[s].family
      BY <1>2, <1>4, <2>2
    <3>2. Stands(opened, accounts, requests, sessions[s].family, sessions[s].user)
      BY <3>1, EndsNow DEF StoreInv
    <3>3. sessions[s].family \in DOMAIN opened
      BY <3>1 DEF StoreInv
    <3> QED
      BY <1>1, <3>1, <3>2, <3>3 DEF Stands
  <2> QED
    BY <2>1, <2>2
<1>5. ChangeEndsSessions'
  BY <1>4, EndsAfter
<1> QED
  BY <1>3, <1>5 DEF StoreInv

-----------------------------------------------------------------------------
(* The steps.                                                              *)

AttemptsTyped ==
  DOMAIN attempts \subseteq Emails /\ attempts \in [DOMAIN attempts -> AttemptRecord]

\* A step of request c that leaves accounts and families alone and opens nothing.
Frame ==
  /\ TypeOK' /\ NoneIssued /\ AttemptsTyped'
  /\ UNCHANGED <<accounts, emailIndex, opened>>

LEMMA FrameTyped ==
  ASSUME AuthTypeOK, Frame, NEW c, Others(c), c \in DOMAIN requests' => requests'[c] \in Request,
         seeding' \in {"no", "hashing", "done"}
  PROVE  AuthTypeOK'
<1>1. DOMAIN requests' \subseteq Callers /\ requests' \in [DOMAIN requests' -> Request]
  BY RequestsTyped
<1> QED
  BY <1>1 DEF AuthTypeOK, Frame, NoneIssued, AttemptsTyped

\* Steps of a request that has passed the seeding and is not at its revocation.
LEMMA PlainStep ==
  ASSUME AuthInv, Frame, NEW c, Others(c), UNCHANGED seeding,
         c \in DOMAIN requests => requests[c].step # "revoke",
         c \in DOMAIN requests' =>
           /\ requests'[c] \in Request
           /\ requests'[c].step # "seed"
           /\ NamesAccount(requests'[c]) => requests'[c].user \in DOMAIN accounts
  PROVE  AuthInv'
<1>1. AuthTypeOK'
  BY FrameTyped DEF AuthInv, AuthTypeOK
<1>2. \A u : ~ChangingIn(requests', u) => ~ChangingIn(requests, u)
  BY ChangingKept
<1>3. StoreInv'
  BY <1>2, StoreKept DEF AuthInv, Frame
<1>4. RequestsInv'
  BY RequestsKept DEF AuthInv, Frame
<1>5. SeedInv'
  BY SeedKept DEF AuthInv, SeedInv, Frame
<1> QED
  BY <1>1, <1>3, <1>4, <1>5 DEF AuthInv

LEMMA StartStep ==
  ASSUME AuthInv, Frame, NEW c \in Callers, NEW r \in Request, Start(c, r),
         NamesAccount(r) => r.user \in DOMAIN accounts, r.step # "open"
  PROVE  AuthInv'
<1>1. /\ Others(c) /\ c \notin DOMAIN requests /\ DOMAIN requests' = DOMAIN requests \cup {c}
      /\ requests'[c] \in Request
      /\ requests'[c].kind = r.kind /\ requests'[c].user = r.user /\ requests'[c].ok = r.ok
      /\ requests'[c].step = (IF seeding = "no" THEN "seed" ELSE "lookup")
      /\ seeding' = (IF seeding = "no" THEN "hashing" ELSE seeding)
  BY StartFacts DEF AuthInv
<1>2. AuthTypeOK'
  BY <1>1, FrameTyped DEF AuthInv, AuthTypeOK
<1>3. \A u : ~ChangingIn(requests', u) => ~ChangingIn(requests, u)
  BY <1>1, ChangingKept
<1>4. StoreInv'
  BY <1>3, StoreKept DEF AuthInv, Frame
<1>5. NamesAccount(requests'[c]) => requests'[c].user \in DOMAIN accounts
  BY <1>1 DEF NamesAccount
<1>6. RequestsInv'
  BY <1>1, <1>5, RequestsKept DEF AuthInv, Frame
<1>7. SeedInv'
  <2>1. \A d \in DOMAIN requests' \ {c} : d \in DOMAIN requests /\ requests'[d] = requests[d]
    BY <1>1 DEF Others
  <2>2. CASE seeding = "no"
    <3>1. \A d \in DOMAIN requests' : requests'[d].step = "seed" => d = c
      BY <2>1, <2>2 DEF AuthInv, SeedInv
    <3> QED
      BY <1>1, <2>2, <3>1 DEF AuthInv, SeedInv, Frame
  <2>3. CASE seeding # "no"
    <3>1. \A d \in DOMAIN requests' :
            requests'[d].step = "seed" => d \in DOMAIN requests /\ requests[d].step = "seed"
      BY <1>1, <2>1, <2>3
    <3> QED
      BY <1>1, <2>3, <3>1 DEF AuthInv, SeedInv, Frame
  <2> QED
    BY <2>2, <2>3
<1> QED
  BY <1>2, <1>4, <1>6, <1>7 DEF AuthInv

\* An account that was not there is written, and its address given to it.
LEMMA AccountAdded ==
  ASSUME AuthTypeOK, NEW u \in Users \ DOMAIN accounts, NEW e \in Emails, NEW a \in Account,
         accounts' = Put(accounts, u, a), emailIndex' = Put(emailIndex, e, u),
         UNCHANGED <<vars, attempts, opened>>, seeding' \in {"no", "hashing", "done"},
         NEW c, Others(c), c \in DOMAIN requests' => requests'[c] \in Request
  PROVE  /\ AuthTypeOK' /\ NoneIssued
         /\ DOMAIN accounts' = DOMAIN accounts \cup {u}
         /\ \A v \in DOMAIN accounts : accounts'[v] = accounts[v]
<1>1. DOMAIN accounts' = DOMAIN accounts \cup {u}
  BY DEF Put
<1>2. \A v \in DOMAIN accounts : accounts'[v] = accounts[v]
  BY DEF Put
<1>3. accounts' \in [DOMAIN accounts' -> Account]
  BY <1>1, PutType DEF AuthTypeOK
<1>4. DOMAIN emailIndex' = DOMAIN emailIndex \cup {e}
  BY DEF Put
<1>5. emailIndex' \in [DOMAIN emailIndex' -> DOMAIN accounts']
  <2>1. emailIndex \in [DOMAIN emailIndex -> DOMAIN accounts']
    BY <1>1 DEF AuthTypeOK
  <2> QED
    BY <1>1, <1>4, <2>1, PutType
<1>6. DOMAIN requests' \subseteq Callers /\ requests' \in [DOMAIN requests' -> Request]
  BY RequestsTyped
<1>7. TypeOK' /\ NoneIssued
  BY StutterStep DEF AuthTypeOK
<1>8. issued' = issued
  BY DEF vars
<1>9. DOMAIN accounts' \subseteq Users /\ DOMAIN emailIndex' \subseteq Emails
  BY <1>1, <1>4 DEF AuthTypeOK
<1> QED
  BY <1>1, <1>2, <1>3, <1>5, <1>6, <1>7, <1>8, <1>9 DEF AuthTypeOK

LEMMA SeededStep ==
  ASSUME AuthInv, NEW c, Seeded(c)
  PROVE  AuthInv'
<1> DEFINE q == [requests[c] EXCEPT !.step = "lookup"]
           a == [email |-> DemoEmail, password |-> DemoPassword, changes |-> 0, ended |-> 0]
<1>1. c \in DOMAIN requests /\ requests[c] \in Request /\ requests[c].step = "seed"
  BY DEF Seeded, AuthInv, AuthTypeOK
<1>2. q \in Request /\ q.kind = requests[c].kind /\ q.user = requests[c].user /\ q.step = "lookup"
      /\ q.ok = requests[c].ok
  BY <1>1 DEF Request, Steps
<1>3. Others(c) /\ DOMAIN requests' = DOMAIN requests /\ requests'[c] = q
  BY <1>1, ContinueFacts DEF Seeded, AuthInv
<1>4. a \in Account
  BY AuthAssumption DEF Account
<1> HIDE DEF q, a
<1>5. seeding = "hashing" /\ DemoUser \notin DOMAIN accounts
  BY <1>1 DEF AuthInv, SeedInv
<1>6. /\ accounts' = Put(accounts, DemoUser, a) /\ emailIndex' = Put(emailIndex, DemoEmail, DemoUser)
      /\ UNCHANGED <<vars, attempts, opened>> /\ seeding' = "done"
  BY DEF Seeded, a
<1>7. /\ AuthTypeOK' /\ NoneIssued /\ DOMAIN accounts \subseteq DOMAIN accounts'
      /\ \A v \in DOMAIN accounts : accounts'[v] = accounts[v]
  BY <1>2, <1>3, <1>4, <1>5, <1>6, AuthAssumption, AccountAdded DEF AuthInv
<1>8. \A u : ~ChangingIn(requests', u) => ~ChangingIn(requests, u)
  BY <1>1, <1>3, ChangingKept
<1>9. StoreInv'
  BY <1>6, <1>7, <1>8, StoreKept DEF AuthInv
<1>10. NamesAccount(q) => q.user \in DOMAIN accounts'
  BY <1>1, <1>2, <1>7 DEF NamesAccount, AuthInv, RequestsInv
<1>11. RequestsInv'
  BY <1>3, <1>7, <1>10, RequestsKept DEF AuthInv
<1>12. \A d \in DOMAIN requests' : requests'[d].step # "seed"
  BY <1>1, <1>2, <1>3 DEF Others, AuthInv, SeedInv
<1>13. SeedInv'
  BY <1>6, <1>12 DEF SeedInv
<1> QED
  BY <1>7, <1>9, <1>11, <1>13 DEF AuthInv

LEMMA RegisterWriteStep ==
  ASSUME AuthInv, NEW c, NEW u \in Users, RegisterWrite(c, u)
  PROVE  AuthInv'
<1> DEFINE r == requests[c]
           q == [r EXCEPT !.step = "open", !.user = u, !.password = DemoPassword]
           a == [email |-> r.email, password |-> r.password, changes |-> 0, ended |-> 0]
<1>1. c \in DOMAIN requests /\ r \in Request /\ r.step = "hash" /\ r.kind = "register"
      /\ u \notin DOMAIN accounts /\ u # DemoUser
  BY DEF RegisterWrite, At, AuthInv, AuthTypeOK
<1>2. q \in Request /\ q.user = u /\ q.step = "open" /\ q.kind = "register"
  BY <1>1, AuthAssumption DEF Request, Steps
<1>3. a \in Account /\ r.email \in Emails
  BY <1>1, AuthAssumption DEF Account, Request
<1>4. Others(c) /\ DOMAIN requests' = DOMAIN requests /\ requests'[c] = q
  BY <1>1, ContinueFacts DEF RegisterWrite, AuthInv
<1>5. /\ accounts' = Put(accounts, u, a) /\ emailIndex' = Put(emailIndex, r.email, u)
      /\ UNCHANGED <<vars, attempts, opened, seeding>>
  BY DEF RegisterWrite
<1> HIDE DEF q, a
<1>6. seeding' \in {"no", "hashing", "done"}
  BY <1>5 DEF AuthInv, AuthTypeOK
<1>7. /\ AuthTypeOK' /\ NoneIssued /\ DOMAIN accounts' = DOMAIN accounts \cup {u}
      /\ \A v \in DOMAIN accounts : accounts'[v] = accounts[v]
  BY <1>1, <1>2, <1>3, <1>4, <1>5, <1>6, AccountAdded DEF AuthInv
<1>8. \A v : ~ChangingIn(requests', v) => ~ChangingIn(requests, v)
  BY <1>1, <1>4, ChangingKept
<1>9. StoreInv'
  BY <1>5, <1>7, <1>8, StoreKept DEF AuthInv
<1>10. RequestsInv'
  BY <1>2, <1>4, <1>7, RequestsKept DEF AuthInv
<1>11. SeedInv'
  BY <1>1, <1>2, <1>4, <1>5, <1>7, SeedKept DEF AuthInv, SeedInv
<1> QED
  BY <1>7, <1>9, <1>10, <1>11 DEF AuthInv

LEMMA ChangeWriteStep ==
  ASSUME AuthInv, NEW c, ChangeWrite(c)
  PROVE  AuthInv'
<1> DEFINE r == requests[c]
           u == r.user
           q == [NoRequest("change") EXCEPT !.step = "revoke", !.user = u]
<1>1. c \in DOMAIN requests /\ r \in Request /\ r.step = "compare" /\ r.kind = "change"
  BY DEF ChangeWrite, At, AuthInv, AuthTypeOK
<1>2. u \in DOMAIN accounts /\ u \in Users /\ accounts[u] \in Account /\ r.next \in Passwords
  BY <1>1 DEF AuthInv, AuthTypeOK, RequestsInv, NamesAccount, Request
<1>3. q \in Request /\ q.user = u /\ q.step = "revoke" /\ q.kind = "change"
  <2>1. PICK n : n = NoRequest("change")
    OBVIOUS
  <2>2. n \in Request /\ n.kind = "change"
    BY <2>1, BlankRequest
  <2>3. q = [n EXCEPT !.step = "revoke", !.user = u]
    BY <2>1
  <2> QED
    BY <1>2, <2>2, <2>3 DEF Request, Steps
<1>4. Others(c) /\ DOMAIN requests' = DOMAIN requests /\ requests'[c] = q
  BY <1>1, ContinueFacts DEF ChangeWrite, AuthInv
<1>5. /\ accounts[u].changes < MaxChanges
      /\ accounts' = [accounts EXCEPT ![u].password = r.next, ![u].changes = @ + 1]
      /\ UNCHANGED <<vars, emailIndex, attempts, opened, seeding>>
  BY DEF ChangeWrite
<1> HIDE DEF q
<1>6. /\ DOMAIN accounts' = DOMAIN accounts
      /\ \A v \in DOMAIN accounts \ {u} : accounts'[v] = accounts[v]
      /\ accounts'[u].ended = accounts[u].ended
      /\ accounts' \in [DOMAIN accounts' -> Account]
  <2>1. accounts[u].changes + 1 \in 0 .. MaxChanges
    BY <1>2, <1>5, AuthAssumption DEF Account
  <2>2. accounts \in [DOMAIN accounts -> Account]
    BY DEF AuthInv, AuthTypeOK
  <2> QED
    BY <1>2, <1>5, <2>1, <2>2 DEF Account
<1>7. TypeOK' /\ NoneIssued /\ issued' = issued
  BY <1>5, StutterStep DEF AuthInv, AuthTypeOK, vars
<1>8. DOMAIN requests' \subseteq Callers /\ requests' \in [DOMAIN requests' -> Request]
  BY <1>3, <1>4, RequestsTyped DEF AuthInv
<1>9. AuthTypeOK'
  BY <1>5, <1>6, <1>7, <1>8 DEF AuthInv, AuthTypeOK
<1>10. \A v : ~ChangingIn(requests', v) => ~ChangingIn(requests, v)
  BY <1>1, <1>4, ChangingKept
<1>11. ChangingIn(requests', u)
  BY <1>1, <1>3, <1>4 DEF ChangingIn
<1>12. StoreInv'
  BY <1>5, <1>6, <1>7, <1>10, <1>11, StoreKept DEF AuthInv
<1>13. RequestsInv'
  BY <1>2, <1>3, <1>4, <1>6, RequestsKept DEF AuthInv
<1>14. SeedInv'
  BY <1>3, <1>4, <1>5, <1>6, SeedKept DEF AuthInv, SeedInv
<1> QED
  BY <1>9, <1>12, <1>13, <1>14 DEF AuthInv

\* The one step that ends a change: every session of the user is revoked by it.
LEMMA ChangeRevokesStep ==
  ASSUME AuthInv, NEW c, ChangeRevokes(c)
  PROVE  AuthInv'
<1> DEFINE u   == requests[c].user
           ids == {s \in DOMAIN sessions : sessions[s].user = u} \ {0}
<1>1. c \in DOMAIN requests /\ requests[c].step = "revoke"
  BY DEF ChangeRevokes, At
<1>2. Others(c) /\ DOMAIN requests' = DOMAIN requests \ {c}
  BY <1>1, EndFacts DEF ChangeRevokes, AuthInv
<1>3. /\ sessions' = RevokedIn(sessions, ids, "revoked") /\ answer' = NoAnswer
      /\ UNCHANGED <<now, issued, recentRotations, reused>>
      /\ accounts' = [accounts EXCEPT ![u].ended = @ + 1]
      /\ UNCHANGED <<emailIndex, seeding, attempts, opened>>
  BY DEF ChangeRevokes, RevokeAllForUser
<1>a. /\ DOMAIN accounts' = DOMAIN accounts
      /\ accounts' \in [DOMAIN accounts' -> Account]
      /\ \A v \in DOMAIN accounts \ {u} : accounts'[v] = accounts[v]
  <2>1. accounts \in [DOMAIN accounts -> Account] /\ u \in DOMAIN accounts
    BY <1>1 DEF ChangeRevokes, At, AuthInv, AuthTypeOK, RequestsInv, NamesAccount
  <2>2. [accounts[u] EXCEPT !.ended = @ + 1] \in Account
    BY <2>1 DEF Account
  <2> QED
    BY <1>3, <2>1, <2>2
<1>4. TypeOK' /\ NoneIssued
  BY <1>3, RevokeStep DEF AuthInv, AuthTypeOK
<1>5. DOMAIN requests' \subseteq Callers /\ requests' \in [DOMAIN requests' -> Request]
  BY <1>2, RequestsTyped DEF AuthInv
<1>6. AuthTypeOK'
  BY <1>3, <1>4, <1>5, <1>a DEF AuthInv, AuthTypeOK
<1>7. \A s \in DOMAIN sessions' : sessions'[s].revokedAt = Never => sessions[s].user # u
  <2>1. /\ sessions \in [DOMAIN sessions -> Session] /\ "revoked" \in Reasons /\ now \in Time
        /\ 0 \notin DOMAIN sessions
    BY SessionsAssumption DEF AuthInv, AuthTypeOK, TypeOK, Reasons
  <2>2. \A s \in DOMAIN sessions : sessions'[s].revokedAt =
          (IF s \in ids /\ sessions[s].revokedAt = Never THEN now ELSE sessions[s].revokedAt)
    BY <1>3, <2>1, RevokedInFacts
  <2>3. now # Never
    BY <2>1 DEF Time, Never
  <2> QED
    BY <1>4, <2>1, <2>2, <2>3 DEF NoneIssued
<1>8. ASSUME NEW v, v # u, ChangingIn(requests, v)
      PROVE  ChangingIn(requests', v)
  <2>1. PICK d \in DOMAIN requests : requests[d].step = "revoke" /\ requests[d].user = v
    BY <1>8 DEF ChangingIn
  <2>2. d \in DOMAIN requests' /\ requests'[d] = requests[d]
    BY <1>2, <1>8, <2>1 DEF Others
  <2> QED
    BY <2>1, <2>2 DEF ChangingIn
<1>9. ASSUME NEW s \in DOMAIN sessions', sessions'[s].revokedAt = Never
      PROVE  Stands(opened', accounts', requests', sessions'[s].family, sessions'[s].user)
  <2>1. /\ s \in DOMAIN sessions /\ sessions[s].revokedAt = Never
        /\ sessions'[s].user = sessions[s].user /\ sessions'[s].family = sessions[s].family
    BY <1>4, <1>9 DEF NoneIssued, Same
  <2>2. Stands(opened, accounts, requests, sessions[s].family, sessions[s].user)
    BY <2>1, EndsNow DEF AuthInv, StoreInv
  <2>3. sessions[s].user \in DOMAIN accounts \ {u}
    BY <1>7, <1>9, <2>1 DEF AuthInv, StoreInv
  <2> QED
    BY <1>3, <1>8, <1>a, <2>1, <2>2, <2>3 DEF Stands
<1>10. \A s \in DOMAIN sessions' :
         sessions'[s].user \in DOMAIN accounts' /\ sessions'[s].family \in DOMAIN opened'
  BY <1>3, <1>4, <1>a DEF AuthInv, StoreInv, NoneIssued, Same
<1>11. StoreInv'
  BY <1>9, <1>10, EndsAfter DEF StoreInv
<1>12. RequestsInv'
  BY <1>2, <1>a, RequestsKept DEF AuthInv
<1>13. SeedInv'
  BY <1>2, <1>3, <1>a, SeedKept DEF AuthInv, SeedInv
<1> QED
  BY <1>6, <1>11, <1>12, <1>13 DEF AuthInv

\* A request that ends by opening a session.
LEMMA OpenStep ==
  ASSUME AuthInv, NEW c \in DOMAIN requests, requests[c].step # "revoke",
         NamesAccount(requests[c]), OpenSession(requests[c].user, requests[c].under), End(c),
         AttemptsTyped', UNCHANGED <<accounts, emailIndex, seeding>>
  PROVE  AuthInv'
<1> DEFINE u    == requests[c].user
           knew == requests[c].under
<1>1. u \in DOMAIN accounts /\ u \in Users /\ knew \in 0 .. MaxChanges
  BY DEF AuthInv, AuthTypeOK, RequestsInv, Request
<1>2. Others(c) /\ DOMAIN requests' = DOMAIN requests \ {c}
  BY EndFacts DEF AuthInv
<1>3. OpenSession(u, knew)
  OBVIOUS
<1> HIDE DEF u, knew
<1>4. /\ TypeOK' /\ DOMAIN opened' \subseteq 1 .. issued'
      /\ opened' \in [DOMAIN opened' -> Opening]
  BY <1>1, <1>3, OpenFacts DEF AuthInv
<1>5. DOMAIN requests' \subseteq Callers /\ requests' \in [DOMAIN requests' -> Request]
  BY <1>2, RequestsTyped DEF AuthInv
<1>6. AuthTypeOK'
  BY <1>4, <1>5 DEF AuthInv, AuthTypeOK, AttemptsTyped
<1>7. \A v : ChangingIn(requests, v) => ChangingIn(requests', v)
  BY <1>2, ChangingKept
<1>8. StoreInv'
  BY <1>1, <1>3, <1>7, StoreOpened DEF AuthInv
<1>9. RequestsInv'
  BY <1>2, RequestsKept DEF AuthInv
<1>10. SeedInv'
  BY <1>2, SeedKept DEF AuthInv, SeedInv
<1> QED
  BY <1>6, <1>8, <1>9, <1>10 DEF AuthInv

LEMMA SessionStepKept ==
  ASSUME AuthInv, SessionStep
  PROVE  AuthInv'
<1>1. UNCHANGED <<accounts, emailIndex, seeding, attempts, requests, opened>>
  BY DEF SessionStep, authVars
<1>2. TypeOK
  BY DEF AuthInv, AuthTypeOK
<1>3. TypeOK' /\ issued' >= issued /\ StoreInv'
  <2>1. ASSUME TypeOK', NoneIssued
        PROVE  TypeOK' /\ issued' >= issued /\ StoreInv'
    <3>1. issued' >= issued
      BY <1>2, <2>1 DEF NoneIssued, TypeOK
    <3> QED
      BY <1>1, <2>1, <3>1, StoreKept DEF AuthInv
  <2>2. ASSUME NEW t \in Tokens, Rotate(t), ~RotateUsable(t)
        PROVE  TypeOK' /\ NoneIssued
    BY <1>2, <2>2, RotateReplayStep, RotateUnknownStep, RotateReusedStep, RotateLapsedStep DEF Rotate
  <2>3. ASSUME NEW t \in Tokens, RotateUsable(t)
        PROVE  TypeOK' /\ issued' >= issued /\ StoreInv'
    <3>1. OneIssued(sessions[t].user, sessions[t].family, t) /\ TypeOK' /\ Usable(t)
      BY <1>2, <2>3, RotateUsableStep DEF RotateUsable
    <3>2. issued' >= issued
      BY <1>2, <3>1 DEF OneIssued, TypeOK
    <3>3. UNCHANGED authVars
      BY DEF SessionStep
    <3> QED
      BY <3>1, <3>2, <3>3, StoreRotated DEF AuthInv
  <2>4. ASSUME NEW t \in Tokens, Revoke(t)
        PROVE  TypeOK' /\ NoneIssued
    BY <1>2, <2>4, RevokeStep DEF Revoke
  <2> QED
    BY <1>2, <2>1, <2>2, <2>3, <2>4, TouchStep, ListStep, TickStep DEF SessionStep
<1>4. AuthTypeOK'
  BY <1>1, <1>3 DEF AuthInv, AuthTypeOK, TypeOK
<1>5. RequestsInv' /\ SeedInv'
  BY <1>1 DEF AuthInv, RequestsInv, SeedInv, NamesAccount
<1> QED
  BY <1>3, <1>4, <1>5 DEF AuthInv

-----------------------------------------------------------------------------
(* The attempts.                                                           *)

LEMMA StatusTyped ==
  ASSUME AttemptsTyped, NEW e, StatusRead(e)
  PROVE  AttemptsTyped'
  BY DEF AttemptsTyped, StatusRead, Without

LEMMA FailureTyped ==
  ASSUME AuthTypeOK, NEW e \in Emails, RecordFailure(e)
  PROVE  AttemptsTyped' /\ FailedOnce(e) \in AttemptRecord
<1> DEFINE known == e \in DOMAIN attempts /\ now - attempts[e].first <= Window
           old   == IF known THEN attempts[e] ELSE [failed |-> 0, first |-> now, lockedUntil |-> 0]
<1>1. now \in Time /\ now \in Nat
  BY SessionsAssumption DEF AuthTypeOK, TypeOK, Time
<1>2. old \in [failed : Nat, first : Time, lockedUntil : Nat]
  BY <1>1 DEF AuthTypeOK, AttemptRecord
<1>3. FailedOnce(e) = [old EXCEPT !.failed = @ + 1,
        !.lockedUntil = IF old.failed + 1 >= MaxFailed THEN now + LockFor ELSE @]
  BY DEF FailedOnce
<1> HIDE DEF old
<1>4. FailedOnce(e) \in AttemptRecord
  <2>1. PICK l : l = IF old.failed + 1 >= MaxFailed THEN now + LockFor ELSE old.lockedUntil
    OBVIOUS
  <2>2. l \in Nat /\ old.failed + 1 \in Nat \ {0}
    BY <1>1, <1>2, <2>1, AuthAssumption
  <2>3. FailedOnce(e) = [old EXCEPT !.failed = old.failed + 1, !.lockedUntil = l]
    BY <1>2, <1>3, <2>1
  <2> QED
    BY <1>2, <2>2, <2>3 DEF AttemptRecord
<1>5. attempts' = Put(attempts, e, FailedOnce(e))
  BY DEF RecordFailure
<1>6. attempts' \in [DOMAIN attempts \cup {e} -> AttemptRecord]
  BY <1>4, <1>5, PutType DEF AuthTypeOK
<1> QED
  BY <1>4, <1>6 DEF AttemptsTyped, AuthTypeOK

LEMMA SuccessTyped ==
  ASSUME AttemptsTyped, NEW e, RecordSuccess(e)
  PROVE  AttemptsTyped'
  BY DEF AttemptsTyped, RecordSuccess, Without

-----------------------------------------------------------------------------
(* Every step.                                                             *)

\* What a step that touches neither the store nor the accounts leaves for PlainStep.
LEMMA Untouched ==
  ASSUME AuthInv, UNCHANGED <<vars, accounts, emailIndex, opened>>, AttemptsTyped'
  PROVE  Frame
  BY StutterStep DEF Frame, AuthInv, AuthTypeOK

LEMMA EndingStep ==
  ASSUME AuthInv, NEW c \in DOMAIN requests, requests[c].step # "revoke", End(c),
         UNCHANGED <<vars, accounts, emailIndex, seeding, opened>>, AttemptsTyped'
  PROVE  AuthInv'
<1>1. Others(c) /\ c \notin DOMAIN requests'
  BY EndFacts DEF AuthInv
<1>2. Frame
  BY Untouched
<1> QED
  BY <1>1, <1>2, PlainStep

LEMMA ContinuingStep ==
  ASSUME AuthInv, NEW c \in DOMAIN requests, requests[c].step # "revoke",
         NEW r \in Request, Continue(c, r), r.step # "seed",
         NamesAccount(r) => r.user \in DOMAIN accounts,
         UNCHANGED <<vars, accounts, emailIndex, seeding, attempts, opened>>
  PROVE  AuthInv'
<1>1. Others(c) /\ requests'[c] = r
  BY ContinueFacts DEF AuthInv
<1>2. AttemptsTyped'
  BY DEF AttemptsTyped, AuthInv, AuthTypeOK
<1>3. Frame
  BY <1>2, Untouched
<1> QED
  BY <1>1, <1>3, PlainStep

LEMMA LoginSteps ==
  ASSUME AuthInv, NEW c,
         LoginLookup(c) \/ LoginFails(c) \/ LoginElsewhere(c) \/ LoginSucceeds(c)
  PROVE  AuthInv'
<1> DEFINE r == requests[c]
<1>1. c \in DOMAIN requests /\ r \in Request /\ r.kind = "login" /\ r.step \in {"lookup", "verify"}
  BY DEF LoginLookup, LoginFails, LoginElsewhere, LoginSucceeds, At, AuthInv, AuthTypeOK
<1>2. AttemptsTyped /\ r.email \in Emails
  BY <1>1 DEF AttemptsTyped, AuthInv, AuthTypeOK, Request
<1>3. CASE LoginLookup(c)
  <2> DEFINE u == emailIndex[r.email]
  <2>1. CASE r.email \in DOMAIN emailIndex
    <3> DEFINE q == [r EXCEPT !.step = "verify", !.user = u, !.password = DemoPassword,
                              !.ok = (r.password = accounts[u].password),
                              !.under = accounts[u].changes]
    <3>1. u \in DOMAIN accounts /\ u \in Users /\ accounts[u].changes \in 0 .. MaxChanges
      BY <2>1 DEF AuthInv, AuthTypeOK, Account
    <3>2. PICK b \in BOOLEAN : b = (r.password = accounts[u].password)
      OBVIOUS
    <3>3. q \in Request /\ q.step = "verify" /\ q.user = u
      <4>1. q = [r EXCEPT !.step = "verify", !.user = u, !.password = DemoPassword,
                          !.ok = b, !.under = accounts[u].changes]
        BY <3>2
      <4> HIDE DEF q, r, u
      <4> QED
        BY <1>1, <3>1, <4>1, AuthAssumption DEF Request, Steps
    <3>4. Continue(c, q)
      BY <1>3, <2>1 DEF LoginLookup
    <3> HIDE DEF q
    <3> QED
      BY <1>1, <1>3, <3>1, <3>3, <3>4, ContinuingStep DEF LoginLookup
  <2>2. CASE r.email \notin DOMAIN emailIndex
    <3> DEFINE q == [r EXCEPT !.step = "verify", !.password = DemoPassword]
    <3>1. q \in Request /\ q.step = "verify" /\ q.kind = "login" /\ q.ok = r.ok /\ q.user = r.user
      BY <1>1, AuthAssumption DEF Request, Steps
    <3>2. Continue(c, q)
      BY <1>3, <2>2 DEF LoginLookup
    <3> HIDE DEF q
    <3>3. NamesAccount(q) => q.user \in DOMAIN accounts
      BY <1>1, <3>1 DEF NamesAccount, AuthInv, RequestsInv
    <3> QED
      BY <1>1, <1>3, <3>1, <3>2, <3>3, ContinuingStep DEF LoginLookup
  <2> QED
    BY <2>1, <2>2
<1>4. CASE LoginFails(c)
  BY <1>1, <1>2, <1>4, FailureTyped, EndingStep DEF LoginFails, AuthInv
<1>5. CASE LoginElsewhere(c)
  <2>1. AttemptsTyped'
    BY <1>2, <1>5 DEF AttemptsTyped, LoginElsewhere
  <2> QED
    BY <1>1, <1>5, <2>1, EndingStep DEF LoginElsewhere
<1>6. CASE LoginSucceeds(c)
  <2>1. AttemptsTyped'
    BY <1>2, <1>6, SuccessTyped DEF LoginSucceeds
  <2>2. NamesAccount(r)
    BY <1>1, <1>6 DEF LoginSucceeds, At, NamesAccount
  <2> QED
    BY <1>1, <1>6, <2>1, <2>2, OpenStep DEF LoginSucceeds
<1> QED
  BY <1>3, <1>4, <1>5, <1>6

LEMMA RegisterSteps ==
  ASSUME AuthInv, NEW c, RegisterCheck(c) \/ RegisterOpens(c)
  PROVE  AuthInv'
<1> DEFINE r == requests[c]
<1>1. c \in DOMAIN requests /\ r \in Request /\ r.kind = "register" /\ r.step \in {"lookup", "open"}
  BY DEF RegisterCheck, RegisterOpens, At, AuthInv, AuthTypeOK
<1>2. attempts' = attempts => AttemptsTyped'
  BY DEF AttemptsTyped, AuthInv, AuthTypeOK
<1>3. CASE RegisterCheck(c)
  <2> DEFINE q == [r EXCEPT !.step = "hash"]
  <2>1. q \in Request /\ q.step = "hash" /\ q.kind = "register"
    BY <1>1 DEF Request, Steps
  <2>2. ~NamesAccount(q)
    BY <2>1 DEF NamesAccount
  <2>3. CASE r.email \in DOMAIN emailIndex
    BY <1>1, <1>2, <1>3, <2>3, EndingStep DEF RegisterCheck
  <2>4. CASE r.email \notin DOMAIN emailIndex
    <3>1. Continue(c, q)
      BY <1>3, <2>4 DEF RegisterCheck
    <3> HIDE DEF q
    <3> QED
      BY <1>1, <1>3, <2>1, <2>2, <3>1, ContinuingStep DEF RegisterCheck
  <2> QED
    BY <2>3, <2>4
<1>4. CASE RegisterOpens(c)
  <2>1. NamesAccount(r)
    BY <1>4 DEF RegisterOpens, At, NamesAccount
  <2> QED
    BY <1>1, <1>2, <1>4, <2>1, OpenStep DEF RegisterOpens
<1> QED
  BY <1>3, <1>4

LEMMA ChangeSteps ==
  ASSUME AuthInv, NEW c,
         ChangeLookup(c) \/ ChangeVerified(c) \/ ChangeRefused(c) \/ SwitchOpens(c)
  PROVE  AuthInv'
<1> DEFINE r == requests[c]
<1>1. /\ c \in DOMAIN requests /\ r \in Request /\ r.kind \in {"change", "switch"}
      /\ r.step \in {"lookup", "verify", "compare"}
  BY DEF ChangeLookup, ChangeVerified, ChangeRefused, SwitchOpens, At, AuthInv, AuthTypeOK
<1>2. attempts' = attempts => AttemptsTyped'
  BY DEF AttemptsTyped, AuthInv, AuthTypeOK
<1>3. r.user \in DOMAIN accounts /\ NamesAccount(r)
  BY <1>1 DEF NamesAccount, AuthInv, RequestsInv
<1>4. CASE ChangeLookup(c)
  <2>1. PICK b \in BOOLEAN : b = (r.password = accounts[r.user].password)
    OBVIOUS
  <2> DEFINE q == [r EXCEPT !.step = "verify", !.password = DemoPassword, !.ok = b]
  <2>2. q \in Request /\ q.step = "verify" /\ q.user = r.user
    BY <1>1, <2>1, AuthAssumption DEF Request, Steps
  <2>3. Continue(c, q)
    BY <1>4, <2>1 DEF ChangeLookup
  <2> HIDE DEF q
  <2> QED
    BY <1>1, <1>3, <1>4, <2>2, <2>3, ContinuingStep DEF ChangeLookup
<1>5. CASE ChangeVerified(c)
  <2>1. PICK b \in BOOLEAN : b = (r.next # accounts[r.user].password)
    OBVIOUS
  <2> DEFINE q == [r EXCEPT !.step = "compare", !.ok = b]
  <2>2. q \in Request /\ q.step = "compare" /\ q.user = r.user
    BY <1>1, <2>1 DEF Request, Steps
  <2>3. CASE r.ok
    <3>1. Continue(c, q)
      BY <1>5, <2>1, <2>3 DEF ChangeVerified
    <3> HIDE DEF q
    <3> QED
      BY <1>1, <1>3, <1>5, <2>2, <3>1, ContinuingStep DEF ChangeVerified
  <2>4. CASE ~r.ok
    BY <1>1, <1>2, <1>5, <2>4, EndingStep DEF ChangeVerified
  <2> QED
    BY <2>3, <2>4
<1>6. CASE ChangeRefused(c)
  BY <1>1, <1>2, <1>6, EndingStep DEF ChangeRefused
<1>7. CASE SwitchOpens(c)
  BY <1>1, <1>2, <1>3, <1>7, OpenStep DEF SwitchOpens
<1> QED
  BY <1>4, <1>5, <1>6, <1>7

LEMMA AnonymousStarts ==
  ASSUME AuthInv, NEW c \in Callers, NEW e \in Emails, NEW pw \in Passwords,
         LoginStart(c, e, pw) \/ RegisterStart(c, e, pw)
  PROVE  AuthInv'
<1>1. AttemptsTyped
  BY DEF AttemptsTyped, AuthInv, AuthTypeOK
<1>2. AttemptsTyped'
  <2>1. CASE LoginStart(c, e, pw)
    BY <1>1, <2>1, StatusTyped DEF LoginStart
  <2>2. CASE RegisterStart(c, e, pw)
    BY <1>1, <2>2 DEF RegisterStart, AttemptsTyped
  <2> QED
    BY <2>1, <2>2
<1>3. Frame
  BY <1>2, Untouched DEF LoginStart, RegisterStart
<1>4. ASSUME NEW kind \in {"login", "register"},
             Start(c, [NoRequest(kind) EXCEPT !.email = e, !.password = pw])
      PROVE  AuthInv'
  <2> DEFINE n == NoRequest(kind)
             r == [n EXCEPT !.email = e, !.password = pw]
  <2>1. n \in Request /\ n.kind = kind /\ ~n.ok /\ n.step = "lookup"
    BY BlankRequest DEF NoRequest
  <2> HIDE DEF n
  <2>2. r \in Request /\ r.kind = kind /\ ~r.ok /\ r.step = "lookup"
    BY <2>1 DEF Request
  <2>3. Start(c, r)
    BY <1>4 DEF n
  <2> HIDE DEF r
  <2> QED
    BY <1>3, <2>2, <2>3, StartStep DEF NamesAccount
<1> QED
  BY <1>4 DEF LoginStart, RegisterStart

\* The account of the session behind an access token is there.
LEMMA SignedInStarts ==
  ASSUME AuthInv, NEW c \in Callers, NEW s \in Ids,
         SwitchStart(c, s) \/ \E pw, new \in Passwords : ChangeStart(c, s, pw, new)
  PROVE  AuthInv'
<1>1. AttemptsTyped'
  BY DEF AttemptsTyped, AuthInv, AuthTypeOK, SwitchStart, ChangeStart
<1>2. TypeOK /\ s \in DOMAIN sessions /\ sessions[s].family \in DOMAIN opened
  BY UsableFacts DEF AuthInv, AuthTypeOK, SwitchStart, ChangeStart, Principal
<1>3. s \in Tokens
  BY <1>2 DEF TypeOK, Tokens
<1>4. sessions[s].user \in DOMAIN accounts /\ sessions[s].user \in Users
  BY <1>2 DEF AuthInv, StoreInv, AuthTypeOK
<1>5. Frame
  BY <1>1, <1>2, <1>3, TouchStep DEF Frame, SwitchStart, ChangeStart
<1> DEFINE u == sessions[s].user
<1>6. CASE SwitchStart(c, s)
  <2> DEFINE n == NoRequest("switch")
             k == opened[sessions[s].family].knew
             r == [n EXCEPT !.user = u, !.under = k]
  <2>1. n \in Request /\ n.kind = "switch" /\ n.step = "lookup"
    BY BlankRequest DEF NoRequest
  <2>2. k \in 0 .. MaxChanges
    BY <1>2 DEF AuthInv, AuthTypeOK, Opening
  <2>3. Start(c, [n EXCEPT !.user = u, !.under = k])
    BY <1>6 DEF SwitchStart
  <2> HIDE DEF n, k, u
  <2>4. r \in Request /\ r.user = u /\ r.step = "lookup"
    BY <1>4, <2>1, <2>2 DEF Request, u
  <2>5. Start(c, r)
    BY <2>3
  <2> HIDE DEF r
  <2> QED
    BY <1>4, <1>5, <2>4, <2>5, StartStep DEF u
<1>7. ASSUME NEW pw \in Passwords, NEW new \in Passwords, ChangeStart(c, s, pw, new)
      PROVE  AuthInv'
  <2> DEFINE n == NoRequest("change")
             r == [n EXCEPT !.user = u, !.password = pw, !.next = new]
  <2>1. n \in Request /\ n.kind = "change" /\ n.step = "lookup"
    BY BlankRequest DEF NoRequest
  <2>2. Start(c, [n EXCEPT !.user = u, !.password = pw, !.next = new])
    BY <1>7 DEF ChangeStart
  <2> HIDE DEF n, u
  <2>3. r \in Request /\ r.user = u /\ r.step = "lookup"
    BY <1>4, <2>1 DEF Request, u
  <2>4. Start(c, r)
    BY <2>2
  <2> HIDE DEF r
  <2> QED
    BY <1>4, <1>5, <2>3, <2>4, StartStep DEF u
<1> QED
  BY <1>6, <1>7

LEMMA AuthInvInit == AuthInit => AuthInv
<1> SUFFICES ASSUME AuthInit PROVE AuthInv
  OBVIOUS
<1>1. TypeOK
  BY SessionsAssumption DEF AuthInit, Init, TypeOK, NoAnswer, Time, Ids, Kinds
<1>2. AuthTypeOK
  BY <1>1 DEF AuthInit, AuthTypeOK
<1>3. StoreInv
  BY DEF AuthInit, Init, StoreInv, ChangeEndsSessions
<1> QED
  BY <1>2, <1>3 DEF AuthInit, AuthInv, RequestsInv, SeedInv

LEMMA AuthInvStep == AuthInv /\ [AuthNext]_allVars => AuthInv'
<1> SUFFICES ASSUME AuthInv, [AuthNext]_allVars
             PROVE  AuthInv'
  OBVIOUS
<1>1. ASSUME NEW c \in Callers, RequestStep(c)
      PROVE  AuthInv'
  BY <1>1, SeededStep, LoginSteps, RegisterSteps, RegisterWriteStep, ChangeSteps, ChangeWriteStep,
     ChangeRevokesStep DEF RequestStep
<1>2. CASE UNCHANGED allVars
  <2>1. UNCHANGED <<vars, accounts, emailIndex, seeding, attempts, requests, opened>>
    BY <1>2 DEF allVars, authVars
  <2>2. TypeOK' /\ NoneIssued
    BY <2>1, StutterStep DEF AuthInv, AuthTypeOK
  <2>3. AuthTypeOK'
    BY <2>1, <2>2 DEF AuthInv, AuthTypeOK, NoneIssued
  <2>4. StoreInv'
    BY <2>1, <2>2, StoreKept DEF AuthInv
  <2> QED
    BY <2>1, <2>3, <2>4 DEF AuthInv, RequestsInv, SeedInv, NamesAccount
<1> QED
  BY <1>1, <1>2, AnonymousStarts, SignedInStarts, SessionStepKept DEF AuthNext

(* The variables keep their types: a request that names a user finds its account, whatever    *)
(* requests run beside it. *)
THEOREM AuthTypeCorrect == AuthSpec => []AuthTypeOK
<1>1. AuthInv => AuthTypeOK
  BY DEF AuthInv
<1> QED
  BY <1>1, AuthInvInit, AuthInvStep, PTL DEF AuthSpec

(* No session is left unrevoked of a family opened before a revocation that has run, in the   *)
(* window between the write of the new hash and the revocation included, for any number of    *)
(* requests and changes under way (auth.service.ts:255-262).                                  *)
THEOREM PasswordChangesEndSessions == AuthSpec => []ChangeEndsSessions
<1>1. AuthInv => ChangeEndsSessions
  BY DEF AuthInv, StoreInv
<1> QED
  BY <1>1, AuthInvInit, AuthInvStep, PTL DEF AuthSpec

-----------------------------------------------------------------------------
(* The store under sign-in is the store of Sessions.                       *)

LEMMA AuthIsNext ==
  ASSUME AuthInv, [AuthNext]_allVars
  PROVE  [Next]_vars
<1>1. TypeOK /\ 0 \in Tokens
  BY DEF AuthInv, AuthTypeOK, TypeOK, Tokens
<1>2. ASSUME NEW c \in Callers, RequestStep(c)
      PROVE  [Next]_vars
  <2>1. ASSUME LoginSucceeds(c) \/ RegisterOpens(c) \/ SwitchOpens(c)
        PROVE  Next
    <3>1. c \in DOMAIN requests /\ Issue(requests[c].user)
      BY <2>1 DEF LoginSucceeds, RegisterOpens, SwitchOpens, At, OpenSession
    <3>2. requests[c].user \in Users
      BY <3>1 DEF AuthInv, AuthTypeOK, Request
    <3> QED
      BY <3>1, <3>2 DEF Next
  <2>2. ASSUME ChangeRevokes(c)
        PROVE  Next
    <3>1. c \in DOMAIN requests /\ RevokeAllForUser(requests[c].user, 0)
      BY <2>2 DEF ChangeRevokes, At
    <3>2. requests[c].user \in Users
      BY <3>1 DEF AuthInv, AuthTypeOK, Request
    <3> QED
      BY <1>1, <3>1, <3>2 DEF Next
  <2>3. ASSUME Seeded(c) \/ LoginLookup(c) \/ LoginFails(c) \/ LoginElsewhere(c)
               \/ RegisterCheck(c) \/ (\E u \in Users : RegisterWrite(c, u)) \/ ChangeLookup(c)
               \/ ChangeVerified(c) \/ ChangeWrite(c) \/ ChangeRefused(c)
        PROVE  UNCHANGED vars
    BY <2>3 DEF Seeded, LoginLookup, LoginFails, LoginElsewhere, RegisterCheck, RegisterWrite,
                ChangeLookup, ChangeVerified, ChangeWrite, ChangeRefused
  <2> QED
    BY <1>2, <2>1, <2>2, <2>3 DEF RequestStep
<1>3. ASSUME NEW c \in Callers, NEW s \in Ids,
             SwitchStart(c, s) \/ \E pw, new \in Passwords : ChangeStart(c, s, pw, new)
      PROVE  Next
  <2>1. Touch(s) /\ Usable(s)
    BY <1>3 DEF SwitchStart, ChangeStart, Principal
  <2>2. s \in Tokens
    BY <1>1, <2>1, UsableFacts DEF TypeOK, Tokens
  <2> QED
    BY <2>1, <2>2 DEF Next
<1>4. ASSUME NEW c, NEW e, NEW pw, LoginStart(c, e, pw) \/ RegisterStart(c, e, pw)
      PROVE  UNCHANGED vars
  BY <1>4 DEF LoginStart, RegisterStart
<1>5. ASSUME SessionStep
      PROVE  Next
  BY <1>5 DEF SessionStep, Next
<1>6. ASSUME UNCHANGED allVars
      PROVE  UNCHANGED vars
  BY <1>6 DEF allVars
<1> QED
  BY <1>2, <1>3, <1>4, <1>5, <1>6 DEF AuthNext

(* Registration, sign-in, switching and password change reach the session store only through  *)
(* its own operations, so that every theorem about the store holds of it under sign-in.       *)
THEOREM AuthImplementsSessions == AuthSpec => Spec
<1>1. AuthInit => Init
  BY DEF AuthInit
<1>2. AuthInv /\ [AuthNext]_allVars => [Next]_vars
  BY AuthIsNext
<1> QED
  BY <1>1, <1>2, AuthInvInit, AuthInvStep, PTL DEF AuthSpec, Spec

(* What the store promises by itself it promises to AuthService, whatever sign-ins, switches and
   password changes overlap: families are not forked and a token has one replacement, what is
   answered is usable, a family in which reuse was detected stays dead, what has lapsed stays
   lapsed, and the bound on concurrent sessions is kept and kept fairly. *)
THEOREM SignedInFamilies ==
  AuthSpec =>
    /\ [](OneUnrevokedPerFamily /\ OneReplacementPerToken /\ AnswerIsUsable
           /\ ReusedFamilyIsDead /\ ConcurrencyBounded)
    /\ LapsedStaysLapsed /\ EvictsLeastRecentlyUsed /\ ImplementsFamilies
  BY AuthImplementsSessions, NeverForked, RedeemedOnce, AnswersUsable, ReuseIsFinal,
     ConcurrencyIsBounded, LapsedIsFinal, EvictionIsFair, Refinement, PTL

-----------------------------------------------------------------------------
(* The lockout.                                                            *)

\* The sign-ins under way for an address.
GuessesIn(R, e) == {c \in DOMAIN R : R[c].kind = "login" /\ R[c].email = e}

\* Only a record that has set no lock may be short of the maximum.
LocksInv ==
  \A e \in DOMAIN attempts : attempts[e].lockedUntil = 0 => attempts[e].failed < MaxFailed

GuessInv == AuthInv /\ LocksInv /\ GuessesBounded

LEMMA BoundNow ==
  GuessesBounded <=>
    \A e \in DOMAIN attempts :
      attempts[e].failed + Cardinality(GuessesIn(requests, e)) < MaxFailed + Cardinality(Callers)
  BY DEF GuessesBounded, Guessing, GuessesIn

LEMMA BoundAfter ==
  GuessesBounded' <=>
    \A e \in DOMAIN attempts' :
      attempts'[e].failed + Cardinality(GuessesIn(requests', e)) < MaxFailed + Cardinality(Callers)
  BY DEF GuessesBounded, Guessing, GuessesIn

LEMMA GuessesFinite ==
  ASSUME NEW R, DOMAIN R \subseteq Callers, NEW e
  PROVE  /\ IsFiniteSet(GuessesIn(R, e)) /\ Cardinality(GuessesIn(R, e)) \in Nat
         /\ Cardinality(Callers) \in Nat
         /\ Cardinality(GuessesIn(R, e)) <= Cardinality(Callers)
<1>1. GuessesIn(R, e) \subseteq Callers
  BY DEF GuessesIn
<1> QED
  BY <1>1, AuthAssumption, FS_Subset, FS_CardinalityType

\* A step that records no failure and starts no sign-in.
LEMMA CalmStep ==
  ASSUME GuessInv, AuthInv', DOMAIN attempts' \subseteq DOMAIN attempts,
         \A e \in DOMAIN attempts' : attempts'[e] = attempts[e],
         \A e : GuessesIn(requests', e) \subseteq GuessesIn(requests, e)
  PROVE  GuessInv'
<1>1. LocksInv'
  BY DEF GuessInv, LocksInv
<1>2. ASSUME NEW e \in DOMAIN attempts'
      PROVE  attempts'[e].failed + Cardinality(GuessesIn(requests', e))
               < MaxFailed + Cardinality(Callers)
  <2>1. DOMAIN requests \subseteq Callers /\ DOMAIN requests' \subseteq Callers
        /\ attempts[e].failed \in Nat
    BY <1>2 DEF GuessInv, AuthInv, AuthTypeOK, AttemptRecord
  <2>2. Cardinality(GuessesIn(requests', e)) <= Cardinality(GuessesIn(requests, e))
    BY <2>1, GuessesFinite, FS_Subset
  <2>3. attempts[e].failed + Cardinality(GuessesIn(requests, e)) < MaxFailed + Cardinality(Callers)
    BY <1>2, BoundNow DEF GuessInv
  <2> QED
    BY <1>2, <2>1, <2>2, <2>3, GuessesFinite, AuthAssumption
<1> QED
  BY <1>1, <1>2, BoundAfter DEF GuessInv

LEMMA GuessesKept ==
  ASSUME NEW c, Others(c),
         c \in DOMAIN requests' =>
           \/ requests'[c].kind # "login"
           \/ /\ c \in DOMAIN requests
              /\ requests[c].kind = "login" /\ requests[c].email = requests'[c].email
  PROVE  \A e : GuessesIn(requests', e) \subseteq GuessesIn(requests, e)
  BY DEF Others, GuessesIn

\* A failure is one guess less under way, and one more on record.
LEMMA FailureStep ==
  ASSUME GuessInv, AuthInv', NEW c, LoginFails(c)
  PROVE  GuessInv'
<1> DEFINE e == requests[c].email
           n == FailedOnce(e)
<1>1. c \in DOMAIN requests /\ requests[c].kind = "login" /\ e \in Emails
  BY DEF LoginFails, At, GuessInv, AuthInv, AuthTypeOK, Request
<1>2. Others(c) /\ DOMAIN requests' = DOMAIN requests \ {c}
  BY <1>1, EndFacts DEF LoginFails, GuessInv, AuthInv
<1>3. /\ DOMAIN attempts' = DOMAIN attempts \cup {e} /\ attempts'[e] = n
      /\ \A f \in DOMAIN attempts' \ {e} : f \in DOMAIN attempts /\ attempts'[f] = attempts[f]
  BY DEF LoginFails, RecordFailure, Put
<1>4. n \in AttemptRecord
  BY <1>1, FailureTyped DEF LoginFails, GuessInv, AuthInv
<1>5. /\ n.failed = 1 \/ (e \in DOMAIN attempts /\ n.failed = attempts[e].failed + 1)
      /\ n.lockedUntil = 0 => n.failed < MaxFailed
  <2>1. now \in Nat /\ (e \in DOMAIN attempts => attempts[e] \in AttemptRecord)
    BY SessionsAssumption DEF GuessInv, AuthInv, AuthTypeOK, TypeOK, Time
  <2> QED
    BY <2>1, AuthAssumption DEF FailedOnce, AttemptRecord
<1> HIDE DEF n
<1>6. LocksInv'
  BY <1>3, <1>5 DEF LocksInv, GuessInv
<1>7. DOMAIN requests \subseteq Callers /\ DOMAIN requests' \subseteq Callers
  BY DEF GuessInv, AuthInv, AuthTypeOK
<1>8. \A f : GuessesIn(requests', f) \subseteq GuessesIn(requests, f)
  BY <1>2, GuessesKept
<1>9. ASSUME NEW f \in DOMAIN attempts'
      PROVE  attempts'[f].failed + Cardinality(GuessesIn(requests', f))
               < MaxFailed + Cardinality(Callers)
  <2> DEFINE before == Cardinality(GuessesIn(requests, f))
             after  == Cardinality(GuessesIn(requests', f))
  <2>1. before \in Nat /\ after \in Nat /\ Cardinality(Callers) \in Nat /\ after <= before
        /\ before <= Cardinality(Callers) /\ IsFiniteSet(GuessesIn(requests, f))
    BY <1>7, <1>8, GuessesFinite, FS_Subset
  <2>2. CASE f # e
    <3>1. f \in DOMAIN attempts /\ attempts'[f] = attempts[f] /\ attempts[f].failed \in Nat
      BY <1>3, <1>9, <2>2 DEF GuessInv, AuthInv, AuthTypeOK, AttemptRecord
    <3>2. attempts[f].failed + before < MaxFailed + Cardinality(Callers)
      BY <3>1, BoundNow DEF GuessInv
    <3> HIDE DEF before, after
    <3>3. attempts'[f].failed + after < MaxFailed + Cardinality(Callers)
      BY <2>1, <3>1, <3>2, AuthAssumption
    <3> QED
      BY <3>3 DEF after
  <2>3. CASE f = e
    <3>1. c \in GuessesIn(requests, f)
      BY <1>1, <2>3 DEF GuessesIn
    <3>2. GuessesIn(requests', f) = GuessesIn(requests, f) \ {c}
      BY <1>2 DEF GuessesIn, Others
    <3>3. after = before - 1
      BY <2>1, <3>1, <3>2, FS_RemoveElement
    <3>4. n.failed \in Nat
      BY <1>4 DEF AttemptRecord
    <3>5. e \in DOMAIN attempts => attempts[e].failed + before < MaxFailed + Cardinality(Callers)
                                   /\ attempts[e].failed \in Nat
      BY <2>3, BoundNow DEF GuessInv, AuthInv, AuthTypeOK, AttemptRecord
    <3> HIDE DEF before, after, e
    <3>6. n.failed + after < MaxFailed + Cardinality(Callers)
      BY <1>5, <2>1, <3>3, <3>4, <3>5, AuthAssumption
    <3> QED
      BY <1>3, <2>3, <3>6 DEF after
  <2> QED
    BY <2>2, <2>3
<1> QED
  BY <1>6, <1>9, BoundAfter DEF GuessInv

\* A sign-in starts only when no lock is in force, and so below the maximum.
LEMMA LoginStartStep ==
  ASSUME GuessInv, AuthInv', NEW c \in Callers, NEW e \in Emails, NEW pw \in Passwords,
         LoginStart(c, e, pw)
  PROVE  GuessInv'
<1>1. /\ DOMAIN attempts' \subseteq DOMAIN attempts
      /\ \A f \in DOMAIN attempts' : attempts'[f] = attempts[f]
      /\ e \in DOMAIN attempts' => ~Lapsed(attempts[e])
  BY DEF LoginStart, StatusRead, Without
<1>2. LocksInv'
  BY <1>1 DEF LocksInv, GuessInv
<1>3. now \in Nat /\ DOMAIN requests \subseteq Callers /\ DOMAIN requests' \subseteq Callers
  BY SessionsAssumption DEF GuessInv, AuthInv, AuthTypeOK, TypeOK, Time
<1>4. e \in DOMAIN attempts' => attempts'[e].failed < MaxFailed
  <2> SUFFICES ASSUME e \in DOMAIN attempts'
               PROVE  attempts'[e].failed < MaxFailed
    OBVIOUS
  <2>1. e \in DOMAIN attempts /\ attempts[e] \in AttemptRecord /\ ~(attempts[e].lockedUntil > now)
    BY <1>1 DEF LoginStart, Locked, GuessInv, AuthInv, AuthTypeOK
  <2>2. attempts[e].lockedUntil = 0
    BY <1>1, <1>3, <2>1 DEF Lapsed, AttemptRecord
  <2> QED
    BY <1>1, <2>1, <2>2 DEF GuessInv, LocksInv
<1>5. /\ Others(c) /\ c \notin DOMAIN requests
      /\ requests'[c].email = e /\ c \in DOMAIN requests'
  <2>1. PICK n : n = NoRequest("login")
    OBVIOUS
  <2> DEFINE r == [n EXCEPT !.email = e, !.password = pw]
  <2>2. r \in Request /\ r.email = e /\ Start(c, r)
    BY <2>1, BlankRequest DEF Request, LoginStart
  <2>3. requests'[c].email = e
    <3>1. requests' = Put(requests, c, [r EXCEPT !.step = IF seeding = "no" THEN "seed" ELSE "lookup"])
      BY <2>2 DEF Start
    <3> HIDE DEF r
    <3>2. [r EXCEPT !.step = IF seeding = "no" THEN "seed" ELSE "lookup"].email = e
      BY <2>2 DEF Request
    <3> QED
      BY <3>1, <3>2 DEF Put
  <2> HIDE DEF r
  <2> QED
    BY <2>2, <2>3, StartFacts DEF GuessInv, AuthInv
<1>6. \A f : f # e => GuessesIn(requests', f) \subseteq GuessesIn(requests, f)
  BY <1>5 DEF Others, GuessesIn
<1>7. ASSUME NEW f \in DOMAIN attempts'
      PROVE  attempts'[f].failed + Cardinality(GuessesIn(requests', f))
               < MaxFailed + Cardinality(Callers)
  <2> DEFINE before == Cardinality(GuessesIn(requests, f))
             after  == Cardinality(GuessesIn(requests', f))
  <2>1. before \in Nat /\ after \in Nat /\ Cardinality(Callers) \in Nat
        /\ after <= Cardinality(Callers) /\ IsFiniteSet(GuessesIn(requests, f))
    BY <1>3, GuessesFinite
  <2>2. f \in DOMAIN attempts /\ attempts'[f] = attempts[f] /\ attempts[f].failed \in Nat
    BY <1>1, <1>7 DEF GuessInv, AuthInv, AuthTypeOK, AttemptRecord
  <2>3. CASE f # e
    <3>1. after <= before
      BY <1>6, <2>1, <2>3, FS_Subset
    <3>2. attempts[f].failed + before < MaxFailed + Cardinality(Callers)
      BY <2>2, BoundNow DEF GuessInv
    <3> HIDE DEF before, after
    <3>3. attempts'[f].failed + after < MaxFailed + Cardinality(Callers)
      BY <2>1, <2>2, <3>1, <3>2, AuthAssumption
    <3> QED
      BY <3>3 DEF after
  <2>4. CASE f = e
    BY <1>4, <1>7, <2>1, <2>2, <2>4, AuthAssumption
  <2> QED
    BY <2>3, <2>4
<1> QED
  BY <1>2, <1>7, BoundAfter DEF GuessInv

\* A continued request stays what it is, and for the address it is for.
LEMMA GuessesContinued ==
  ASSUME AuthInv, NEW c \in DOMAIN requests, NEW r, Continue(c, r),
         r.kind = requests[c].kind,
         r.kind = "login" => r.email = requests[c].email
  PROVE  \A e : GuessesIn(requests', e) \subseteq GuessesIn(requests, e)
<1>1. Others(c) /\ requests'[c] = r
  BY ContinueFacts DEF AuthInv
<1> QED
  BY <1>1, GuessesKept

LEMMA GuessesEnded ==
  ASSUME AuthInv, NEW c \in DOMAIN requests, End(c)
  PROVE  \A e : GuessesIn(requests', e) \subseteq GuessesIn(requests, e)
<1>1. Others(c) /\ c \notin DOMAIN requests'
  BY EndFacts DEF AuthInv
<1> QED
  BY <1>1, GuessesKept

LEMMA GuessesStarted ==
  ASSUME AuthInv, NEW c \in Callers, NEW r \in Request, Start(c, r), r.kind # "login"
  PROVE  \A e : GuessesIn(requests', e) \subseteq GuessesIn(requests, e)
<1>1. Others(c) /\ requests'[c].kind # "login"
  BY StartFacts DEF AuthInv
<1> QED
  BY <1>1, GuessesKept

LEMMA RequestsCalm ==
  ASSUME AuthInv, NEW c, RequestStep(c), ~LoginFails(c)
  PROVE  /\ DOMAIN attempts' \subseteq DOMAIN attempts
         /\ \A e \in DOMAIN attempts' : attempts'[e] = attempts[e]
         /\ \A e : GuessesIn(requests', e) \subseteq GuessesIn(requests, e)
<1> DEFINE r == requests[c]
           Fewer == \A e : GuessesIn(requests', e) \subseteq GuessesIn(requests, e)
<1>1. /\ DOMAIN attempts' \subseteq DOMAIN attempts
      /\ \A e \in DOMAIN attempts' : attempts'[e] = attempts[e]
  BY DEF RequestStep, Seeded, LoginLookup, LoginElsewhere, LoginSucceeds, RecordSuccess, Without,
         RegisterCheck, RegisterWrite, RegisterOpens, ChangeLookup, ChangeVerified, ChangeWrite,
         ChangeRefused, ChangeRevokes, SwitchOpens
<1>2. c \in DOMAIN requests /\ r \in Request
  BY DEF RequestStep, Seeded, LoginLookup, LoginElsewhere, LoginSucceeds, RegisterCheck,
         RegisterWrite, RegisterOpens, ChangeLookup, ChangeVerified, ChangeWrite, ChangeRefused,
         ChangeRevokes, SwitchOpens, At, AuthInv, AuthTypeOK
<1>3. ASSUME End(c) PROVE Fewer
  BY <1>2, <1>3, GuessesEnded
<1>4. ASSUME NEW q, Continue(c, q), q.kind = r.kind, q.kind = "login" => q.email = r.email
      PROVE  Fewer
  BY <1>2, <1>4, GuessesContinued
<1>5. CASE Seeded(c)
  <2>1. PICK q : q = [r EXCEPT !.step = "lookup"]
    OBVIOUS
  <2>2. Continue(c, q) /\ q.kind = r.kind /\ q.email = r.email
    BY <1>2, <1>5, <2>1 DEF Seeded, Request
  <2> QED
    BY <1>1, <1>4, <2>2
<1>6. CASE LoginLookup(c)
  <2>1. PICK q : /\ Continue(c, q)
                 /\ \/ \E u, k : q = [r EXCEPT !.step = "verify", !.user = u,
                                        !.password = DemoPassword,
                                        !.ok = (r.password = accounts[u].password), !.under = k]
                    \/ q = [r EXCEPT !.step = "verify", !.password = DemoPassword]
    BY <1>6 DEF LoginLookup
  <2>2. q.kind = r.kind /\ q.email = r.email
    BY <1>2, <2>1 DEF Request
  <2> QED
    BY <1>1, <1>4, <2>1, <2>2
<1>7. CASE RegisterCheck(c)
  <2>1. PICK q : q = [r EXCEPT !.step = "hash"]
    OBVIOUS
  <2>2. End(c) \/ Continue(c, q)
    BY <1>7, <2>1 DEF RegisterCheck
  <2>3. q.kind = r.kind /\ q.email = r.email
    BY <1>2, <2>1 DEF Request
  <2> QED
    BY <1>1, <1>3, <1>4, <2>2, <2>3
<1>8. CASE \E u \in Users : RegisterWrite(c, u)
  <2>1. PICK u \in Users : RegisterWrite(c, u)
    BY <1>8
  <2>2. PICK q : q = [r EXCEPT !.step = "open", !.user = u, !.password = DemoPassword]
    OBVIOUS
  <2>3. Continue(c, q) /\ q.kind = r.kind /\ q.email = r.email
    BY <1>2, <2>1, <2>2 DEF RegisterWrite, Request
  <2> QED
    BY <1>1, <1>4, <2>3
<1>9. CASE ChangeLookup(c)
  <2>1. PICK q : q = [r EXCEPT !.step = "verify", !.password = DemoPassword,
                               !.ok = (r.password = accounts[r.user].password)]
    OBVIOUS
  <2>2. Continue(c, q) /\ q.kind = r.kind /\ q.email = r.email
    BY <1>2, <1>9, <2>1 DEF ChangeLookup, Request
  <2> QED
    BY <1>1, <1>4, <2>2
<1>10. CASE ChangeVerified(c)
  <2>1. PICK q : q = [r EXCEPT !.step = "compare",
                               !.ok = (r.next # accounts[r.user].password)]
    OBVIOUS
  <2>2. End(c) \/ Continue(c, q)
    BY <1>10, <2>1 DEF ChangeVerified
  <2>3. q.kind = r.kind /\ q.email = r.email
    BY <1>2, <2>1 DEF Request
  <2> QED
    BY <1>1, <1>3, <1>4, <2>2, <2>3
<1>11. CASE ChangeWrite(c)
  <2>1. PICK q : q = [NoRequest("change") EXCEPT !.step = "revoke", !.user = r.user]
    OBVIOUS
  <2>2. Continue(c, q) /\ r.kind = "change"
    BY <1>11, <2>1 DEF ChangeWrite, At
  <2>3. q.kind = "change"
    BY <2>1 DEF NoRequest
  <2> QED
    BY <1>1, <1>4, <2>2, <2>3
<1>12. ASSUME LoginElsewhere(c) \/ LoginSucceeds(c) \/ RegisterOpens(c) \/ ChangeRefused(c)
              \/ ChangeRevokes(c) \/ SwitchOpens(c)
       PROVE  End(c)
  BY <1>12 DEF LoginElsewhere, LoginSucceeds, RegisterOpens, ChangeRefused, ChangeRevokes, SwitchOpens
<1> QED
  BY <1>1, <1>3, <1>5, <1>6, <1>7, <1>8, <1>9, <1>10, <1>11, <1>12 DEF RequestStep

\* A request of a signed-in user is no sign-in.
LEMMA SignedInCalm ==
  ASSUME AuthInv, NEW c \in Callers, NEW s \in Ids,
         SwitchStart(c, s) \/ \E pw, new \in Passwords : ChangeStart(c, s, pw, new)
  PROVE  \A e : GuessesIn(requests', e) \subseteq GuessesIn(requests, e)
<1>1. PICK kind \in {"switch", "change"} : \E u, pw, new, k :
        \/ Start(c, [NoRequest(kind) EXCEPT !.user = u, !.under = k])
        \/ Start(c, [NoRequest(kind) EXCEPT !.user = u, !.password = pw, !.next = new])
  BY DEF SwitchStart, ChangeStart
<1>2. PICK n : n = NoRequest(kind) /\ n \in Request /\ n.kind = kind
  BY BlankRequest
<1>3. PICK r : Start(c, r) /\ r.kind = kind /\ "kind" \in DOMAIN r
  <2>1. PICK u, pw, new, k :
          \/ Start(c, [n EXCEPT !.user = u, !.under = k])
          \/ Start(c, [n EXCEPT !.user = u, !.password = pw, !.next = new])
    BY <1>1, <1>2
  <2>2. /\ [n EXCEPT !.user = u, !.under = k].kind = kind
        /\ "kind" \in DOMAIN [n EXCEPT !.user = u, !.under = k]
    BY <1>2 DEF Request
  <2>3. /\ [n EXCEPT !.user = u, !.password = pw, !.next = new].kind = kind
        /\ "kind" \in DOMAIN [n EXCEPT !.user = u, !.password = pw, !.next = new]
    BY <1>2 DEF Request
  <2> QED
    BY <2>1, <2>2, <2>3
<1>4. PICK q : q = [r EXCEPT !.step = IF seeding = "no" THEN "seed" ELSE "lookup"]
  OBVIOUS
<1>5. requests' = Put(requests, c, q) /\ c \notin DOMAIN requests /\ q.kind = kind
  BY <1>3, <1>4 DEF Start
<1>6. requests'[c].kind # "login"
  BY <1>5 DEF Put
<1>7. \A d \in DOMAIN requests' \ {c} : d \in DOMAIN requests /\ requests'[d] = requests[d]
  BY <1>5 DEF Put
<1> QED
  BY <1>6, <1>7 DEF GuessesIn

LEMMA GuessInvStep == GuessInv /\ [AuthNext]_allVars => GuessInv'
<1> SUFFICES ASSUME GuessInv, [AuthNext]_allVars
             PROVE  GuessInv'
  OBVIOUS
<1>1. AuthInv /\ AuthInv'
  BY AuthInvStep DEF GuessInv
<1>2. ASSUME NEW c \in Callers, RequestStep(c)
      PROVE  GuessInv'
  BY <1>1, <1>2, FailureStep, RequestsCalm, CalmStep
<1>3. ASSUME NEW c \in Callers, NEW e \in Emails, NEW pw \in Passwords, RegisterStart(c, e, pw)
      PROVE  GuessInv'
  <2>1. PICK n : n = NoRequest("register")
    OBVIOUS
  <2> DEFINE r == [n EXCEPT !.email = e, !.password = pw]
  <2>2. r \in Request /\ r.kind = "register" /\ Start(c, r)
    BY <1>3, <2>1, BlankRequest DEF Request, RegisterStart
  <2> HIDE DEF r
  <2>3. \A f : GuessesIn(requests', f) \subseteq GuessesIn(requests, f)
    BY <1>1, <2>2, GuessesStarted
  <2> QED
    BY <1>1, <1>3, <2>3, CalmStep DEF RegisterStart
<1>4. ASSUME NEW c \in Callers, NEW s \in Ids,
             SwitchStart(c, s) \/ \E pw, new \in Passwords : ChangeStart(c, s, pw, new)
      PROVE  GuessInv'
  BY <1>1, <1>4, SignedInCalm, CalmStep DEF SwitchStart, ChangeStart
<1>5. CASE SessionStep
  BY <1>1, <1>5, CalmStep DEF SessionStep, authVars
<1>6. CASE UNCHANGED allVars
  BY <1>1, <1>6, CalmStep DEF allVars, authVars
<1> QED
  BY <1>1, <1>2, <1>3, <1>4, <1>5, <1>6, LoginStartStep DEF AuthNext

(* However many sign-ins for one address run at once, the failures on record and the guesses  *)
(* still being verified stay below AUTH_MAX_FAILED_LOGINS plus the requests that can be under *)
(* way (login-attempts.service.ts:63-82).                                                     *)
THEOREM GuessesAreBounded == AuthSpec => []GuessesBounded
<1>1. AuthInit => GuessInv
  BY AuthInvInit DEF GuessInv, LocksInv, GuessesBounded, AuthInit
<1>2. GuessInv => GuessesBounded
  BY DEF GuessInv
<1> QED
  BY <1>1, <1>2, GuessInvStep, PTL DEF AuthSpec

=============================================================================
