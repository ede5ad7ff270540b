-------------------------- MODULE WebRenewalProofs --------------------------
(***************************************************************************)
(* Theorems about WebRenewal, for every number of requests under way and   *)
(* every length of the store's windows.  The rate limiter costs one of     *)
(* them, RejectionsAreFinal; the others hold with it too.                  *)
(*                                                                         *)
(* Every step of the web tier is a step of the session store or leaves it  *)
(* alone.  What the web tier is told is kept in flights and requests: that *)
(* a token was exchanged for a session (Grant), or that it was refused     *)
(* (Denied).  The proof shows that only an answer of the API adds to       *)
(* either, that the store backs each of them when it is given, and that    *)
(* no later step of the store takes the backing away.                      *)
(***************************************************************************)
EXTENDS WebRenewal, SessionsProofs

-----------------------------------------------------------------------------
(* What the web tier has been told.                                        *)

\* Somebody holds, or is about to be given, session e for token t.
Grant(t, e) ==
  \/ t \in DOMAIN flights /\ flights[t].outcome = "renewed" /\ flights[t].session = e
  \/ \E c \in DOMAIN requests :
       requests[c].path # "signin" /\ requests[c].token = t /\ requests[c].effect = e /\ e > 0

\* Somebody is about to delete cookies because token t was refused.
Denied(t) ==
  \/ t \in DOMAIN flights /\ flights[t].outcome = "rejected"
  \/ \E c \in DOMAIN requests :
       requests[c].path \in {"page", "api"} /\ requests[c].token = t /\ requests[c].effect = 0

\* The store will never exchange t for anything but e: t is spent, and if it is still filed in the
\* grace window it is filed under e.
Granted(t, e) ==
  /\ t \in 1 .. issued /\ e \in 1 .. issued
  /\ t \in DOMAIN sessions => sessions[t].revokedAt # Never
  /\ t \in DOMAIN recentRotations => recentRotations[t].session = e

\* The API route calls again with the tokens it was given.
AgainWithTokens ==
  \A c \in DOMAIN requests : requests[c].step = "again" => requests[c].effect > 0

GrantsHold == \A t, e : Grant(t, e) => Granted(t, e)
GrantsAgree == \A t, d, e : Grant(t, d) /\ Grant(t, e) => d = e

\* The types of the web tier's own variables.
WebTypes ==
  /\ jar \in 0 .. issued
  /\ DOMAIN requests \subseteq Requests
  /\ requests \in [DOMAIN requests -> Request]
  /\ \A c \in DOMAIN requests : requests[c].token <= issued /\ requests[c].effect <= issued
  /\ DOMAIN flights \subseteq 1 .. issued
  /\ flights \in [DOMAIN flights -> Flight]
  /\ strays \subseteq 1 .. issued

\* What holds whoever refuses a token, and with it that only the API does.
ToldInv ==
  /\ IInv
  /\ WebTypes
  /\ AgainWithTokens
  /\ GrantsHold
  /\ GrantsAgree

WebInv == ToldInv /\ RejectedIsOver

-----------------------------------------------------------------------------
(* What the store does to a token that was exchanged or refused.           *)

(* A call of rotate() either exchanges or replays the token, or refuses it. *)
LEMMA RotateKinds ==
  ASSUME IInv, NEW t \in Tokens, Rotate(t)
  PROVE  /\ [Next]_vars
         /\ answer'.kind = "ok" <=> RotateReplay(t) \/ RotateUsable(t)
         /\ RotateReplay(t) => Replayed(t)
         /\ RotateUsable(t) => Exchanged(t)
<1>1. [Next]_vars
  BY DEF Next
<1>2. RotateReplay(t) => Replayed(t) /\ answer'.kind = "ok"
  BY RotateReplayStep DEF Replayed, RotateReplay, Replayable, IInv
<1>3. RotateUsable(t) => Exchanged(t) /\ answer'.kind = "ok"
  <2>1. ASSUME RotateUsable(t)
        PROVE  /\ answer' = [token |-> t, kind |-> "ok", session |-> issued + 1]
               /\ Usable(t)
               /\ UNCHANGED <<now, reused>>
    BY <2>1 DEF RotateUsable
  <2> QED
    BY <2>1, RotateUsableStep DEF Exchanged, IInv
<1>4. RotateUnknown(t) \/ RotateReused(t) \/ RotateLapsed(t) => answer'.kind # "ok"
  BY DEF RotateUnknown, RotateReused, RotateLapsed
<1> QED
  BY <1>1, <1>2, <1>3, <1>4 DEF Rotate

(* A refused token's sign-in is over: the family was killed, or its one unrevoked session lapsed. *)
LEMMA RefusedIsOver ==
  ASSUME IInv, IInv', NEW t \in Tokens, Rotate(t), answer'.kind # "ok"
  PROVE  Over(t)'
<1>1. CASE RotateUnknown(t)
  BY <1>1 DEF RotateUnknown, Over
<1>2. CASE RotateReused(t)
  <2>1. /\ NoneIssued
        /\ \A s \in DOMAIN sessions' :
              sessions'[s].family = sessions[t].family => sessions'[s].revokedAt # Never
    BY <1>2, RotateReusedStep DEF IInv
  <2>2. t \in DOMAIN sessions' => sessions'[t].family = sessions[t].family
    BY <2>1 DEF NoneIssued, Same
  <2>3. ASSUME NEW s \in FamilyOf(sessions, sessions[t].family)', t \in DOMAIN sessions'
        PROVE  ~ Usable(s)'
    <3>1. s \in DOMAIN sessions' /\ sessions'[s].family = sessions'[t].family
      BY DEF FamilyOf
    <3> QED
      BY <2>1, <2>2, <2>3, <3>1, UsableAfter DEF IInv
  <2> QED
    BY <2>3 DEF Over
<1>3. CASE RotateLapsed(t)
  <2>1. NoneIssued /\ [Next]_vars
    BY <1>3, RotateLapsedStep, RotateKinds DEF IInv
  <2>2. t \in DOMAIN sessions /\ sessions[t].revokedAt = Never /\ ~ Usable(t)
    BY <1>3 DEF RotateLapsed, Usable, Validate
  <2>3. ASSUME NEW s \in FamilyOf(sessions, sessions[t].family)', t \in DOMAIN sessions', Usable(s)'
        PROVE  FALSE
    <3>1. s \in DOMAIN sessions' /\ sessions'[s].family = sessions'[t].family
      BY DEF FamilyOf
    <3>2. s \in DOMAIN sessions /\ sessions[s].family = sessions[t].family
      BY <2>1, <2>3, <3>1 DEF NoneIssued, Same
    <3>3. s \in 1 .. issued
      BY <3>2 DEF IInv, TypeOK
    <3>4. Usable(s)
      BY <2>1, <2>3, <3>3, UsableBefore DEF IInv
    <3>5. sessions[s].revokedAt = Never
      BY <3>4, UsableFacts DEF IInv
    <3>6. s = t
      BY <2>2, <3>2, <3>5 DEF IInv, OneUnrevokedPerFamily
    <3> QED
      BY <2>2, <3>4, <3>6
  <2> QED
    BY <2>3 DEF Over
<1> QED
  BY <1>1, <1>2, <1>3, RotateKinds DEF Rotate

(* A sign-in that is over stays over: nothing revives its sessions, and none is added to it. *)
LEMMA OverStays ==
  ASSUME IInv, IInv', [Next]_vars, NEW t \in 0 .. issued, Over(t)
  PROVE  Over(t)'
<1> SUFFICES ASSUME t \in DOMAIN sessions', NEW s \in FamilyOf(sessions, sessions[t].family)',
                    Usable(s)'
             PROVE  FALSE
  BY DEF Over
<1>1. t # issued + 1 /\ issued \in Nat
  BY SessionsAssumption DEF IInv, TypeOK
<1>2. t \in DOMAIN sessions /\ sessions'[t].family = sessions[t].family
  BY <1>1, OldSession DEF IInv, Same
<1>3. s \in DOMAIN sessions' /\ sessions'[s].family = sessions[t].family
  BY <1>2 DEF FamilyOf
<1>4. \A r \in DOMAIN sessions : sessions[r].family = sessions[t].family => ~ Usable(r)
  BY <1>2 DEF Over, FamilyOf
<1>5. CASE s # issued + 1
  <2>1. s \in DOMAIN sessions /\ s \in 1 .. issued
    BY <1>3, <1>5, OldSession DEF IInv, TypeOK
  <2>2. Usable(s) /\ sessions[s].family = sessions[t].family
    BY <1>3, <2>1, UsableBefore DEF IInv, Same
  <2> QED
    BY <1>4, <2>1, <2>2
<1>6. CASE s = issued + 1
  <2>1. sessions[t].family # issued + 1
    BY <1>1, <1>2 DEF IInv, OriginsAreOlder
  <2>2. \E r \in DOMAIN sessions : Exchanged(r) /\ sessions[r].family = sessions[t].family
    BY <1>3, <1>6, <2>1, NewSessionFacts DEF IInv
  <2> QED
    BY <1>4, <2>2 DEF Exchanged
<1> QED
  BY <1>5, <1>6

(* What a token was exchanged for stays what it was exchanged for. *)
LEMMA GrantedStays ==
  ASSUME IInv, IInv', [Next]_vars, NEW t, NEW e, Granted(t, e)
  PROVE  Granted(t, e)'
<1>1. issued \in Nat /\ issued' \in Nat /\ issued <= issued'
  <2>1. issued' = issued \/ issued' = issued + 1
    BY IssuedBy DEF IInv
  <2> QED
    BY <2>1, SessionsAssumption DEF IInv, TypeOK
<1>2. t # issued + 1
  BY <1>1 DEF Granted
<1>3. t \in DOMAIN sessions' => sessions'[t].revokedAt # Never
  BY <1>2, OldSession DEF IInv, Granted
<1>4. ~ Exchanged(t)
  BY UsableFacts DEF Exchanged, Granted, IInv
<1>5. t \in DOMAIN recentRotations' =>
        t \in DOMAIN recentRotations /\ recentRotations'[t] = recentRotations[t]
  <2>1. CASE EntriesKept
    BY <2>1 DEF EntriesKept
  <2>2. CASE \E x \in Tokens : Exchanged(x)
    BY <1>4, <2>2 DEF Exchanged
  <2>3. CASE UNCHANGED vars
    BY <2>3 DEF vars
  <2> QED
    BY <2>1, <2>2, <2>3, StepKinds DEF IInv, Quiet, Replayed, FamilyKilled, Opened
<1> QED
  BY <1>1, <1>3, <1>5 DEF Granted

(* A token that is exchanged or replayed is spent, and for the session that was returned; a
   second exchange of a token is impossible, and a replay returns what was returned before. *)
LEMMA AnswerGrants ==
  ASSUME IInv, IInv', NEW t \in Tokens, Rotate(t), answer'.kind = "ok"
  PROVE  /\ Granted(t, answer.session)'
         /\ \A e : Granted(t, e) => e = answer'.session
<1>1. [Next]_vars
  BY RotateKinds
<1>2. CASE RotateReplay(t)
  <2>1. /\ Replayed(t)
        /\ t \in DOMAIN recentRotations
        /\ answer'.session = recentRotations[t].session
        /\ UNCHANGED <<now, issued, sessions, recentRotations>>
    BY <1>2, RotateKinds DEF Replayed, RotateReplay
  <2>2. t \in 1 .. issued /\ recentRotations[t].session \in 1 .. issued
    BY <2>1 DEF IInv, TypeOK, OriginsAreOlder
  <2>3. t \in DOMAIN sessions => sessions[t].revokedAt # Never
    BY <2>1 DEF IInv, GraceEntriesMatch
  <2>4. Granted(t, answer.session)'
    BY <2>1, <2>2, <2>3 DEF Granted
  <2> QED
    BY <2>1, <2>4 DEF Granted
<1>3. CASE RotateUsable(t)
  <2>1. /\ Exchanged(t)
        /\ Usable(t)
        /\ answer'.session = issued + 1
        /\ issued' = issued + 1
        /\ t \in DOMAIN sessions' => sessions'[t].revokedAt # Never
        /\ t \in DOMAIN recentRotations' => recentRotations'[t].session = issued + 1
    BY <1>3, RotateKinds DEF Exchanged, OneIssued
  <2>2. t \in DOMAIN sessions /\ sessions[t].revokedAt = Never
    BY <2>1, UsableFacts DEF IInv
  <2>3. t \in 1 .. issued /\ issued \in Nat
    BY <2>2, SessionsAssumption DEF IInv, TypeOK
  <2>4. Granted(t, answer.session)'
    BY <2>1, <2>3 DEF Granted
  <2> QED
    BY <2>2, <2>4 DEF Granted
<1> QED
  BY <1>2, <1>3, RotateKinds

-----------------------------------------------------------------------------
(* What a step of the web tier does to what has been told.                 *)

RequestTypes(R, n) ==
  /\ DOMAIN R \subseteq Requests
  /\ R \in [DOMAIN R -> Request]
  /\ \A c \in DOMAIN R : R[c].token <= n /\ R[c].effect <= n

FlightTypes(F, n) == DOMAIN F \subseteq 1 .. n /\ F \in [DOMAIN F -> Flight]

\* What request r will do to the cookies was told before this step.
Backed(r) ==
  /\ r.path # "signin" /\ r.effect > 0 => Grant(r.token, r.effect)
  /\ r.path \in {"page", "api"} /\ r.effect = 0 => r.token = 0 \/ Denied(r.token)
  /\ r.step = "again" => r.effect > 0

\* What refresh f of token t has come to was told before this step, or is what the API answered.
FlightBacked(t, f) ==
  /\ f.outcome = "renewed" =>
       \/ Grant(t, f.session)
       \/ t \in Tokens /\ Rotate(t) /\ answer'.kind = "ok" /\ f.session = answer'.session
  /\ f.outcome = "rejected" => Denied(t) \/ (t \in Tokens /\ Rotate(t) /\ answer'.kind # "ok")

\* The summary of a step: the store moves or stands still, the types are kept, and nothing is
\* told that was not told before or answered in this step.
WebStep ==
  /\ [Next]_vars
  /\ jar' \in 0 .. issued'
  /\ strays' \subseteq 1 .. issued'
  /\ RequestTypes(requests', issued')
  /\ FlightTypes(flights', issued')
  /\ \A c \in DOMAIN requests' : Backed(requests'[c])
  /\ \A t \in DOMAIN flights' : FlightBacked(t, flights'[t])

(* A request that a step leaves as it was is backed by itself. *)
LEMMA StillBacked ==
  ASSUME ToldInv, NEW c \in DOMAIN requests
  PROVE  Backed(requests[c])
<1>1. requests[c].path # "signin" /\ requests[c].effect > 0
        => Grant(requests[c].token, requests[c].effect)
  BY DEF Grant
<1>2. requests[c].path \in {"page", "api"} /\ requests[c].effect = 0 => Denied(requests[c].token)
  BY DEF Denied
<1>3. requests[c].step = "again" => requests[c].effect > 0
  BY DEF ToldInv, AgainWithTokens
<1> QED
  BY <1>1, <1>2, <1>3 DEF Backed

(* A refresh that a step leaves as it was is backed by itself. *)
LEMMA FlightStillBacked ==
  ASSUME ToldInv, NEW t \in DOMAIN flights
  PROVE  FlightBacked(t, flights[t])
<1>1. flights[t].outcome = "renewed" => Grant(t, flights[t].session)
  BY DEF Grant
<1>2. flights[t].outcome = "rejected" => Denied(t)
  BY DEF Denied
<1> QED
  BY <1>1, <1>2 DEF FlightBacked

(* Requests that only lose members. *)
LEMMA RequestsKept ==
  ASSUME ToldInv, issued <= issued', issued' \in Nat,
         DOMAIN requests' \subseteq DOMAIN requests,
         requests' = [d \in DOMAIN requests' |-> requests[d]]
  PROVE  /\ RequestTypes(requests', issued')
         /\ \A c \in DOMAIN requests' : Backed(requests'[c])
<1>1. issued \in Nat
  BY SessionsAssumption DEF ToldInv, IInv, TypeOK
<1>2. \A c \in DOMAIN requests' : requests'[c] = requests[c] /\ c \in DOMAIN requests
  OBVIOUS
<1>3. ASSUME NEW c \in DOMAIN requests'
      PROVE  requests'[c].token <= issued' /\ requests'[c].effect <= issued'
  <2>1. /\ requests[c].token \in Int /\ requests[c].effect \in Int
        /\ requests[c].token <= issued /\ requests[c].effect <= issued
    BY <1>2 DEF ToldInv, WebTypes, Request, Cookie, Keep, Ids
  <2> QED
    BY <1>1, <1>2, <2>1
<1>4. RequestTypes(requests', issued')
  BY <1>2, <1>3 DEF ToldInv, WebTypes, RequestTypes
<1>5. \A c \in DOMAIN requests' : Backed(requests'[c])
  BY <1>2, StillBacked DEF ToldInv
<1> QED
  BY <1>4, <1>5

(* Refreshes that only lose members. *)
LEMMA FlightsKept ==
  ASSUME ToldInv, issued <= issued', issued' \in Nat,
         DOMAIN flights' \subseteq DOMAIN flights,
         flights' = [t \in DOMAIN flights' |-> flights[t]]
  PROVE  /\ FlightTypes(flights', issued')
         /\ \A t \in DOMAIN flights' : FlightBacked(t, flights'[t])
<1>1. issued \in Nat
  BY SessionsAssumption DEF ToldInv, IInv, TypeOK
<1>2. \A t \in DOMAIN flights' : flights'[t] = flights[t] /\ t \in DOMAIN flights
  OBVIOUS
<1>3. FlightTypes(flights', issued')
  BY <1>1, <1>2 DEF FlightTypes, ToldInv, WebTypes
<1> QED
  BY <1>2, <1>3, FlightStillBacked

(* Joining a refresh, or starting one, tells nobody anything. *)
LEMMA JoinedKeeps ==
  ASSUME ToldInv, issued' = issued, NEW t \in 1 .. issued, flights' = Joined(t)
  PROVE  /\ FlightTypes(flights', issued')
         /\ DOMAIN flights \subseteq DOMAIN flights' /\ t \in DOMAIN flights'
         /\ \A x \in DOMAIN flights' : FlightBacked(x, flights'[x])
<1> DEFINE new == [outcome |-> "sent", session |-> 0]
<1>1. new \in Flight /\ new.outcome = "sent"
  BY DEF Flight, Cookie
<1> HIDE DEF new
<1>2. /\ DOMAIN flights' = DOMAIN flights \cup {t}
      /\ \A x \in DOMAIN flights' :
           \/ x \in DOMAIN flights /\ flights'[x] = flights[x]
           \/ flights'[x] = new
      /\ flights' = [x \in DOMAIN flights' |-> flights'[x]]
  <2>1. CASE t \in DOMAIN flights
    BY <2>1 DEF Joined, ToldInv, WebTypes
  <2>2. CASE t \notin DOMAIN flights
    BY <2>2 DEF Joined, Put, new
  <2> QED
    BY <2>1, <2>2
<1>3. FlightTypes(flights', issued')
  BY <1>1, <1>2 DEF FlightTypes, ToldInv, WebTypes
<1>4. ASSUME NEW x \in DOMAIN flights' PROVE FlightBacked(x, flights'[x])
  <2>1. CASE x \in DOMAIN flights /\ flights'[x] = flights[x]
    BY <2>1, FlightStillBacked
  <2>2. CASE flights'[x] = new
    BY <1>1, <2>2 DEF FlightBacked
  <2> QED
    BY <1>2, <2>1, <2>2
<1> QED
  BY <1>2, <1>3, <1>4

(* A request that arrives is backed when the cookies it will set are nobody's yet. *)
LEMMA NewBacked ==
  ASSUME ToldInv, issued' = issued, DOMAIN flights \subseteq DOMAIN flights',
         NEW c \in Requests, c \notin DOMAIN requests, NEW r \in Request,
         requests' = Put(requests, c, r), r.token \in 0 .. issued,
         r.effect = Keep \/ (r.effect = 0 /\ r.token = 0),
         r.step # "again"
  PROVE  /\ RequestTypes(requests', issued')
         /\ \A d \in DOMAIN requests' : Backed(requests'[d])
<1>3. /\ DOMAIN requests' = DOMAIN requests \cup {c} /\ requests'[c] = r
      /\ \A d \in DOMAIN requests : requests'[d] = requests[d]
  BY DEF Put
<1>4. issued \in Nat
  BY SessionsAssumption DEF ToldInv, IInv, TypeOK
<1>5. r.token <= issued /\ r.effect <= issued
  BY <1>4 DEF Keep
<1>6. requests' \in [DOMAIN requests \cup {c} -> Request]
  BY <1>3 DEF Put, ToldInv, WebTypes
<1>7. RequestTypes(requests', issued')
  BY <1>3, <1>5, <1>6 DEF RequestTypes, ToldInv, WebTypes
<1>8. Backed(r)
  BY DEF Backed, Keep
<1>9. \A d \in DOMAIN requests : Backed(requests[d])
  BY StillBacked DEF ToldInv
<1> QED
  BY <1>3, <1>7, <1>8, <1>9

(* A reply is backed when what it does to the cookies was told before. *)
LEMMA ReplyBacked ==
  ASSUME ToldInv, issued <= issued', issued' \in Nat,
         NEW c \in DOMAIN requests, NEW effect \in Cookie \cup {Keep}, effect <= issued',
         Reply(c, effect),
         \/ effect = Keep
         \/ effect = requests[c].effect
         \/ effect = 0 /\ requests[c].path = "signout"
         \/ effect > 0 /\ requests[c].path = "signin"
  PROVE  /\ RequestTypes(requests', issued')
         /\ \A d \in DOMAIN requests' : Backed(requests'[d])
<1>1. requests[c] \in Request
  BY DEF ToldInv, WebTypes
<1>2. /\ DOMAIN requests' = DOMAIN requests
      /\ \A d \in DOMAIN requests \ {c} : requests'[d] = requests[d]
      /\ requests'[c] \in Request
      /\ requests'[c].path = requests[c].path /\ requests'[c].token = requests[c].token
      /\ requests'[c].step = "reply" /\ requests'[c].effect = effect
      /\ requests' = [d \in DOMAIN requests' |-> requests'[d]]
  BY <1>1 DEF Reply, Request
<1>3. issued \in Nat
  BY SessionsAssumption DEF ToldInv, IInv, TypeOK
<1>4. ASSUME NEW d \in DOMAIN requests'
      PROVE  /\ requests'[d] \in Request
             /\ requests'[d].token <= issued' /\ requests'[d].effect <= issued'
  <2>1. /\ requests[d].token \in Int /\ requests[d].effect \in Int
        /\ requests[d].token <= issued /\ requests[d].effect <= issued
        /\ requests[d] \in Request
    BY <1>2 DEF ToldInv, WebTypes, Request, Cookie, Keep, Ids
  <2> QED
    BY <1>2, <1>3, <2>1
<1>5. RequestTypes(requests', issued')
  BY <1>2, <1>4 DEF RequestTypes, ToldInv, WebTypes
<1>6. \A d \in DOMAIN requests : Backed(requests[d])
  BY StillBacked DEF ToldInv
<1>7. Backed(requests'[c])
  <2>1. CASE effect = requests[c].effect
    BY <1>2, <1>6, <2>1 DEF Backed
  <2>2. CASE effect # requests[c].effect
    BY <1>2, <2>2 DEF Backed, Keep
  <2> QED
    BY <2>1, <2>2
<1> QED
  BY <1>2, <1>5, <1>6, <1>7

-----------------------------------------------------------------------------
(* The actions, each summarised by WebStep.                                *)

(* What every step may use of the state it starts in. *)
LEMMA WebFacts ==
  ASSUME ToldInv
  PROVE  /\ issued \in Nat /\ issued <= MaxSessions /\ MaxSessions \in Nat
         /\ \A t \in 0 .. issued : t \in Tokens
         /\ \A t \in 0 .. issued : t \in Cookie
         /\ \A c \in DOMAIN requests :
              /\ requests[c] \in Request
              /\ requests[c].token \in 0 .. issued
              /\ requests[c].effect \in Cookie \cup {Keep}
              /\ requests[c].effect <= issued
<1>1. issued \in Nat /\ issued <= MaxSessions /\ MaxSessions \in Nat
  BY SessionsAssumption DEF ToldInv, IInv, TypeOK
<1>2. \A c \in DOMAIN requests : requests[c] \in Request /\ requests[c].token <= issued
                                 /\ requests[c].effect <= issued
  BY DEF ToldInv, WebTypes
<1>3. ASSUME NEW c \in DOMAIN requests PROVE requests[c].token \in 0 .. issued
  <2>1. requests[c].token \in Nat
    BY <1>1, <1>2 DEF Request, Cookie, Ids
  <2> QED
    BY <1>1, <1>2, <2>1
<1>4. \A c \in DOMAIN requests : requests[c].effect \in Cookie \cup {Keep}
  BY <1>2 DEF Request
<1> QED
  BY <1>1, <1>2, <1>3, <1>4 DEF Tokens, Cookie, Ids

(* The store's types after a step, and that it never takes numbers back. *)
LEMMA IssuedAfter ==
  ASSUME ToldInv, [Next]_vars
  PROVE  issued' \in Nat /\ issued <= issued' /\ issued' <= MaxSessions
<1>1. TypeOK' /\ TypeOK
  BY StepKinds DEF ToldInv, IInv
<1>2. issued' = issued \/ issued' = issued + 1
  BY <1>1, IssuedBy
<1> QED
  BY <1>1, <1>2, SessionsAssumption DEF TypeOK

(* A step of the web tier that leaves the store alone. *)
LEMMA StoreStill ==
  ASSUME ToldInv, UNCHANGED vars
  PROVE  [Next]_vars /\ issued' = issued /\ issued' \in Nat /\ issued <= issued'
  BY WebFacts DEF vars

(* The cookies and the stray calls name sessions that were issued, however the store moves. *)
LEMMA JarKept ==
  ASSUME ToldInv, [Next]_vars
  PROVE  /\ jar' = jar => jar' \in 0 .. issued'
         /\ strays' \subseteq strays => strays' \subseteq 1 .. issued'
<1>1. issued' \in Nat /\ issued <= issued' /\ issued \in Nat
  BY IssuedAfter, WebFacts
<1> QED
  BY <1>1 DEF ToldInv, WebTypes

(* A request arrives. *)
LEMMA ArrivalStep ==
  ASSUME ToldInv, NEW c \in Requests,
         PageRenews(c) \/ PageHasNone(c) \/ \E path \in {"api", "signin", "signout"} : Calls(c, path)
  PROVE  WebStep
<1>1. /\ [Next]_vars /\ issued' = issued /\ issued' \in Nat /\ jar' = jar /\ strays' = strays
      /\ issued <= issued'
  BY StoreStill DEF PageRenews, PageHasNone, Calls
<1>2. jar \in 0 .. issued /\ Keep \in Cookie \cup {Keep} /\ 0 \in Cookie /\ jar \in Cookie
  BY WebFacts DEF ToldInv, WebTypes, Cookie
<1>3. CASE PageRenews(c)
  <2>1. jar \in 1 .. issued /\ flights' = Joined(jar)
    BY <1>2, <1>3 DEF PageRenews
  <2>2. /\ FlightTypes(flights', issued')
        /\ DOMAIN flights \subseteq DOMAIN flights' /\ jar \in DOMAIN flights'
        /\ \A x \in DOMAIN flights' : FlightBacked(x, flights'[x])
    BY <1>1, <2>1, JoinedKeeps
  <2>3. PICK r \in Request : r = [path |-> "page", step |-> "wait", token |-> jar, effect |-> Keep]
    BY <1>2 DEF Request
  <2>4. c \notin DOMAIN requests /\ requests' = Put(requests, c, r)
    BY <1>3, <2>3 DEF PageRenews, New
  <2>5. r.token = jar /\ r.effect = Keep /\ r.step = "wait"
    BY <2>3
  <2>6. /\ RequestTypes(requests', issued')
        /\ \A d \in DOMAIN requests' : Backed(requests'[d])
    BY <1>1, <1>2, <2>2, <2>4, <2>5, NewBacked
  <2> QED
    BY <1>1, <2>2, <2>6, JarKept DEF WebStep
<1>4. ASSUME flights' = flights
      PROVE  /\ FlightTypes(flights', issued')
             /\ \A x \in DOMAIN flights' : FlightBacked(x, flights'[x])
             /\ DOMAIN flights \subseteq DOMAIN flights'
  BY <1>1, <1>4, FlightsKept DEF ToldInv, WebTypes
<1>5. CASE PageHasNone(c)
  <2>1. PICK r \in Request : r = [path |-> "page", step |-> "reply", token |-> 0, effect |-> 0]
    BY <1>2 DEF Request
  <2>2. /\ 0 \in 0 .. issued /\ flights' = flights
        /\ c \notin DOMAIN requests /\ requests' = Put(requests, c, r)
    BY <1>2, <1>5, <2>1, WebFacts DEF PageHasNone, New
  <2>3. /\ RequestTypes(requests', issued')
        /\ \A d \in DOMAIN requests' : Backed(requests'[d])
    BY <1>1, <1>4, <2>1, <2>2, NewBacked
  <2> QED
    BY <1>1, <1>4, <2>2, <2>3, JarKept DEF WebStep
<1>6. ASSUME NEW path \in {"api", "signin", "signout"}, Calls(c, path)
      PROVE  WebStep
  <2>1. PICK token : token = IF path = "signin" THEN 0 ELSE jar
    OBVIOUS
  <2>2. token \in 0 .. issued /\ token \in Cookie /\ flights' = flights
    BY <1>2, <1>6, <2>1, WebFacts DEF Calls
  <2>3. PICK r \in Request : r = [path |-> path, step |-> "call", token |-> token, effect |-> Keep]
    BY <1>2, <2>2 DEF Request
  <2>4. /\ c \notin DOMAIN requests /\ requests' = Put(requests, c, r)
        /\ r.token = token /\ r.effect = Keep /\ r.step = "call"
    BY <1>6, <2>1, <2>3 DEF Calls, New
  <2>5. /\ RequestTypes(requests', issued')
        /\ \A d \in DOMAIN requests' : Backed(requests'[d])
    BY <1>1, <1>4, <2>2, <2>3, <2>4, NewBacked
  <2> QED
    BY <1>1, <1>4, <2>2, <2>5, JarKept DEF WebStep
<1> QED
  BY <1>3, <1>5, <1>6

(* The API is called, and answers or does not. *)
LEMMA CallStep ==
  ASSUME ToldInv, NEW c \in Requests, CallEnds(c) \/ CallsAgain(c)
  PROVE  WebStep
<1>1. c \in DOMAIN requests /\ jar' = jar /\ strays' = strays
  BY DEF CallEnds, CallsAgain, ApiServes, ApiRefuses, SignedIn, SignedOut, CallFails, At
<1>2. /\ requests[c] \in Request
      /\ requests[c].token \in 0 .. issued /\ requests[c].token \in Tokens
      /\ requests[c].effect \in Cookie \cup {Keep} /\ requests[c].effect <= issued
      /\ issued \in Nat /\ MaxSessions \in Nat
  BY <1>1, WebFacts
<1>3. ASSUME flights' = flights, [Next]_vars,
             NEW effect \in Cookie \cup {Keep}, effect <= issued', Reply(c, effect),
             \/ effect = Keep
             \/ effect = requests[c].effect
             \/ effect = 0 /\ requests[c].path = "signout"
             \/ effect > 0 /\ requests[c].path = "signin"
      PROVE  WebStep
  <2>1. issued' \in Nat /\ issued <= issued'
    BY <1>3, IssuedAfter
  <2>2. /\ FlightTypes(flights', issued')
        /\ \A x \in DOMAIN flights' : FlightBacked(x, flights'[x])
        /\ DOMAIN flights \subseteq DOMAIN flights'
    BY <1>3, <2>1, FlightsKept DEF ToldInv, WebTypes
  <2>3. /\ RequestTypes(requests', issued')
        /\ \A d \in DOMAIN requests' : Backed(requests'[d])
    BY <1>1, <1>3, <2>1, <2>2, ReplyBacked
  <2> QED
    BY <1>1, <1>3, <2>2, <2>3, JarKept DEF WebStep
<1>4. ASSUME [Next]_vars PROVE issued' \in Nat /\ issued <= issued' /\ Keep <= issued'
  BY <1>4, IssuedAfter DEF Keep
<1>5. CASE ApiServes(c)
  <2>1. [Next]_vars
    BY <1>2, <1>5 DEF ApiServes, Next
  <2> QED
    BY <1>3, <1>4, <1>5, <2>1 DEF ApiServes
<1>6. CASE ApiRefuses(c)
  <2>1. PICK t \in 0 .. issued : t = requests[c].token
    BY <1>2
  <2>2. [Next]_vars
    BY <1>2, <1>6 DEF ApiRefuses, Next
  <2>3. CASE t = 0
    BY <1>3, <1>4, <1>6, <2>1, <2>2, <2>3 DEF ApiRefuses
  <2>4. CASE t # 0
    <3>1. /\ requests' = [requests EXCEPT ![c].step = "wait"]
          /\ flights' = Joined(t) /\ t \in 1 .. issued
          /\ issued' = issued
      BY <1>2, <1>6, <2>1, <2>4 DEF ApiRefuses, Touch, vars
    <3>2. /\ FlightTypes(flights', issued')
          /\ DOMAIN flights \subseteq DOMAIN flights' /\ t \in DOMAIN flights'
          /\ \A x \in DOMAIN flights' : FlightBacked(x, flights'[x])
      BY <3>1, JoinedKeeps
    <3>3. \A d \in DOMAIN requests : Backed(requests[d])
      BY <3>2, StillBacked DEF ToldInv
    <3>4. /\ DOMAIN requests' = DOMAIN requests
          /\ \A d \in DOMAIN requests \ {c} : requests'[d] = requests[d]
          /\ requests'[c] \in Request
          /\ requests'[c].path = requests[c].path /\ requests'[c].token = requests[c].token
          /\ requests'[c].effect = requests[c].effect /\ requests'[c].step = "wait"
          /\ requests' = [d \in DOMAIN requests' |-> requests'[d]]
      BY <1>1, <1>2, <3>1 DEF Request
    <3>5. \A d \in DOMAIN requests' : Backed(requests'[d])
      BY <2>1, <3>2, <3>3, <3>4 DEF Backed
    <3>6. RequestTypes(requests', issued')
      BY <1>1, <3>1, <3>4 DEF RequestTypes, ToldInv, WebTypes
    <3> QED
      BY <1>1, <2>2, <3>2, <3>5, <3>6, JarKept DEF WebStep
  <2> QED
    BY <2>3, <2>4
<1>7. CASE SignedIn(c)
  <2>1. [Next]_vars /\ issued' = issued + 1 /\ issued < MaxSessions
    BY <1>7, WebAssumption DEF SignedIn, Next, Issue
  <2>2. issued + 1 \in Cookie /\ issued + 1 <= issued' /\ issued + 1 > 0
    BY <1>2, <2>1 DEF Cookie, Ids
  <2> QED
    BY <1>3, <1>7, <2>1, <2>2 DEF SignedIn, At
<1>8. CASE SignedOut(c)
  <2>1. [Next]_vars
    BY <1>2, <1>8 DEF SignedOut, Next
  <2>2. 0 <= issued' /\ 0 \in Cookie
    BY <1>4, <2>1 DEF Cookie
  <2> QED
    BY <1>3, <1>8, <2>1, <2>2 DEF SignedOut, At
<1>9. CASE CallFails(c)
  <2>1. [Next]_vars
    BY <1>9 DEF CallFails
  <2> QED
    BY <1>3, <1>4, <1>9, <2>1 DEF CallFails
<1>10. CASE CallsAgain(c)
  <2>1. PICK effect \in Cookie \cup {Keep} : effect = requests[c].effect
    BY <1>2
  <2>2. CASE Touch(effect) /\ Reply(c, effect)
    <3>1. effect \in Tokens
      <4>1. effect > 0 /\ effect <= issued
        BY <1>1, <1>2, <1>10, <2>1 DEF CallsAgain, At, ToldInv, AgainWithTokens
      <4> QED
        BY <1>2, <4>1 DEF Tokens, Cookie, Ids, Keep
    <3>2. [Next]_vars
      BY <2>2, <3>1 DEF Next
    <3>3. effect <= issued'
      BY <1>2, <1>4, <2>1, <3>1, <3>2 DEF Tokens
    <3> QED
      BY <1>3, <1>10, <2>1, <2>2, <3>2, <3>3 DEF CallsAgain
  <2>3. CASE UNCHANGED vars /\ Reply(c, Keep)
    <3>1. [Next]_vars
      BY <2>3
    <3> QED
      BY <1>3, <1>4, <1>10, <2>3, <3>1 DEF CallsAgain
  <2> QED
    BY <1>10, <2>1, <2>2, <2>3 DEF CallsAgain
<1> QED
  BY <1>5, <1>6, <1>7, <1>8, <1>9, <1>10 DEF CallEnds

(* A refresh ends, in any way, and is backed by what the API answered if it did. *)
LEMMA OutcomeBacked ==
  ASSUME ToldInv, issued <= issued', issued' \in Nat,
         NEW t \in DOMAIN flights, NEW f \in Flight, flights' = [flights EXCEPT ![t] = f],
         FlightBacked(t, f)
  PROVE  /\ FlightTypes(flights', issued')
         /\ DOMAIN flights' = DOMAIN flights
         /\ \A x \in DOMAIN flights' : FlightBacked(x, flights'[x])
<1>1. issued \in Nat
  BY WebFacts
<1>2. /\ DOMAIN flights' = DOMAIN flights /\ flights'[t] = f
      /\ \A x \in DOMAIN flights \ {t} : flights'[x] = flights[x]
      /\ flights' \in [DOMAIN flights -> Flight]
  BY DEF ToldInv, WebTypes
<1>3. FlightTypes(flights', issued')
  BY <1>1, <1>2 DEF FlightTypes, ToldInv, WebTypes
<1> QED
  BY <1>2, <1>3, FlightStillBacked

(* The refresh of a token is answered, not answered, or its answer is lost. *)
LEMMA RefreshStep ==
  ASSUME ToldInv, NEW t, RefreshEnds(t) \/ AnswerLost(t)
  PROVE  WebStep
<1>1. /\ t \in DOMAIN flights /\ t \in 1 .. issued /\ t \in Tokens
      /\ jar' = jar /\ requests' = requests
  BY WebFacts
     DEF RefreshEnds, RefreshAnswered, RefreshUnanswered, AnswerLost, InFlight, ToldInv, WebTypes
<1>2. ASSUME [Next]_vars, strays' \subseteq 1 .. issued', NEW f \in Flight,
             flights' = [flights EXCEPT ![t] = f], FlightBacked(t, f)
      PROVE  WebStep
  <2>1. issued' \in Nat /\ issued <= issued'
    BY <1>2, IssuedAfter
  <2>2. /\ FlightTypes(flights', issued')
        /\ DOMAIN flights' = DOMAIN flights
        /\ \A x \in DOMAIN flights' : FlightBacked(x, flights'[x])
    BY <1>1, <1>2, <2>1, OutcomeBacked
  <2>3. requests' = [d \in DOMAIN requests' |-> requests[d]]
    BY <1>1 DEF ToldInv, WebTypes
  <2>4. /\ RequestTypes(requests', issued')
        /\ \A c \in DOMAIN requests' : Backed(requests'[c])
    BY <1>1, <2>1, <2>2, <2>3, RequestsKept
  <2> QED
    BY <1>1, <1>2, <2>2, <2>4, JarKept DEF WebStep
<1>3. CASE RefreshAnswered(t)
  <2> DEFINE f == [outcome |-> IF answer'.kind = "ok" THEN "renewed" ELSE "rejected",
                   session |-> answer'.session]
  <2>1. Rotate(t) /\ [Next]_vars /\ strays' = strays
    BY <1>1, <1>3, RotateKinds DEF RefreshAnswered, ToldInv
  <2>2. TypeOK'
    BY <2>1, StepKinds DEF ToldInv, IInv
  <2>3. answer'.session \in Cookie
    BY <2>2 DEF TypeOK, Cookie
  <2>4. f \in Flight
    BY <2>3 DEF Flight
  <2>5. FlightBacked(t, f)
    BY <1>1, <2>1 DEF FlightBacked
  <2>6. flights' = [flights EXCEPT ![t] = f]
    BY <1>3 DEF RefreshAnswered, Outcome
  <2>7. strays' \subseteq 1 .. issued'
    BY <2>1, JarKept
  <2> HIDE DEF f
  <2> QED
    BY <1>2, <2>1, <2>4, <2>5, <2>6, <2>7
<1>4. CASE RefreshUnanswered(t) \/ AnswerLost(t)
  <2>1. PICK f : f = [outcome |-> "unreachable", session |-> 0]
    OBVIOUS
  <2>2. f \in Flight /\ f.outcome = "unreachable"
    BY <2>1 DEF Flight, Cookie
  <2>3. UNCHANGED vars /\ flights' = [flights EXCEPT ![t] = f]
    BY <1>4, <2>1 DEF RefreshUnanswered, AnswerLost, Outcome
  <2>4. FlightBacked(t, f)
    BY <2>2 DEF FlightBacked
  <2>5. strays' \subseteq 1 .. issued'
    BY <1>1, <1>4, <2>3, StoreStill DEF RefreshUnanswered, AnswerLost, ToldInv, WebTypes
  <2> QED
    BY <1>2, <2>2, <2>3, <2>4, <2>5
<1> QED
  BY <1>3, <1>4 DEF RefreshEnds

(* A step that leaves the refreshes alone and at most forgets requests. *)
LEMMA ForgetStep ==
  ASSUME ToldInv, [Next]_vars, flights' = flights, jar' \in 0 .. issued', strays' \subseteq strays,
         DOMAIN requests' \subseteq DOMAIN requests,
         requests' = [d \in DOMAIN requests' |-> requests[d]]
  PROVE  WebStep
<1>1. issued' \in Nat /\ issued <= issued'
  BY IssuedAfter
<1>2. flights' = [t \in DOMAIN flights' |-> flights[t]]
  BY DEF ToldInv, WebTypes
<1>3. /\ FlightTypes(flights', issued')
      /\ \A x \in DOMAIN flights' : FlightBacked(x, flights'[x])
  BY <1>1, <1>2, FlightsKept
<1>4. /\ RequestTypes(requests', issued')
      /\ \A c \in DOMAIN requests' : Backed(requests'[c])
  BY <1>1, RequestsKept
<1> QED
  BY <1>3, <1>4, JarKept DEF WebStep

(* A refresh that was given up reaches the API after all. *)
LEMMA StrayStep ==
  ASSUME ToldInv, NEW t, StrayServed(t)
  PROVE  WebStep
<1>1. t \in Tokens /\ Rotate(t) /\ UNCHANGED <<jar, requests, flights>> /\ strays' \subseteq strays
  BY WebFacts DEF StrayServed, ToldInv, WebTypes
<1>2. [Next]_vars
  BY <1>1, RotateKinds DEF ToldInv
<1>3. requests' = [d \in DOMAIN requests' |-> requests[d]]
  BY <1>1 DEF ToldInv, WebTypes
<1>4. jar' \in 0 .. issued'
  BY <1>1, <1>2, JarKept
<1> QED
  BY <1>1, <1>2, <1>3, <1>4, ForgetStep

(* A reply reaches the browser, or never does. *)
LEMMA DeliveryStep ==
  ASSUME ToldInv, NEW c \in Requests, ReplyEnds(c)
  PROVE  WebStep
<1>1. /\ c \in DOMAIN requests /\ requests' = Without(requests, {c})
      /\ UNCHANGED <<vars, flights, strays>>
      /\ \/ jar' = jar
         \/ jar' = requests[c].effect /\ requests[c].effect # Keep
  BY DEF ReplyEnds, Delivered, Abandoned, Replied
<1>2. [Next]_vars /\ issued' = issued
  BY <1>1 DEF vars
<1>3. jar' \in 0 .. issued'
  <2>1. /\ requests[c].effect \in Cookie \cup {Keep} /\ requests[c].effect <= issued
        /\ issued \in Nat
    BY <1>1, WebFacts
  <2>2. requests[c].effect # Keep => requests[c].effect \in 0 .. issued
    BY <2>1 DEF Cookie, Ids
  <2> QED
    BY <1>1, <1>2, <2>2 DEF ToldInv, WebTypes
<1>4. /\ DOMAIN requests' \subseteq DOMAIN requests
      /\ requests' = [d \in DOMAIN requests' |-> requests[d]]
  BY <1>1 DEF Without
<1> QED
  BY <1>1, <1>2, <1>3, <1>4, ForgetStep

(* The clock and the user's other devices. *)
LEMMA ElsewhereStep ==
  ASSUME ToldInv, Elsewhere \/ UNCHANGED allVars
  PROVE  WebStep
<1>1. UNCHANGED webVars
  BY DEF Elsewhere, allVars
<1>2. [Next]_vars
  <2>1. 0 \in Tokens
    BY WebFacts DEF Tokens
  <2> QED
    BY <2>1, WebAssumption DEF Elsewhere, Next, allVars
<1>3. jar' \in 0 .. issued'
  BY <1>1, <1>2, JarKept DEF webVars
<1>4. /\ DOMAIN requests' \subseteq DOMAIN requests
      /\ requests' = [d \in DOMAIN requests' |-> requests[d]]
  BY <1>1 DEF webVars, ToldInv, WebTypes
<1> QED
  BY <1>1, <1>2, <1>3, <1>4, ForgetStep DEF webVars

(* The promise settles: everyone who waited for it is told what it came to. *)
LEMMA SettleStep ==
  ASSUME ToldInv, NEW t, Settles(t)
  PROVE  WebStep
<1>1. /\ t \in DOMAIN flights /\ flights[t].outcome # "sent"
      /\ flights' = Without(flights, {t}) /\ UNCHANGED <<vars, jar, strays>>
      /\ requests' = [c \in DOMAIN requests |->
                        IF c \in Waiting(t) THEN AfterRenewal(requests[c], flights[t])
                        ELSE requests[c]]
  BY DEF Settles
<1>2. [Next]_vars /\ issued' = issued /\ issued \in Nat /\ issued <= issued'
  BY <1>1, WebFacts DEF vars
<1>3. /\ FlightTypes(flights', issued')
      /\ \A x \in DOMAIN flights' : FlightBacked(x, flights'[x])
      /\ DOMAIN flights' = DOMAIN flights \ {t}
  <2>1. /\ DOMAIN flights' = DOMAIN flights \ {t}
        /\ flights' = [x \in DOMAIN flights' |-> flights[x]]
    BY <1>1 DEF Without
  <2> QED
    BY <1>2, <2>1, FlightsKept
<1>4. flights[t] \in Flight /\ t # 0
  BY <1>1 DEF ToldInv, WebTypes
<1>5. ASSUME NEW c \in Waiting(t)
      PROVE  LET r == AfterRenewal(requests[c], flights[t])
             IN r \in Request /\ r.token <= issued /\ r.effect <= issued /\ Backed(r)
  <2>1. /\ c \in DOMAIN requests /\ requests[c].token = t /\ requests[c] \in Request
        /\ requests[c].token <= issued
    BY WebFacts DEF Waiting, ToldInv, WebTypes
  <2>2. PICK r : r = AfterRenewal(requests[c], flights[t])
    OBVIOUS
  <2>3. CASE flights[t].outcome = "renewed"
    <3>1. Granted(t, flights[t].session) /\ Grant(t, flights[t].session)
      BY <1>1, <2>3 DEF ToldInv, GrantsHold, Grant
    <3>2. r = [requests[c] EXCEPT !.step = IF requests[c].path = "api" THEN "again" ELSE "reply",
                                  !.effect = flights[t].session]
      BY <2>2, <2>3 DEF AfterRenewal
    <3>3. /\ flights[t].session \in Cookie /\ flights[t].session <= issued
          /\ flights[t].session > 0
      BY <1>2, <1>4, <3>1 DEF Flight, Granted
    <3>4. /\ r \in Request /\ r.token = t /\ r.effect = flights[t].session
          /\ r.step \in {"again", "reply"}
      BY <2>1, <3>2, <3>3 DEF Request
    <3>5. Backed(r)
      BY <3>1, <3>3, <3>4 DEF Backed
    <3> QED
      BY <2>1, <2>2, <3>3, <3>4, <3>5
  <2>4. CASE flights[t].outcome = "rejected"
    <3>1. Denied(t)
      BY <1>1, <2>4 DEF Denied
    <3>2. r = [requests[c] EXCEPT !.step = "reply", !.effect = 0]
      BY <2>2, <2>4 DEF AfterRenewal
    <3>3. r \in Request /\ r.token = t /\ r.effect = 0 /\ r.step = "reply"
      BY <2>1, <3>2 DEF Request, Cookie
    <3>4. Backed(r)
      BY <3>1, <3>3 DEF Backed
    <3> QED
      BY <1>2, <2>1, <2>2, <3>3, <3>4
  <2>5. CASE flights[t].outcome \notin {"renewed", "rejected"}
    <3>1. r = [requests[c] EXCEPT !.step = "reply", !.effect = Keep]
      BY <2>2, <2>5 DEF AfterRenewal
    <3>2. r \in Request /\ r.token = t /\ r.effect = Keep /\ r.step = "reply"
      BY <2>1, <3>1 DEF Request
    <3>3. Backed(r)
      BY <3>2 DEF Backed, Keep
    <3> QED
      BY <1>2, <2>1, <2>2, <3>2, <3>3 DEF Keep
  <2> QED
    BY <2>3, <2>4, <2>5
<1>6. ASSUME NEW c \in DOMAIN requests \ Waiting(t)
      PROVE  Backed(requests[c])
  BY <1>6, StillBacked
<1>7. /\ DOMAIN requests' = DOMAIN requests
      /\ \A c \in DOMAIN requests :
           /\ c \in Waiting(t) => requests'[c] = AfterRenewal(requests[c], flights[t])
           /\ c \notin Waiting(t) => requests'[c] = requests[c]
      /\ requests' = [c \in DOMAIN requests' |-> requests'[c]]
  BY <1>1
<1>8. ASSUME NEW c \in DOMAIN requests'
      PROVE  /\ requests'[c] \in Request /\ requests'[c].token <= issued'
             /\ requests'[c].effect <= issued' /\ Backed(requests'[c])
  <2>1. CASE c \in Waiting(t)
    BY <1>2, <1>5, <1>7, <2>1
  <2>2. CASE c \notin Waiting(t)
    BY <1>2, <1>6, <1>7, <2>2, WebFacts DEF ToldInv, WebTypes
  <2> QED
    BY <2>1, <2>2
<1>9. RequestTypes(requests', issued')
  BY <1>7, <1>8 DEF RequestTypes, ToldInv, WebTypes
<1> QED
  BY <1>1, <1>2, <1>3, <1>8, <1>9, JarKept DEF WebStep

-----------------------------------------------------------------------------
(* The theorems.                                                           *)

(* Every step of the web tier is summarised by WebStep. *)
LEMMA WebSteps ==
  ASSUME ToldInv, [WebNext]_allVars
  PROVE  WebStep
  BY ArrivalStep, CallStep, DeliveryStep, RefreshStep, StrayStep, SettleStep, ElsewhereStep
     DEF WebNext

(* WebInv holds initially. *)
LEMMA WebInvInit == WebInit => WebInv
<1> SUFFICES ASSUME WebInit PROVE WebInv
  OBVIOUS
<1>1. IInv
  BY IInvInit DEF WebInit
<1>2. DOMAIN requests = {} /\ DOMAIN flights = {} /\ strays = {} /\ jar = 0 /\ issued = 0
  BY DEF WebInit, Init
<1>3. requests = [c \in {} |-> Keep] /\ flights = [t \in {} |-> Keep]
  BY DEF WebInit
<1>4. WebTypes
  BY <1>2, <1>3 DEF WebTypes
<1> QED
  BY <1>1, <1>2, <1>4
     DEF WebInv, ToldInv, AgainWithTokens, RejectedIsOver, GrantsHold, GrantsAgree,
         Grant

(* What was told before a step is still so after it, and what is answered in it is so. *)
LEMMA ToldInvStep == ToldInv /\ [WebNext]_allVars => ToldInv'
<1> SUFFICES ASSUME ToldInv, [WebNext]_allVars
             PROVE  ToldInv'
  OBVIOUS
<1>1. WebStep
  BY WebSteps
<1>2. [Next]_vars /\ IInv /\ IInv' /\ issued \in Nat
  BY <1>1, IInvStep, WebFacts DEF WebStep, ToldInv
<1>3. WebTypes'
  BY <1>1 DEF WebStep, RequestTypes, FlightTypes, WebTypes
<1>4. AgainWithTokens'
  BY <1>1 DEF WebStep, Backed, AgainWithTokens
<1>5. ASSUME NEW t, NEW e, Grant(t, e)'
      PROVE  \/ Grant(t, e)
             \/ t \in Tokens /\ Rotate(t) /\ answer'.kind = "ok" /\ e = answer'.session
  <2>1. \/ t \in DOMAIN flights' /\ flights'[t].outcome = "renewed" /\ flights'[t].session = e
        \/ \E c \in DOMAIN requests' :
             /\ requests'[c].path # "signin" /\ requests'[c].token = t
             /\ requests'[c].effect = e /\ e > 0
    BY <1>5 DEF Grant
  <2>2. ASSUME t \in DOMAIN flights', flights'[t].outcome = "renewed", flights'[t].session = e
        PROVE  \/ Grant(t, e)
               \/ t \in Tokens /\ Rotate(t) /\ answer'.kind = "ok" /\ e = answer'.session
    BY <1>1, <2>2 DEF WebStep, FlightBacked
  <2>3. ASSUME NEW c \in DOMAIN requests', requests'[c].path # "signin", requests'[c].token = t,
               requests'[c].effect = e, e > 0
        PROVE  Grant(t, e)
    BY <1>1, <2>3 DEF WebStep, Backed
  <2> QED
    BY <2>1, <2>2, <2>3
<1>6. GrantsHold'
  <2>1. ASSUME NEW t, NEW e, Grant(t, e)' PROVE Granted(t, e)'
    <3>1. CASE Grant(t, e)
      BY <1>2, <3>1, GrantedStays DEF ToldInv, GrantsHold
    <3>2. CASE t \in Tokens /\ Rotate(t) /\ answer'.kind = "ok" /\ e = answer'.session
      <4>1. Granted(t, answer.session)'
        BY <1>2, <3>2, AnswerGrants
      <4> QED
        BY <3>2, <4>1 DEF Granted
    <3> QED
      BY <1>5, <2>1, <3>1, <3>2
  <2> QED
    BY <2>1 DEF GrantsHold
<1>7. GrantsAgree'
  <2>1. ASSUME NEW t, NEW d, NEW e, Grant(t, d)', Grant(t, e)' PROVE d = e
    <3>1. Grant(t, d) => Granted(t, d)
      BY DEF ToldInv, GrantsHold
    <3>2. Grant(t, e) => Granted(t, e)
      BY DEF ToldInv, GrantsHold
    <3>3. Grant(t, d) /\ Grant(t, e) => d = e
      BY DEF ToldInv, GrantsAgree
    <3>4. t \in Tokens /\ Rotate(t) /\ answer'.kind = "ok"
            => \A x : Granted(t, x) => x = answer'.session
      BY <1>2, AnswerGrants
    <3> QED
      BY <1>5, <2>1, <3>1, <3>2, <3>3, <3>4
  <2> QED
    BY <2>1 DEF GrantsAgree
<1> QED
  BY <1>2, <1>3, <1>4, <1>6, <1>7 DEF ToldInv

(* Where only the API refuses tokens, a refused token's sign-in is over and stays so. *)
LEMMA WebInvStep == WebInv /\ [WebNext]_allVars => WebInv'
<1> SUFFICES ASSUME WebInv, [WebNext]_allVars
             PROVE  WebInv'
  OBVIOUS
<1>t. ToldInv /\ ToldInv'
  BY ToldInvStep DEF WebInv
<1>1. WebStep
  BY <1>t, WebSteps
<1>2. [Next]_vars /\ IInv /\ IInv'
  BY <1>t, <1>1 DEF WebStep, ToldInv
<1>3. ASSUME NEW t, Denied(t) \/ t = 0 \/ (t \in Tokens /\ Rotate(t) /\ answer'.kind # "ok")
      PROVE  Over(t)'
  <2>1. CASE Denied(t)
    <3>1. Over(t)
      BY <2>1 DEF Denied, WebInv, RejectedIsOver
    <3>2. t \in 0 .. issued
      BY <1>t, <2>1, WebFacts DEF Denied, ToldInv, WebTypes
    <3> QED
      BY <1>2, <3>1, <3>2, OverStays
  <2>2. CASE t = 0
    BY <1>2, <2>2 DEF Over, IInv, TypeOK
  <2>3. CASE t \in Tokens /\ Rotate(t) /\ answer'.kind # "ok"
    BY <1>2, <2>3, RefusedIsOver
  <2> QED
    BY <1>3, <2>1, <2>2, <2>3
<1>4. RejectedIsOver'
  <2>1. ASSUME NEW t \in DOMAIN flights', flights'[t].outcome = "rejected" PROVE Over(t)'
    <3>1. Denied(t) \/ (t \in Tokens /\ Rotate(t) /\ answer'.kind # "ok")
      BY <1>1, <2>1 DEF WebStep, FlightBacked
    <3> QED
      BY <1>3, <3>1
  <2>2. ASSUME NEW c \in DOMAIN requests',
               requests'[c].path \in {"page", "api"}, requests'[c].effect = 0
        PROVE  Over(requests[c].token)'
    <3>1. PICK t : t = requests'[c].token
      OBVIOUS
    <3>2. t = 0 \/ Denied(t)
      BY <1>1, <2>2, <3>1 DEF WebStep, Backed
    <3>3. Over(t)'
      BY <1>3, <3>2
    <3> QED
      BY <3>1, <3>3 DEF Over
  <2> QED
    BY <2>1, <2>2 DEF RejectedIsOver
<1> QED
  BY <1>t, <1>4 DEF WebInv

(* The invariant of the web tier and its store, in every reachable state. *)
THEOREM WebInvariance == WebSpec => []WebInv
  BY WebInvInit, WebInvStep, PTL DEF WebSpec

(* The variables of the web tier and of the store keep their types: no request, refresh or
   stray call ever names a session that was not issued. *)
THEOREM WebTypeCorrect == WebSpec => []WebTypeOK
<1>1. WebInv => WebTypeOK
  BY DEF WebInv, ToldInv, IInv, WebTypes, WebTypeOK
<1> QED
  BY <1>1, WebInvariance, PTL

(* Whenever a renewal is about to delete the browser's cookies, the sign-in they came from has
   no usable session left, whatever was lost, late, repeated or reordered on the way
   (session-renewal.ts:119-124). *)
THEOREM RejectionsAreFinal == WebSpec => []RejectedIsOver
<1>1. WebInv => RejectedIsOver
  BY DEF WebInv
<1> QED
  BY <1>1, WebInvariance, PTL

(* Everyone who presented one refresh token is given the same replacement, also after the store
   has pruned the token, its replacement and its grace entry. *)
THEOREM RenewalsConverge == WebSpec => []TabsConverge
<1>1. WebInv => TabsConverge
  BY DEF WebInv, ToldInv, GrantsAgree, Grant, TabsConverge
<1> QED
  BY <1>1, WebInvariance, PTL

-----------------------------------------------------------------------------
(* With the rate limiter in front of the API.  It tells a caller that its  *)
(* token was refused, when it was not: RejectedIsOver falls (the run of    *)
(* MCWebRenewalThrottled.cfg shows how), and ToldInv stands.               *)

\* What is told after a 429 was told before it.
LEMMA ThrottledToldStep ==
  ASSUME ToldInv, NEW t, RefreshThrottled(t)
  PROVE  ToldInv'
<1>1. PICK f : f = [outcome |-> "rejected", session |-> 0]
  OBVIOUS
<1>2. /\ t \in DOMAIN flights /\ flights' = [flights EXCEPT ![t] = f]
      /\ UNCHANGED vars /\ jar' = jar /\ requests' = requests /\ strays' = strays
  BY <1>1 DEF RefreshThrottled, InFlight, Outcome
<1>3. f \in Flight /\ f.outcome = "rejected"
  BY <1>1 DEF Flight, Cookie
<1>4. IInv' /\ issued' = issued
  BY <1>2, IInvStep DEF ToldInv, vars
<1>5. /\ DOMAIN flights' = DOMAIN flights
      /\ \A x \in DOMAIN flights : x # t => flights'[x] = flights[x]
      /\ flights'[t] = f
      /\ flights' \in [DOMAIN flights' -> Flight]
  BY <1>2, <1>3 DEF ToldInv, WebTypes
<1>6. WebTypes'
  BY <1>2, <1>4, <1>5 DEF ToldInv, WebTypes
<1>7. AgainWithTokens'
  BY <1>2, <1>5 DEF ToldInv, AgainWithTokens
<1>8. ASSUME NEW x, NEW e, Grant(x, e)' PROVE Grant(x, e) /\ Granted(x, e)'
  <2>1. Grant(x, e)
    BY <1>2, <1>3, <1>5, <1>8 DEF Grant
  <2>2. Granted(x, e)
    BY <2>1 DEF ToldInv, GrantsHold
  <2> QED
    BY <1>2, <2>1, <2>2 DEF Granted, vars
<1>9. GrantsHold'
  BY <1>8 DEF GrantsHold
<1>10. GrantsAgree'
  <2>1. ASSUME NEW x, NEW d, NEW e, Grant(x, d)', Grant(x, e)' PROVE d = e
    <3>1. Grant(x, d) /\ Grant(x, e)
      BY <1>8, <2>1
    <3> QED
      BY <3>1 DEF ToldInv, GrantsAgree
  <2> QED
    BY <2>1 DEF GrantsAgree
<1> QED
  BY <1>4, <1>6, <1>7, <1>9, <1>10 DEF ToldInv

LEMMA ThrottledToldInv == ThrottledSpec => []ToldInv
<1>1. WebInit => ToldInv
  BY WebInvInit DEF WebInv
<1>2. ToldInv /\ [WebNext \/ \E t \in Ids : RefreshThrottled(t)]_allVars => ToldInv'
  BY ToldInvStep, ThrottledToldStep
<1> QED
  BY <1>1, <1>2, PTL DEF ThrottledSpec

(* The rate limiter costs no more than RejectedIsOver: also with it, everyone who presented one
   refresh token is given the same replacement (session-renewal.ts:119-124). *)
THEOREM ThrottledRenewalsConverge == ThrottledSpec => []TabsConverge
<1>1. ToldInv => TabsConverge
  BY DEF ToldInv, GrantsAgree, Grant, TabsConverge
<1> QED
  BY <1>1, ThrottledToldInv, PTL

(* The web tier reaches the session store through the store's own operations only, whatever the
   network and the rate limiter do in between. *)
THEOREM WebImplementsSessions == ThrottledSpec => Spec
<1>1. WebInit => Init
  BY DEF WebInit
<1>2. ToldInv /\ [WebNext \/ \E t \in Ids : RefreshThrottled(t)]_allVars => [Next]_vars
  <2>1. ToldInv /\ [WebNext]_allVars => [Next]_vars
    BY WebSteps DEF WebStep
  <2>2. ASSUME NEW t, RefreshThrottled(t) PROVE [Next]_vars
    BY <2>2 DEF RefreshThrottled
  <2> QED
    BY <2>1, <2>2
<1> QED
  BY <1>1, <1>2, ThrottledToldInv, PTL DEF ThrottledSpec, Spec

(* So that all the store promises by itself holds of it behind a browser whose calls time out, are
   repeated and are served late: a family is never forked, a token has one replacement, what is
   answered is usable, a family caught in reuse stays dead, what has lapsed stays lapsed, and the
   bound on concurrent sessions is kept and kept fairly. *)
THEOREM WebKeepsSessions ==
  ThrottledSpec =>
    /\ [](OneUnrevokedPerFamily /\ OneReplacementPerToken /\ AnswerIsUsable
           /\ ReusedFamilyIsDead /\ ConcurrencyBounded)
    /\ LapsedStaysLapsed /\ EvictsLeastRecentlyUsed /\ ImplementsFamilies
  BY WebImplementsSessions, NeverForked, RedeemedOnce, AnswersUsable, ReuseIsFinal,
     ConcurrencyIsBounded, LapsedIsFinal, EvictionIsFair, Refinement, PTL
=============================================================================
