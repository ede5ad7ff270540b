------------------------------ MODULE WebRenewal ------------------------------
(***************************************************************************)
(* The web tier between a browser and the session store of module          *)
(* Sessions: the route-protection proxy, the API proxy route and the       *)
(* sign-in and sign-out actions, which trade the refresh cookie for new    *)
(* tokens through the single-flight renewSession, over a network in which  *)
(* calls time out, are served late or not at all, and in which responses   *)
(* reach the browser in any order or never.                                *)
(*                                                                         *)
(* The access and the refresh cookie are set and deleted together, so the  *)
(* browser's jar is the session they belong to.  The access token lapses   *)
(* by a clock of its own; whether a request finds it spent is left open.   *)
(* Pages, bodies, CSRF and the next-path are left out.                     *)
(***************************************************************************)
EXTENDS Sessions

CONSTANTS
  Visitor,        \* the user at the browser
  Requests        \* bound: requests of the browser under way at one time

ASSUME WebAssumption == Visitor \in Users

VARIABLES
  jar,            \* the session whose cookies the browser holds, 0 for none
  requests,       \* request -> how far the web tier is with it
  flights,        \* the inFlight map: token -> the refresh it joins
  strays          \* tokens whose refresh was given up and may still reach the API

webVars == <<jar, requests, flights, strays>>
allVars == <<vars, webVars>>

Cookie == Ids \cup {0}
Keep == -1

\* effect is what the response will do to the cookies: keep them, delete them (0) or set those
\* of a session.
Request ==
  [path : {"page", "api", "signin", "signout"}, step : {"call", "wait", "again", "reply"},
   token : Cookie, effect : Cookie \cup {Keep}]

Flight == [outcome : {"sent", "renewed", "rejected", "unreachable"}, session : Cookie]

WebTypeOK ==
  /\ TypeOK
  /\ jar \in 0 .. issued
  /\ DOMAIN requests \subseteq Requests
  /\ requests \in [DOMAIN requests -> Request]
  /\ \A c \in DOMAIN requests : requests[c].token <= issued /\ requests[c].effect <= issued
  /\ DOMAIN flights \subseteq 1 .. issued
  /\ flights \in [DOMAIN flights -> Flight]
  /\ strays \subseteq 1 .. issued

WebInit ==
  /\ Init
  /\ jar = 0
  /\ requests = [c \in {} |-> Keep]
  /\ flights = [t \in {} |-> Keep]
  /\ strays = {}

Put(f, x, v) == [y \in DOMAIN f \cup {x} |-> IF y = x THEN v ELSE f[y]]

-----------------------------------------------------------------------------
(* A request arrives, with the cookies of this moment.                     *)

New(c, path, step, token, effect) ==
  /\ c \notin DOMAIN requests
  /\ requests' = Put(requests, c, [path |-> path, step |-> step, token |-> token, effect |-> effect])

\* singleFlight(): the refresh of this token that is under way, or a new one.
Joined(t) ==
  IF t \in DOMAIN flights THEN flights ELSE Put(flights, t, [outcome |-> "sent", session |-> 0])

\* Mutant: the renewal is tried without a refresh cookie.
PageRenews_NoCookie(c) ==
  /\ New(c, "page", "wait", jar, Keep)
  /\ flights' = Joined(jar)
  /\ UNCHANGED <<vars, jar, strays>>

\* The route-protection proxy, for a page of the dashboard or the sign-in page, when the access
\* token is spent.  (When it is not, no cookie of the session is touched.)
PageRenews(c) ==
  /\ jar # 0
  /\ New(c, "page", "wait", jar, Keep)
  /\ flights' = Joined(jar)
  /\ UNCHANGED <<vars, jar, strays>>

PageHasNone(c) ==
  /\ jar = 0
  /\ New(c, "page", "reply", 0, 0)
  /\ UNCHANGED <<vars, jar, flights, strays>>

\* A call through the API route, a sign-in and a sign-out call the API first.
Calls(c, path) ==
  /\ path \in {"api", "signin", "signout"}
  /\ New(c, path, "call", IF path = "signin" THEN 0 ELSE jar, Keep)
  /\ UNCHANGED <<vars, jar, flights, strays>>

-----------------------------------------------------------------------------
(* The API is called, before any renewal.                                  *)

At(c, path, step) ==
  c \in DOMAIN requests /\ requests[c].path = path /\ requests[c].step = step

Reply(c, effect) == requests' = [requests EXCEPT ![c].step = "reply", ![c].effect = effect]

\* The guard finds the access token good and touches its session.
ApiServes(c) ==
  /\ At(c, "api", "call")
  /\ Usable(requests[c].token)
  /\ Touch(requests[c].token)
  /\ Reply(c, Keep)
  /\ UNCHANGED <<jar, flights, strays>>

\* 401: the token is spent, and nothing is touched, or its session is not usable, and touch()
\* retires it if it is idle.  With a refresh cookie, it is exchanged.
ApiRefuses(c) ==
  /\ At(c, "api", "call")
  /\ LET t == requests[c].token
     IN /\ \/ UNCHANGED vars
           \/ ~Usable(t) /\ Touch(t)
        /\ IF t = 0
           THEN Reply(c, Keep) /\ UNCHANGED flights
           ELSE /\ requests' = [requests EXCEPT ![c].step = "wait"]
                /\ flights' = Joined(t)
  /\ UNCHANGED <<jar, strays>>

SignedIn(c) ==
  /\ At(c, "signin", "call")
  /\ Issue(Visitor)
  /\ Reply(c, issued + 1)
  /\ UNCHANGED <<jar, flights, strays>>

\* Whatever becomes of the call, a sign-out ends with the cookies deleted.
SignedOut(c) ==
  /\ At(c, "signout", "call")
  /\ Revoke(requests[c].token) \/ UNCHANGED vars
  /\ Reply(c, 0)
  /\ UNCHANGED <<jar, flights, strays>>

\* No answer, or one that is no 401, and for a sign-in no success.
CallFails(c) ==
  /\ At(c, "api", "call") \/ At(c, "signin", "call")
  /\ Reply(c, Keep)
  /\ UNCHANGED <<vars, jar, flights, strays>>

-----------------------------------------------------------------------------
(* renewSession(): the life of a refresh.                                  *)

InFlight(t) == t \in DOMAIN flights /\ flights[t].outcome = "sent"

Outcome(t, outcome, s) == flights' = [flights EXCEPT ![t] = [outcome |-> outcome, session |-> s]]

\* The API answers, by what rotate() returned: the replacement, or a 401.
RefreshAnswered(t) ==
  /\ InFlight(t)
  /\ Rotate(t)
  /\ Outcome(t, IF answer'.kind = "ok" THEN "renewed" ELSE "rejected", answer'.session)
  /\ UNCHANGED <<jar, requests, strays>>

\* The rate limiter answers in place of the controller with a 429, which is a 4xx like any other.
RefreshThrottled(t) ==
  /\ InFlight(t)
  /\ Outcome(t, "rejected", 0)
  /\ UNCHANGED <<vars, jar, requests, strays>>

\* The call fails before it reaches the API, is given up and may arrive later, or is answered
\* with a 5xx.
RefreshUnanswered(t) ==
  /\ InFlight(t)
  /\ Outcome(t, "unreachable", 0)
  /\ strays' \in {strays, strays \cup {t}}
  /\ UNCHANGED <<vars, jar, requests>>

\* The API has answered, too late or beyond understanding.
AnswerLost(t) ==
  /\ t \in DOMAIN flights
  /\ flights[t].outcome \in {"renewed", "rejected"}
  /\ Outcome(t, "unreachable", 0)
  /\ UNCHANGED <<vars, jar, requests, strays>>

StrayServed(t) ==
  /\ t \in strays
  /\ strays' = strays \ {t}
  /\ Rotate(t)
  /\ UNCHANGED <<jar, requests, flights>>

\* Mutant: anything but success deletes the cookies.
AfterRenewal_ClearsAlways(r, f) ==
  CASE f.outcome = "renewed" ->
         [r EXCEPT !.step = IF r.path = "api" THEN "again" ELSE "reply", !.effect = f.session]
    [] OTHER -> [r EXCEPT !.step = "reply", !.effect = 0]

\* A request that waited goes on by the outcome; the API route calls again first.
AfterRenewal(r, f) ==
  CASE f.outcome = "renewed" ->
         [r EXCEPT !.step = IF r.path = "api" THEN "again" ELSE "reply", !.effect = f.session]
    [] f.outcome = "rejected" -> [r EXCEPT !.step = "reply", !.effect = 0]
    [] OTHER -> [r EXCEPT !.step = "reply", !.effect = Keep]

Waiting(t) == {c \in DOMAIN requests : requests[c].step = "wait" /\ requests[c].token = t}

\* The promise settles: everyone who shared it goes on, and the entry is dropped.
Settles(t) ==
  /\ t \in DOMAIN flights
  /\ flights[t].outcome # "sent"
  /\ requests' = [c \in DOMAIN requests |->
                    IF c \in Waiting(t) THEN AfterRenewal(requests[c], flights[t])
                    ELSE requests[c]]
  /\ flights' = Without(flights, {t})
  /\ UNCHANGED <<vars, jar, strays>>

\* The API route's second call, answered whatever it says, or not: then the new tokens are
\* dropped with the response that would have carried them.
CallsAgain(c) ==
  /\ At(c, "api", "again")
  /\ \/ Touch(requests[c].effect) /\ Reply(c, requests[c].effect)
     \/ UNCHANGED vars /\ Reply(c, Keep)
  /\ UNCHANGED <<jar, flights, strays>>

-----------------------------------------------------------------------------
(* Responses reach the browser, in any order.                              *)

Replied(c) == c \in DOMAIN requests /\ requests[c].step = "reply"

Delivered(c) ==
  /\ Replied(c)
  /\ jar' = IF requests[c].effect = Keep THEN jar ELSE requests[c].effect
  /\ requests' = Without(requests, {c})
  /\ UNCHANGED <<vars, flights, strays>>

\* The connection is gone: a tab closed, a prefetch cancelled.
Abandoned(c) ==
  /\ Replied(c)
  /\ requests' = Without(requests, {c})
  /\ UNCHANGED <<vars, jar, flights, strays>>

\* The clock, and what other devices of the user do.
Elsewhere ==
  /\ Tick \/ RevokeAllForUser(Visitor, 0)
  /\ UNCHANGED webVars

-----------------------------------------------------------------------------

CallEnds(c) == ApiServes(c) \/ ApiRefuses(c) \/ SignedIn(c) \/ SignedOut(c) \/ CallFails(c)
RefreshEnds(t) == RefreshAnswered(t) \/ RefreshUnanswered(t)
ReplyEnds(c) == Delivered(c) \/ Abandoned(c)

WebNext ==
  \/ \E c \in Requests :
       \/ PageRenews(c) \/ PageHasNone(c)
       \/ \E path \in {"api", "signin", "signout"} : Calls(c, path)
       \/ CallEnds(c) \/ CallsAgain(c) \/ ReplyEnds(c)
  \/ \E t \in Ids : RefreshEnds(t) \/ AnswerLost(t) \/ StrayServed(t) \/ Settles(t)
  \/ Elsewhere

\* The rate limiter is switched off (THROTTLE_DISABLED) or its limit not reached.
WebSpec == WebInit /\ [][WebNext]_allVars

ThrottledSpec == WebInit /\ [][WebNext \/ \E t \in Ids : RefreshThrottled(t)]_allVars

-----------------------------------------------------------------------------
(* Properties.                                                             *)

\* No session of the sign-in that token t stems from is usable, as far as the store remembers.
Over(t) ==
  t \in DOMAIN sessions => \A s \in FamilyOf(sessions, sessions[t].family) : ~Usable(s)

(***************************************************************************)
(* "The API answered and said no.  The session really is over."  Whenever  *)
(* a renewal is about to delete the browser's cookies, the sign-in they    *)
(* came from has no usable session left: a lost answer, a 5xx, a refresh   *)
(* served late or a replayed token does not sign anyone out by itself      *)
(* (session-renewal.ts:119-124).                                           *)
(***************************************************************************)
RejectedIsOver ==
  /\ \A t \in DOMAIN flights : flights[t].outcome = "rejected" => Over(t)
  /\ \A c \in DOMAIN requests :
       LET r == requests[c]
       IN r.path \in {"page", "api"} /\ r.effect = 0 => Over(r.token)

(***************************************************************************)
(* However the refreshes of one token overlap, are repeated after a lost   *)
(* answer or served late, everyone who presented it is given the same      *)
(* replacement, so that the tabs of a browser end up on one session.       *)
(***************************************************************************)
TabsConverge ==
  \A c, d \in DOMAIN requests :
    LET q == requests[c]
        r == requests[d]
    IN /\ q.path # "signin" /\ r.path # "signin"
       /\ q.token = r.token
       /\ q.effect > 0 /\ r.effect > 0
       => q.effect = r.effect
=============================================================================
