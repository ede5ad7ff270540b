----------------------------- MODULE Generation -----------------------------
(***************************************************************************)
(* AiService over the ModelRouterService, with the brand voice and the     *)
(* SafetyService that judge what a provider wrote.  A generation waits for *)
(* its providers, one after the other; policies and the voice may change   *)
(* while it waits, and are read when it is answered.  A text is what the   *)
(* rules see in it; its platforms, tokens, cost and latency are left out,  *)
(* and so is the router's status report.                                   *)
(***************************************************************************)
EXTENDS Service

CONSTANTS
  Calls,        \* generate requests; one is made at most once
  Priority,     \* the remote providers, in the order of AI_PROVIDER_PRIORITY
  Terms,        \* words a policy blocks or a voice bans or prefers
  LogCap,       \* MAX_GENERATION_LOG_ENTRIES
  MaxPolicies,  \* bound: safety policies
  MaxChecks     \* bound: content checks

VARIABLES
  mode,         \* AI_PROVIDER: "auto" or a provider, fixed when the process starts
  configured,   \* the remote providers with credentials, fixed likewise
  calls,        \* how far each call is, and the providers it has tried
  voice,        \* the brand voice's vocabulary, which an update changes in place
  policies,     \* oldest first; all are active
  checks,       \* oldest first
  queue,        \* moderation items, oldest first
  generations   \* the generation log, oldest first

generationVars ==
  <<mode, configured, calls, voice, policies, checks, queue, generations>>
settings == <<mode, configured>>

GenerationAssumption ==
  /\ LogCap \in Nat \ {0}
  /\ Priority \in Seq(STRING)
  /\ "local" \notin {Priority[i] : i \in DOMAIN Priority}
  /\ IsFiniteSet(Terms)
  /\ Calls \cap {"manual", "demo"} = {}
ASSUME GenerationAssumption

Remote == {Priority[i] : i \in DOMAIN Priority}
Providers == Remote \cup {"local"}

\* What scoreText looks for, and its scores in hundredths.
Patterns == {"email", "card", "medical", "financial"}
PatternScore == [email |-> 22, card |-> 48, medical |-> 48, financial |-> 55]
Text == [patterns : SUBSET Patterns, terms : SUBSET Terms]
Voice == [preferred : SUBSET Terms, industry : SUBSET Terms, banned : SUBSET Terms]

SafetyPolicy == [terms : SUBSET Terms, maxRisk : 0 .. 100]
SafetyCheck ==
  [source : Calls \cup {"manual", "demo"}, policy : Nat, risk : 0 .. 100,
   status : {"passed", "flagged", "blocked"}]
ModerationItem == [check : Nat, status : {"open", "approved", "rejected", "resolved"}]
RoutingAttempt == [provider : Providers, status : {"skipped", "failed", "succeeded"}]
GenerationLog ==
  [call : Calls, provider : Providers, fallbackUsed : BOOLEAN, text : Text, blocked : BOOLEAN,
   check : Nat]

GenerationTypeOK ==
  /\ mode \in {"auto"} \cup Providers
  /\ configured \subseteq Remote
  /\ calls \in [Calls -> [stage : {"idle", "waiting", "answered"}, attempts : Seq(RoutingAttempt)]]
  /\ voice \in Voice
  /\ policies \in Seq(SafetyPolicy)
  /\ checks \in Seq(SafetyCheck)
  /\ queue \in Seq(ModerationItem)
  /\ generations \in Seq(GenerationLog)
  /\ \A k \in DOMAIN checks : checks[k].policy \in DOMAIN policies
  /\ \A q \in DOMAIN queue : queue[q].check \in DOMAIN checks
  /\ \A g \in DOMAIN generations : generations[g].check \in DOMAIN checks

\* The fixtures: a policy, and a check it blocked that is waiting for a moderator.  Their voices
\* have no term in common with the policy.
FixturePolicies == << [terms |-> Terms, maxRisk |-> 72] >>
FixtureChecks == << [source |-> "demo", policy |-> 1, risk |-> 92, status |-> "blocked"] >>
FixtureQueue == << [check |-> 1, status |-> "open"] >>

GenerationInit ==
  /\ mode \in {"auto"} \cup Providers
  /\ configured \in SUBSET Remote
  /\ calls = [c \in Calls |-> [stage |-> "idle", attempts |-> <<>>]]
  /\ voice = [preferred |-> {}, industry |-> {}, banned |-> {}]
  /\ policies = FixturePolicies
  /\ checks = FixtureChecks
  /\ queue = FixtureQueue
  /\ generations = <<>>

-----------------------------------------------------------------------------
(* SafetyService. *)

CreatePolicy(policy) ==
  /\ Len(policies) < MaxPolicies
  /\ policies' = Append(policies, policy)
  /\ UNCHANGED <<settings, calls, voice, checks, queue, generations>>

\* Mutant: the oldest active policy is found first.
ActivePolicy_Oldest == 1

\* The newest: policies are put at the front of the list and searched from there.
ActivePolicy == Len(policies)

\* The scores of what a check found, before they are cut.
FoundScore(text, policy) ==
  LET Points(pattern) == IF pattern \in text.patterns THEN PatternScore[pattern] ELSE 0
  IN Points("email") + Points("card") + Points("medical") + Points("financial")
       + 35 * Cardinality(text.terms \cap policies[policy].terms)

\* Mutant: a risk is not cut at a hundred.
RiskScore_Uncut(text, policy) == FoundScore(text, policy)

RiskScore(text, policy) ==
  IF FoundScore(text, policy) > 100 THEN 100 ELSE FoundScore(text, policy)

HasFlags(text, policy) == text.patterns # {} \/ text.terms \cap policies[policy].terms # {}

\* What a check of the text under the policy in force is.
CheckOf(source, text) ==
  LET policy == ActivePolicy
      risk == RiskScore(text, policy)
  IN [source |-> source, policy |-> policy, risk |-> risk,
      status |-> IF risk >= policies[policy].maxRisk THEN "blocked"
                 ELSE IF HasFlags(text, policy) THEN "flagged" ELSE "passed"]

\* Mutant: only generated text is put before a moderator.
EvaluateContent_Generated(source, text) ==
  LET check == CheckOf(source, text)
  IN /\ Len(checks) < MaxChecks
     /\ checks' = Append(checks, check)
     /\ queue' = IF check.status = "blocked" /\ source # "manual"
                 THEN Append(queue, [check |-> Len(checks'), status |-> "open"]) ELSE queue

EvaluateContent(source, text) ==
  LET check == CheckOf(source, text)
  IN /\ Len(checks) < MaxChecks
     /\ checks' = Append(checks, check)
     /\ queue' = IF check.status = "blocked"
                 THEN Append(queue, [check |-> Len(checks'), status |-> "open"]) ELSE queue

Evaluate(text) ==
  /\ EvaluateContent("manual", text)
  /\ UNCHANGED <<settings, calls, voice, policies, generations>>

\* A closed item may be closed again, another way.
ResolveModerationItem(q, status) ==
  /\ status # "open"
  /\ queue' = [queue EXCEPT ![q].status = status]
  /\ UNCHANGED <<settings, calls, voice, policies, checks, generations>>

-----------------------------------------------------------------------------
(* The brand voice. *)

UpdateVoice(vocabulary) ==
  /\ voice' = vocabulary
  /\ UNCHANGED <<settings, calls, policies, checks, queue, generations>>

\* BrandVoicesService.evaluateText.
BannedTerms(text) == text.terms \cap voice.banned
VoiceScore(text) ==
  LET bonus == 82 + 4 * Cardinality(text.terms \cap voice.preferred)
                  + 2 * Cardinality(text.terms \cap voice.industry)
      malus == 18 * Cardinality(BannedTerms(text))
  IN IF malus >= bonus THEN 0 ELSE IF bonus - malus > 100 THEN 100 ELSE bonus - malus

-----------------------------------------------------------------------------
(* The router. *)

\* The providers a generation tries: a pinned one whether or not it has credentials.
CandidateOrder ==
  LET usable[i \in 0 .. Len(Priority)] ==
        IF i = 0 THEN <<>>
        ELSE IF Priority[i] \in configured THEN Append(usable[i - 1], Priority[i]) ELSE usable[i - 1]
  IN IF mode = "auto" THEN Append(usable[Len(Priority)], "local")
     ELSE IF mode = "local" THEN <<"local">> ELSE <<mode, "local">>

IsConfigured(provider) == provider = "local" \/ provider \in configured

Trying(c) == CandidateOrder[Len(calls[c].attempts) + 1]

\* Up to the first await: only a pinned provider can be without credentials, and it is skipped.
Generate(c) ==
  /\ calls[c].stage = "idle"
  /\ AssertAllowed("aiGenerations", 1)
  /\ calls' = [calls EXCEPT ![c] =
       [stage |-> "waiting",
        attempts |-> IF IsConfigured(CandidateOrder[1]) THEN <<>>
                     ELSE << [provider |-> CandidateOrder[1], status |-> "skipped"] >>]]
  /\ UNCHANGED <<settings, voice, policies, checks, queue, generations>>

\* A time-out, a refusal or an answer without usable variants; the local composer has none of them.
ProviderFails(c) ==
  /\ calls[c].stage = "waiting"
  /\ Trying(c) # "local"
  /\ calls' = [calls EXCEPT ![c].attempts =
       Append(@, [provider |-> Trying(c), status |-> "failed"])]
  /\ UNCHANGED <<settings, voice, policies, checks, queue, generations>>

Failed(c) == \E i \in DOMAIN calls[c].attempts : calls[c].attempts[i].status = "failed"

\* After the await: safety and voice are judged by what they are now, and the log is cut.
ProviderAnswers(c, text, voiced) ==
  LET check == CheckOf(c, text)
      penalty == IF voiced /\ VoiceScore(text) < 75 THEN 12 ELSE 0
      entry == [call |-> c, provider |-> Trying(c), fallbackUsed |-> Failed(c), text |-> text,
                blocked |-> \/ check.status = "blocked"
                            \/ check.risk + penalty >= 75
                            \/ voiced /\ BannedTerms(text) # {},
                check |-> Len(checks) + 1]
      log == Append(generations, entry)
  IN /\ calls[c].stage = "waiting"
     /\ EvaluateContent(c, text)
     /\ calls' = [calls EXCEPT
          ![c].stage = "answered",
          ![c].attempts = Append(@, [provider |-> Trying(c), status |-> "succeeded"])]
     /\ generations' = IF Len(log) > LogCap THEN Tail(log) ELSE log
     /\ UNCHANGED <<settings, voice, policies>>

\* The texts, policies and voices tried: risks of 0, 35, 70 and 100 (from 105), each side
\* of every bound.
SomeTexts == [patterns : {{}, {"email", "card"}}, terms : {{}, Terms}]
SomePolicies == {[terms |-> {}, maxRisk |-> 30], [terms |-> Terms, maxRisk |-> 90]}
SomeVoices == [preferred : {{}}, industry : {{}}, banned : {{}, Terms}]

GenerationNext ==
  /\ UNCHANGED now
  /\ \/ \E policy \in SomePolicies : CreatePolicy(policy)
     \/ \E text \in SomeTexts : Evaluate(text)
     \/ \E q \in DOMAIN queue, status \in {"approved", "rejected"} :
          ResolveModerationItem(q, status)
     \/ \E vocabulary \in SomeVoices : UpdateVoice(vocabulary)
     \/ \E c \in Calls :
          \/ Generate(c)
          \/ ProviderFails(c)
          \/ \E text \in SomeTexts, voiced \in BOOLEAN : ProviderAnswers(c, text, voiced)

-----------------------------------------------------------------------------

ItemsOf(check) == {q \in DOMAIN queue : queue[q].check = check}

\* A moderator sees everything that was blocked, once: a check has an item exactly when it blocked,
\* a generation has one check and is blocked when the check is.
\* [SafetyService.evaluateContent, AiService.generate]
BlockedIsReviewed ==
  /\ \A k \in DOMAIN checks :
       Cardinality(ItemsOf(k)) = IF checks[k].status = "blocked" THEN 1 ELSE 0
  /\ \A c \in Calls :
       Cardinality({k \in DOMAIN checks : checks[k].source = c}) =
         IF calls[c].stage = "answered" THEN 1 ELSE 0
  /\ \A g \in DOMAIN generations :
       /\ checks[generations[g].check].source = generations[g].call
       /\ checks[generations[g].check].status = "blocked" => generations[g].blocked

\* However long a generation waited, what it is answered is judged by the newest policy there is
\* when it is answered: nothing is let through that this policy blocks.
\* [SafetyService.activePolicy, AiService.generate after its await]
JudgedByTheNewestPolicy ==
  [][\A c \in Calls : calls[c].stage = "waiting" /\ calls'[c].stage = "answered" =>
       LET entry == generations'[Len(generations')]
           newest == Len(policies)
       IN entry.call = c /\
          (RiskScore(entry.text, newest) >= policies[newest].maxRisk => entry.blocked)
    ]_generationVars
=============================================================================
