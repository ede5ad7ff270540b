----------------------------- MODULE Publishing -----------------------------
(***************************************************************************)
(* PublishingService: the queue of publishing jobs over the posts of       *)
(* module Posts.  One job sends one post to one social account at one      *)
(* time.  Requests process a job, or sweep the jobs that are due; both     *)
(* wait for the platform's connector with the job already marked           *)
(* processing, and any other request may run while they wait.              *)
(*                                                                         *)
(* The connectors of this repository answer at once and never fail; what   *)
(* the model takes from the SocialPlatformConnector interface is only that *)
(* the answer is awaited.  Enqueue looks accounts up in a fixture nobody   *)
(* writes, so which are connected never changes.  A job is named by the    *)
(* enqueue call that made it and its account.  The demo jobs the service   *)
(* starts with are left out.                                               *)
(***************************************************************************)
EXTENDS Posts, FiniteSets

CONSTANTS
  Accounts,
  PlatformOf,    \* account -> network
  Connected,     \* the accounts whose status is connected
  Callers,       \* bound: requests that may wait for a connector at one time
  MaxAttempts,   \* five in the code
  BaseDelay,     \* ticks of the clock in a minute
  MaxBatches,    \* bound: enqueue calls that create jobs
  AttemptCap     \* bound: attempts of failing jobs are counted up to here

ASSUME PublishingAssumption ==
  /\ PlatformOf \in [Accounts -> Platforms]
  /\ Connected \subseteq Accounts
  /\ MaxAttempts \in Nat \ {0}
  /\ BaseDelay \in Nat \ {0}
  /\ MaxBatches \in Nat
  /\ AttemptCap \in Nat /\ AttemptCap > MaxAttempts
  /\ IsFiniteSet(Callers)

VARIABLES
  batches,   \* enqueue calls that have created jobs
  jobs,      \* id -> job
  inflight,  \* caller waiting for a connector -> the job it sends
  sweeps,    \* caller -> the jobs its processDue loop has still to process
  sent       \* history: id -> how often a connector was called for it

jobVars == <<batches, jobs, inflight, sweeps, sent>>
pubVars == <<now, posts, batches, jobs, inflight, sweeps, sent>>

JobStatuses == {"queued", "processing", "retrying", "succeeded", "failed", "canceled"}
JobIds == (1 .. MaxBatches) \X Accounts

\* The nextRetryAt of a job that has none.
NoRetry == -1

Job == [post : PostIds, account : Accounts, scheduledFor : PublishTime, status : JobStatuses,
        attempts : Nat, nextRetryAt : Nat \cup {NoRetry}]

JobsTypeOK ==
  /\ batches \in 0 .. MaxBatches
  /\ DOMAIN jobs \subseteq (1 .. batches) \X Accounts
  /\ jobs \in [DOMAIN jobs -> Job]
  /\ DOMAIN inflight \subseteq Callers
  /\ inflight \in [DOMAIN inflight -> DOMAIN jobs]
  /\ sweeps \in [Callers -> SUBSET DOMAIN jobs]
  /\ sent \in [DOMAIN jobs -> Nat]

PublishingTypeOK == PostsTypeOK /\ JobsTypeOK

JobsInit ==
  /\ batches = 0
  /\ jobs = [j \in {} |-> NoRetry]
  /\ inflight = [c \in {} |-> NoRetry]
  /\ sweeps = [c \in Callers |-> {}]
  /\ sent = [j \in {} |-> 0]

PublishingInit == PostsInit /\ JobsInit

-----------------------------------------------------------------------------

\* retryDelayMs: a minute, doubled with each attempt, at most a quarter of an hour.
RetryDelay(attempts) ==
  BaseDelay * (CASE attempts <= 1 -> 1
                 [] attempts = 2  -> 2
                 [] attempts = 3  -> 4
                 [] attempts = 4  -> 8
                 [] attempts >= 5 -> 15)

\* The idempotency key: post, account (which gives the platform) and publish time as spelled.
HasKey(j, p, a, t) == j.post = p /\ j.account = a /\ j.scheduledFor = t

NewJob(p, a, t) ==
  [post |-> p, account |-> a, scheduledFor |-> t, status |-> "queued", attempts |-> 0,
   nextRetryAt |-> NoRetry]

\* The accounts an enqueue call selects: of the networks the post targets, and among those asked
\* for when any are.
Selected(p, A) ==
  {a \in Accounts : PlatformOf[a] \in posts[p].content.targets /\ (A = {} \/ a \in A)}

\* Mutant: a job that has succeeded does not count as existing.
EnqueueJobs_PastSends(p, S, t) ==
  LET fresh == {a \in S : \A id \in DOMAIN jobs :
                            HasKey(jobs[id], p, a, t) => jobs[id].status = "succeeded"}
      new   == {batches + 1} \X fresh
  IN /\ fresh # {} => batches < MaxBatches
     /\ batches' = IF fresh = {} THEN batches ELSE batches + 1
     /\ jobs' = [id \in DOMAIN jobs \cup new |->
                   IF id \in DOMAIN jobs THEN jobs[id] ELSE NewJob(p, id[2], t)]
     /\ sent' = [id \in DOMAIN jobs \cup new |-> IF id \in DOMAIN jobs THEN sent[id] ELSE 0]
     /\ UNCHANGED <<inflight, sweeps>>

\* The jobs of a post at t for the accounts in S, made where no job has the key already.
EnqueueJobs(p, S, t) ==
  LET fresh == {a \in S : \A id \in DOMAIN jobs : ~HasKey(jobs[id], p, a, t)}
      new   == {batches + 1} \X fresh
  IN /\ fresh # {} => batches < MaxBatches
     /\ batches' = IF fresh = {} THEN batches ELSE batches + 1
     /\ jobs' = [id \in DOMAIN jobs \cup new |->
                   IF id \in DOMAIN jobs THEN jobs[id] ELSE NewJob(p, id[2], t)]
     /\ sent' = [id \in DOMAIN jobs \cup new |-> IF id \in DOMAIN jobs THEN sent[id] ELSE 0]
     /\ UNCHANGED <<inflight, sweeps>>

\* Mutant: nothing stands in for a publish time that was never set.
Enqueue_NoDefault(p, A, t) ==
  /\ p \in DOMAIN posts
  /\ Selected(p, A) # {}
  /\ EnqueueJobs(p, Selected(p, A), IF t # Never THEN t ELSE posts[p].scheduledAt)
  /\ UNCHANGED postsVars

\* t = Never when the caller names no time; the post's own is next, and then the present.
Enqueue(p, A, t) ==
  /\ p \in DOMAIN posts
  /\ Selected(p, A) # {}
  /\ EnqueueJobs(p, Selected(p, A),
                 IF t # Never THEN t
                 ELSE IF posts[p].scheduledAt # Never THEN posts[p].scheduledAt
                 ELSE Iso(now))
  /\ UNCHANGED postsVars

-----------------------------------------------------------------------------
(* Processing a job.                                                       *)

Failed(j) ==
  LET n == IF j.attempts < AttemptCap THEN j.attempts + 1 ELSE AttemptCap
  IN [j EXCEPT !.attempts = n,
               !.status = "failed",
               !.nextRetryAt = IF n < MaxAttempts THEN now + RetryDelay(n) ELSE NoRetry]

\* Mutant: a job that has been published is processed once more.
Begin_Again(c, id) ==
  /\ jobs[id].account \in Connected
  /\ jobs' = [jobs EXCEPT ![id].status = "processing"]
  /\ inflight' = [d \in DOMAIN inflight \cup {c} |-> IF d = c THEN id ELSE inflight[d]]
  /\ sent' = [sent EXCEPT ![id] = @ + 1]

\* processJob up to its await: nothing for a job that is done, a failure when the account is not
\* connected, and otherwise the connector is called.
Begin(c, id) ==
  \/ /\ jobs[id].status \in {"succeeded", "canceled"}
     /\ UNCHANGED <<jobs, inflight, sent>>
  \/ /\ jobs[id].status \notin {"succeeded", "canceled"}
     /\ jobs[id].account \notin Connected
     /\ jobs' = [jobs EXCEPT ![id] = Failed(@)]
     /\ UNCHANGED <<inflight, sent>>
  \/ /\ jobs[id].status \notin {"succeeded", "canceled"}
     /\ jobs[id].account \in Connected
     /\ jobs' = [jobs EXCEPT ![id].status = "processing"]
     /\ inflight' = [d \in DOMAIN inflight \cup {c} |-> IF d = c THEN id ELSE inflight[d]]
     /\ sent' = [sent EXCEPT ![id] = @ + 1]

\* A caller that is not in the middle of a request.
Idle(c) == c \notin DOMAIN inflight /\ sweeps[c] = {}

ProcessJob(c, id) ==
  /\ Idle(c)
  /\ id \in DOMAIN jobs
  /\ Begin(c, id)
  /\ UNCHANGED <<batches, sweeps, postsVars>>

\* scheduledFor <= now, as strings.
SortsBefore(t, instant) == t.at + t.off <= instant

Due ==
  {id \in DOMAIN jobs :
     /\ jobs[id].status \in {"queued", "retrying"}
     /\ SortsBefore(jobs[id].scheduledFor, now)
     /\ jobs[id].nextRetryAt = NoRetry \/ jobs[id].nextRetryAt <= now}

\* processDue lists the due jobs and starts with the first; the code keeps the order in which
\* they were made, the model allows any.
ProcessDue(c) ==
  /\ Idle(c)
  /\ \E id \in Due :
       /\ Begin(c, id)
       /\ sweeps' = [sweeps EXCEPT ![c] = Due \ {id}]
  /\ UNCHANGED <<batches, postsVars>>

\* Mutant: the loop does not get past a job it has processed.
ProcessNext_Stays(c) ==
  /\ c \notin DOMAIN inflight
  /\ \E id \in sweeps[c] : Begin(c, id)
  /\ UNCHANGED <<batches, sweeps, postsVars>>

\* The loop goes on to another job of its list, which may have changed since it was made.
ProcessNext(c) ==
  /\ c \notin DOMAIN inflight
  /\ \E id \in sweeps[c] :
       /\ Begin(c, id)
       /\ sweeps' = [sweeps EXCEPT ![c] = @ \ {id}]
  /\ UNCHANGED <<batches, postsVars>>

\* Mutant: the outcome is not counted as an attempt.
Succeeded_Uncounted(j) == [j EXCEPT !.status = "succeeded", !.nextRetryAt = NoRetry]

Succeeded(j) == [j EXCEPT !.status = "succeeded", !.attempts = @ + 1, !.nextRetryAt = NoRetry]

\* Mutant: the job is left as it is when the connector has answered.
Complete_NotStored(c) ==
  /\ c \in DOMAIN inflight
  /\ inflight' = [d \in DOMAIN inflight \ {c} |-> inflight[d]]
  /\ UNCHANGED <<batches, jobs, sweeps, sent, postsVars>>

\* processJob after its await: the connector has answered.
CompleteJob(c) ==
  /\ c \in DOMAIN inflight
  /\ jobs' = [jobs EXCEPT ![inflight[c]] = Succeeded(@)]
  /\ inflight' = [d \in DOMAIN inflight \ {c} |-> inflight[d]]
  /\ UNCHANGED <<batches, sweeps, sent, postsVars>>

\* Mutant: any job can be retried.
Retry_Any(id) ==
  /\ id \in DOMAIN jobs
  /\ jobs[id].attempts < MaxAttempts
  /\ jobs' = [jobs EXCEPT ![id].status = "retrying",
                          ![id].nextRetryAt = now + RetryDelay(jobs[id].attempts)]
  /\ UNCHANGED <<batches, inflight, sweeps, sent, postsVars>>

Retry(id) ==
  /\ id \in DOMAIN jobs
  /\ jobs[id].status = "failed"
  /\ jobs[id].attempts < MaxAttempts
  /\ jobs' = [jobs EXCEPT ![id].status = "retrying",
                          ![id].nextRetryAt = now + RetryDelay(jobs[id].attempts)]
  /\ UNCHANGED <<batches, inflight, sweeps, sent, postsVars>>

-----------------------------------------------------------------------------

JobsNext ==
  \/ \E p \in PostIds, A \in SUBSET Accounts, t \in Horizon \cup {Never} : Enqueue(p, A, t)
  \/ \E c \in Callers, id \in JobIds : ProcessJob(c, id)
  \/ \E c \in Callers : ProcessDue(c) \/ ProcessNext(c) \/ CompleteJob(c)
  \/ \E id \in JobIds : Retry(id)

PublishingNext == JobsNext \/ (PostsNext /\ UNCHANGED jobVars)

PublishingSpec == PublishingInit /\ [][PublishingNext]_pubVars

\* The event loop resumes a request whose await has been answered; nobody is bound to make one.
Resumption == \A c \in Callers : WF_pubVars(CompleteJob(c)) /\ WF_pubVars(ProcessNext(c))

FairPublishingSpec == PublishingSpec /\ Resumption

-----------------------------------------------------------------------------
(* Correctness.                                                            *)

\* No two jobs have the same idempotency key, however enqueue calls repeat and overlap and
\* whatever has become of the first job (publishing.service.ts:170-199).
OneJobPerKey ==
  \A i, j \in DOMAIN jobs :
    HasKey(jobs[i], jobs[j].post, jobs[j].account, jobs[j].scheduledFor) => i = j

\* A job marked processing is being sent by some request, and a job being sent is processing or
\* has already succeeded: no job is stranded in processing, and none is failed, retried or
\* queued again under a request that sends it (publishing.service.ts:112-126).
ProcessingIsHeld ==
  \A id \in DOMAIN jobs :
    LET held == \E c \in DOMAIN inflight : inflight[c] = id
    IN /\ jobs[id].status = "processing" => held
       /\ held => jobs[id].status \in {"processing", "succeeded"}

\* Every call of a connector for a job ends up as one of its attempts: attempts and the calls
\* still waiting account for all that was sent, also when requests overlap on one job
\* (publishing.service.ts:116-121).
EverySendIsCounted ==
  \A id \in DOMAIN jobs :
    jobs[id].account \in Connected =>
      sent[id] = jobs[id].attempts + Cardinality({c \in DOMAIN inflight : inflight[c] = id})

\* A job that succeeded stays succeeded and is not sent again: what was published is never
\* published afresh under the same key (publishing.service.ts:99-101).
SucceededIsFinal ==
  [][\A id \in DOMAIN jobs :
       jobs[id].status = "succeeded"
         => jobs'[id].status = "succeeded" /\ sent'[id] = sent[id]]_pubVars

\* What the architecture document says of the queue: the idempotency key is derived from post,
\* account, platform "and scheduled time", and serves "for deduplication"
\* (system-architecture.md:202).  A post goes out on an account once for one time.
OneSendPerTime ==
  \A i, j \in DOMAIN jobs :
    /\ jobs[i].post = jobs[j].post /\ jobs[i].account = jobs[j].account
    /\ jobs[i].scheduledFor.at = jobs[j].scheduledFor.at
    /\ sent[i] > 0 /\ sent[j] > 0
    => i = j

\* Whatever is being sent is published in the end, and every sweep comes to its end
\* (publishing.service.ts:86-94).
ProcessingEnds ==
  \A id \in JobIds :
    (id \in DOMAIN jobs /\ jobs[id].status = "processing")
      ~> (id \in DOMAIN jobs /\ jobs[id].status = "succeeded")

\* Every sweep comes to its end: its list is worked off and its last answer taken.
SweepsEnd == \A c \in Callers : (sweeps[c] # {}) ~> Idle(c)

\* How far the delivery that a job stands for has come.
PhaseOf(status) ==
  CASE status \in {"queued", "retrying", "failed", "canceled"} -> "waiting"
    [] status = "processing"                                 -> "sending"
    [] status = "succeeded"                                  -> "done"

D == INSTANCE Delivery
       WITH Deliveries <- JobIds, phase <- [id \in DOMAIN jobs |-> PhaseOf(jobs[id].status)]

\* The queue keeps the promise of module Delivery under every overlap of process, sweep, retry
\* and enqueue requests (publishing.service.ts:31-168).
ImplementsDelivery == D!DeliverySpec
=============================================================================
