-------------------------- MODULE PublishingProofs --------------------------
(***************************************************************************)
(* Theorems about Publishing, for every value of the constants.  A step of *)
(* the queue either enqueues jobs, or leaves the jobs there are and        *)
(* changes at most one of them, never in what its key is made of; of the   *)
(* posts it takes no liberties, so that they keep their rules beside it.   *)
(***************************************************************************)
EXTENDS Publishing, PostsProofs, FiniteSetTheorems

LEMMA DelayIsNat == ASSUME NEW n \in Nat PROVE RetryDelay(n) \in Nat
<1> DEFINE k == CASE n <= 1 -> 1 [] n = 2 -> 2 [] n = 3 -> 4 [] n = 4 -> 8 [] n >= 5 -> 15
<1>1. k \in Nat
  <2>1. n <= 1 \/ n = 2 \/ n = 3 \/ n = 4 \/ n >= 5
    OBVIOUS
  <2> QED
    BY <2>1
<1>2. RetryDelay(n) = BaseDelay * k
  BY DEF RetryDelay
<1> HIDE DEF k
<1> QED
  BY <1>1, <1>2, PublishingAssumption

\* One job is given the record r, which has the key of the job it replaces.
Changes(id, r) ==
  /\ id \in DOMAIN jobs
  /\ r \in Job
  /\ r.post = jobs[id].post
  /\ r.account = jobs[id].account
  /\ r.scheduledFor = jobs[id].scheduledFor
  /\ jobs' = [jobs EXCEPT ![id] = r]

LEMMA ChangeEffect ==
  ASSUME JobsTypeOK, NEW id, NEW r, Changes(id, r)
  PROVE  /\ DOMAIN jobs' = DOMAIN jobs
         /\ jobs' \in [DOMAIN jobs' -> Job]
         /\ jobs'[id] = r
         /\ \A i \in DOMAIN jobs : i # id => jobs'[i] = jobs[i]
  BY DEF Changes, JobsTypeOK

LEMMA FailedRecord ==
  ASSUME PublishingTypeOK, NEW j \in Job
  PROVE  /\ Failed(j) \in Job
         /\ Failed(j).post = j.post
         /\ Failed(j).account = j.account
         /\ Failed(j).scheduledFor = j.scheduledFor
         /\ Failed(j).status = "failed"
<1> DEFINE n == IF j.attempts < AttemptCap THEN j.attempts + 1 ELSE AttemptCap
           t == IF n < MaxAttempts THEN now + RetryDelay(n) ELSE NoRetry
<1>1. n \in Nat
  BY PublishingAssumption DEF Job
<1>2. now \in Nat
  BY PostsAssumption DEF PublishingTypeOK, PostsTypeOK, Time
<1>3. RetryDelay(n) \in Nat
  BY <1>1, DelayIsNat
<1>4. t \in Nat \cup {NoRetry}
  BY <1>2, <1>3
<1>5. Failed(j) = [j EXCEPT !.attempts = n, !.status = "failed", !.nextRetryAt = t]
  BY DEF Failed
<1> HIDE DEF n, t
<1> QED
  BY <1>1, <1>4, <1>5 DEF Job, JobStatuses

LEMMA StatusRecord ==
  ASSUME NEW j \in Job, NEW s \in JobStatuses
  PROVE  /\ [j EXCEPT !.status = s] \in Job
         /\ [j EXCEPT !.status = s].post = j.post
         /\ [j EXCEPT !.status = s].account = j.account
         /\ [j EXCEPT !.status = s].scheduledFor = j.scheduledFor
         /\ [j EXCEPT !.status = s].status = s
         /\ [j EXCEPT !.status = s].attempts = j.attempts
  BY DEF Job

LEMMA SucceededRecord ==
  ASSUME NEW j \in Job
  PROVE  /\ Succeeded(j) \in Job
         /\ Succeeded(j).post = j.post
         /\ Succeeded(j).account = j.account
         /\ Succeeded(j).scheduledFor = j.scheduledFor
         /\ Succeeded(j).status = "succeeded"
         /\ Succeeded(j).attempts = j.attempts + 1
<1>1. PICK n : n = j.attempts + 1
  OBVIOUS
<1>2. n \in Nat
  BY <1>1 DEF Job
<1>3. Succeeded(j) = [j EXCEPT !.status = "succeeded", !.attempts = n, !.nextRetryAt = NoRetry]
  BY <1>1 DEF Succeeded
<1> QED
  BY <1>1, <1>2, <1>3 DEF Job, JobStatuses

LEMMA RetryRecord ==
  ASSUME NEW j \in Job, NEW t \in Nat
  PROVE  /\ [j EXCEPT !.status = "retrying", !.nextRetryAt = t] \in Job
         /\ [j EXCEPT !.status = "retrying", !.nextRetryAt = t].post = j.post
         /\ [j EXCEPT !.status = "retrying", !.nextRetryAt = t].account = j.account
         /\ [j EXCEPT !.status = "retrying", !.nextRetryAt = t].scheduledFor = j.scheduledFor
         /\ [j EXCEPT !.status = "retrying", !.nextRetryAt = t].status = "retrying"
         /\ [j EXCEPT !.status = "retrying", !.nextRetryAt = t].attempts = j.attempts
  BY DEF Job, JobStatuses

-----------------------------------------------------------------------------
(* The steps of the queue, by what they do to the jobs.                    *)

\* The callers that wait for a connector with the job id.
Holders(id) == {c \in DOMAIN inflight : inflight[c] = id}
HoldersAfter(id) == {c \in DOMAIN inflight' : inflight'[c] = id}

Unsettled(id) == jobs[id].status \notin {"succeeded", "canceled"}

\* A job of an account that is not connected fails.
FailStep(id, r) ==
  /\ Changes(id, r)
  /\ Unsettled(id)
  /\ jobs[id].account \notin Connected
  /\ r.status = "failed"
  /\ UNCHANGED <<inflight, sent>>

\* A job is handed to its connector by the caller c.
SendStep(c, id, r) ==
  /\ Changes(id, r)
  /\ Unsettled(id)
  /\ jobs[id].account \in Connected
  /\ c \in Callers /\ c \notin DOMAIN inflight
  /\ r.status = "processing" /\ r.attempts = jobs[id].attempts
  /\ inflight' = [d \in DOMAIN inflight \cup {c} |-> IF d = c THEN id ELSE inflight[d]]
  /\ sent' = [sent EXCEPT ![id] = @ + 1]

\* The connector answers the caller c.
DoneStep(c, id, r) ==
  /\ Changes(id, r)
  /\ c \in DOMAIN inflight /\ inflight[c] = id
  /\ r.status = "succeeded" /\ r.attempts = jobs[id].attempts + 1
  /\ inflight' = [d \in DOMAIN inflight \ {c} |-> inflight[d]]
  /\ UNCHANGED sent

RetryStep(id, r) ==
  /\ Changes(id, r)
  /\ jobs[id].status = "failed"
  /\ r.status = "retrying" /\ r.attempts = jobs[id].attempts
  /\ UNCHANGED <<inflight, sent>>

JobStep ==
  \/ UNCHANGED <<jobs, inflight, sent>>
  \/ \E id, r : FailStep(id, r)
  \/ \E c, id, r : SendStep(c, id, r)
  \/ \E c, id, r : DoneStep(c, id, r)
  \/ \E id, r : RetryStep(id, r)

LEMMA BeginIsStep ==
  ASSUME PublishingTypeOK, NEW c \in Callers, NEW id \in DOMAIN jobs, c \notin DOMAIN inflight,
         Begin(c, id)
  PROVE  JobStep
<1>1. jobs[id] \in Job
  BY DEF PublishingTypeOK, JobsTypeOK
<1>2. CASE jobs[id].status \in {"succeeded", "canceled"}
  BY <1>2 DEF Begin, JobStep
<1>3. CASE Unsettled(id) /\ jobs[id].account \notin Connected
  <2>1. PICK r : r = Failed(jobs[id])
    OBVIOUS
  <2>2. FailStep(id, r)
    BY <1>1, <1>3, <2>1, FailedRecord DEF Begin, FailStep, Changes, Unsettled
  <2> QED
    BY <2>2 DEF JobStep
<1>4. CASE Unsettled(id) /\ jobs[id].account \in Connected
  <2>1. PICK r : r = [jobs[id] EXCEPT !.status = "processing"]
    OBVIOUS
  <2>2. /\ r \in Job /\ r.post = jobs[id].post /\ r.account = jobs[id].account
        /\ r.scheduledFor = jobs[id].scheduledFor /\ r.status = "processing"
        /\ r.attempts = jobs[id].attempts
    BY <1>1, <2>1, StatusRecord DEF JobStatuses
  <2>3. /\ jobs' = [jobs EXCEPT ![id] = r]
        /\ inflight' = [d \in DOMAIN inflight \cup {c} |-> IF d = c THEN id ELSE inflight[d]]
        /\ sent' = [sent EXCEPT ![id] = @ + 1]
    BY <1>4, <2>1 DEF Begin, Unsettled
  <2>4. SendStep(c, id, r)
    BY <1>4, <2>2, <2>3 DEF SendStep, Changes
  <2> QED
    BY <2>4 DEF JobStep
<1> QED
  BY <1>2, <1>3, <1>4 DEF Unsettled

\* The steps that work the queue: all but Enqueue and those of the posts.
WorkNext ==
  \/ \E c \in Callers, id \in JobIds : ProcessJob(c, id)
  \/ \E c \in Callers : ProcessDue(c) \/ ProcessNext(c) \/ CompleteJob(c)
  \/ \E id \in JobIds : Retry(id)

LEMMA WorkIsStep == PublishingTypeOK /\ WorkNext => JobStep
<1> SUFFICES ASSUME PublishingTypeOK, WorkNext
             PROVE  JobStep
  OBVIOUS
<1>1. ASSUME NEW c \in Callers, NEW id \in JobIds, ProcessJob(c, id)
      PROVE  JobStep
  BY <1>1, BeginIsStep DEF ProcessJob, Idle
<1>2. ASSUME NEW c \in Callers, ProcessDue(c)
      PROVE  JobStep
  BY <1>2, BeginIsStep DEF ProcessDue, Idle, Due
<1>3. ASSUME NEW c \in Callers, ProcessNext(c)
      PROVE  JobStep
  <2>1. sweeps[c] \subseteq DOMAIN jobs
    BY DEF PublishingTypeOK, JobsTypeOK
  <2> QED
    BY <1>3, <2>1, BeginIsStep DEF ProcessNext
<1>4. ASSUME NEW c \in Callers, CompleteJob(c)
      PROVE  JobStep
  <2>1. PICK id : id = inflight[c]
    OBVIOUS
  <2>2. id \in DOMAIN jobs /\ jobs[id] \in Job /\ c \in DOMAIN inflight
    BY <1>4, <2>1 DEF CompleteJob, PublishingTypeOK, JobsTypeOK
  <2>3. PICK r : r = Succeeded(jobs[id])
    OBVIOUS
  <2>4. /\ r \in Job /\ r.post = jobs[id].post /\ r.account = jobs[id].account
        /\ r.scheduledFor = jobs[id].scheduledFor /\ r.status = "succeeded"
        /\ r.attempts = jobs[id].attempts + 1
    BY <2>2, <2>3, SucceededRecord
  <2>5. jobs' = [jobs EXCEPT ![id] = r]
    BY <1>4, <2>1, <2>3 DEF CompleteJob
  <2>6. DoneStep(c, id, r)
    BY <1>4, <2>1, <2>2, <2>4, <2>5 DEF CompleteJob, DoneStep, Changes
  <2> QED
    BY <2>6 DEF JobStep
<1>5. ASSUME NEW id \in JobIds, Retry(id)
      PROVE  JobStep
  <2>1. id \in DOMAIN jobs /\ jobs[id] \in Job
    BY <1>5 DEF Retry, PublishingTypeOK, JobsTypeOK
  <2>2. PICK t : t = now + RetryDelay(jobs[id].attempts)
    OBVIOUS
  <2>3. t \in Nat
    <3>1. jobs[id].attempts \in Nat
      BY <2>1 DEF Job
    <3>2. RetryDelay(jobs[id].attempts) \in Nat
      BY <3>1, DelayIsNat
    <3>3. now \in Nat
      BY PostsAssumption DEF PublishingTypeOK, PostsTypeOK, Time
    <3> QED
      BY <2>2, <3>2, <3>3
  <2>4. PICK r : r = [jobs[id] EXCEPT !.status = "retrying", !.nextRetryAt = t]
    OBVIOUS
  <2>5. /\ r \in Job /\ r.post = jobs[id].post /\ r.account = jobs[id].account
        /\ r.scheduledFor = jobs[id].scheduledFor /\ r.status = "retrying"
        /\ r.attempts = jobs[id].attempts
    BY <2>1, <2>3, <2>4, RetryRecord
  <2>6. jobs' = [jobs EXCEPT ![id] = r]
    BY <1>5, <2>2, <2>4 DEF Retry
  <2>7. RetryStep(id, r)
    BY <1>5, <2>1, <2>5, <2>6 DEF Retry, RetryStep, Changes
  <2> QED
    BY <2>7 DEF JobStep
<1> QED
  BY <1>1, <1>2, <1>3, <1>4, <1>5 DEF WorkNext

-----------------------------------------------------------------------------
(* Enqueue adds jobs and leaves the ones there are alone.                  *)

AddStep(N) ==
  /\ N \cap DOMAIN jobs = {} /\ N \subseteq JobIds
  /\ DOMAIN jobs' = DOMAIN jobs \cup N
  /\ jobs' \in [DOMAIN jobs' -> Job]
  /\ \A i \in DOMAIN jobs : jobs'[i] = jobs[i]
  /\ \A i \in N : jobs'[i].status = "queued" /\ jobs'[i].attempts = 0
  /\ sent' = [i \in DOMAIN jobs \cup N |-> IF i \in DOMAIN jobs THEN sent[i] ELSE 0]
  /\ UNCHANGED <<inflight, sweeps>>

LEMMA NewRecord ==
  ASSUME NEW p \in PostIds, NEW a \in Accounts, NEW t \in PublishTime
  PROVE  /\ NewJob(p, a, t) \in Job
         /\ NewJob(p, a, t).post = p
         /\ NewJob(p, a, t).account = a
         /\ NewJob(p, a, t).scheduledFor = t
         /\ NewJob(p, a, t).status = "queued"
         /\ NewJob(p, a, t).attempts = 0
  BY DEF NewJob, Job, JobStatuses

LEMMA EnqueueAdds ==
  ASSUME PublishingTypeOK, NEW p \in PostIds, NEW S \in SUBSET Accounts,
         NEW t \in PublishTime, EnqueueJobs(p, S, t)
  PROVE  /\ \E N : AddStep(N)
         /\ JobsTypeOK'
         /\ OneJobPerKey => OneJobPerKey'
<1> DEFINE fresh == {a \in S : \A id \in DOMAIN jobs : ~HasKey(jobs[id], p, a, t)}
           N == {batches + 1} \X fresh
<1>1. /\ fresh # {} => batches < MaxBatches
      /\ batches' = IF fresh = {} THEN batches ELSE batches + 1
      /\ jobs' = [id \in DOMAIN jobs \cup N |->
                    IF id \in DOMAIN jobs THEN jobs[id] ELSE NewJob(p, id[2], t)]
      /\ sent' = [id \in DOMAIN jobs \cup N |-> IF id \in DOMAIN jobs THEN sent[id] ELSE 0]
      /\ inflight' = inflight /\ sweeps' = sweeps
  BY DEF EnqueueJobs
<1>2. /\ batches \in 0 .. MaxBatches /\ MaxBatches \in Nat
      /\ DOMAIN jobs \subseteq (1 .. batches) \X Accounts
      /\ jobs \in [DOMAIN jobs -> Job]
  BY PublishingAssumption DEF PublishingTypeOK, JobsTypeOK
<1>3. fresh \subseteq Accounts
  OBVIOUS
<1>4. \A i \in N : i[1] = batches + 1 /\ i[2] \in fresh /\ i = <<batches + 1, i[2]>>
  OBVIOUS
<1>5. \A i \in DOMAIN jobs : i[1] \in 1 .. batches
  BY <1>2
<1>6. N \cap DOMAIN jobs = {}
  BY <1>2, <1>4, <1>5
<1>7. N # {} => batches < MaxBatches /\ batches' = batches + 1
  BY <1>1
<1>8. batches' \in 0 .. MaxBatches /\ batches <= batches'
  BY <1>1, <1>2
<1>9. N \subseteq (1 .. batches') \X Accounts
  BY <1>2, <1>3, <1>7
<1>10. (1 .. batches') \X Accounts \subseteq JobIds
  BY <1>2, <1>8 DEF JobIds
<1>11. DOMAIN jobs \subseteq (1 .. batches') \X Accounts
  <2>1. 1 .. batches \subseteq 1 .. batches'
    BY <1>2, <1>8
  <2> QED
    BY <1>2, <2>1
<1>12. \A i \in N : jobs'[i] = NewJob(p, i[2], t) /\ jobs'[i] \in Job
  BY <1>1, <1>3, <1>4, <1>6, NewRecord
<1> HIDE DEF N
<1>13. DOMAIN jobs' = DOMAIN jobs \cup N /\ \A i \in DOMAIN jobs : jobs'[i] = jobs[i]
  BY <1>1
<1>14. jobs' \in [DOMAIN jobs' -> Job]
  BY <1>1, <1>2, <1>12, <1>13
<1>15. \A i \in N : jobs'[i].status = "queued" /\ jobs'[i].attempts = 0
  BY <1>3, <1>4, <1>12, NewRecord
<1>16. AddStep(N)
  BY <1>1, <1>6, <1>9, <1>10, <1>13, <1>14, <1>15 DEF AddStep
<1>17. JobsTypeOK'
  <2>1. /\ DOMAIN inflight \subseteq Callers
        /\ inflight \in [DOMAIN inflight -> DOMAIN jobs]
        /\ sweeps \in [Callers -> SUBSET DOMAIN jobs]
        /\ sent \in [DOMAIN jobs -> Nat]
    BY DEF PublishingTypeOK, JobsTypeOK
  <2>2. inflight' \in [DOMAIN inflight' -> DOMAIN jobs']
    BY <1>1, <1>13, <2>1
  <2>3. sweeps' \in [Callers -> SUBSET DOMAIN jobs']
    BY <1>1, <1>13, <2>1
  <2>4. sent' \in [DOMAIN jobs' -> Nat]
    BY <1>1, <1>13, <2>1
  <2>5. DOMAIN jobs' \subseteq (1 .. batches') \X Accounts
    BY <1>9, <1>11, <1>13
  <2> QED
    BY <1>1, <1>8, <1>14, <2>1, <2>2, <2>3, <2>4, <2>5 DEF JobsTypeOK
<1>18. ASSUME OneJobPerKey
       PROVE  OneJobPerKey'
  <2> SUFFICES ASSUME NEW i \in DOMAIN jobs', NEW j \in DOMAIN jobs',
                      jobs'[i].post = jobs'[j].post, jobs'[i].account = jobs'[j].account,
                      jobs'[i].scheduledFor = jobs'[j].scheduledFor
               PROVE  i = j
    BY DEF OneJobPerKey, HasKey
  <2>1. CASE i \in DOMAIN jobs /\ j \in DOMAIN jobs
    BY <1>13, <1>18, <2>1 DEF OneJobPerKey, HasKey
  <2>2. ASSUME NEW k \in N
        PROVE  /\ jobs'[k].post = p /\ jobs'[k].account = k[2] /\ jobs'[k].scheduledFor = t
               /\ \A id \in DOMAIN jobs : ~HasKey(jobs[id], p, k[2], t)
    BY <1>3, <1>4, <1>12, NewRecord
  <2>3. CASE i \in N /\ j \in DOMAIN jobs
    BY <1>13, <2>2, <2>3 DEF HasKey
  <2>4. CASE i \in DOMAIN jobs /\ j \in N
    BY <1>13, <2>2, <2>4 DEF HasKey
  <2>5. CASE i \in N /\ j \in N
    <3>1. i[2] = j[2]
      BY <2>2, <2>5
    <3> QED
      BY <1>4, <2>5, <3>1
  <2> QED
    BY <1>13, <2>1, <2>3, <2>4, <2>5
<1> QED
  BY <1>16, <1>17, <1>18

LEMMA EnqueueEffect ==
  ASSUME PublishingTypeOK, NEW p \in PostIds, NEW A \in SUBSET Accounts,
         NEW t \in Horizon \cup {Never}, Enqueue(p, A, t)
  PROVE  /\ \E N : AddStep(N)
         /\ JobsTypeOK'
         /\ OneJobPerKey => OneJobPerKey'
<1> DEFINE at == IF t # Never THEN t
                 ELSE IF posts[p].scheduledAt # Never THEN posts[p].scheduledAt ELSE Iso(now)
<1>1. posts[p] \in Post /\ now \in Time
  BY DEF Enqueue, PublishingTypeOK, PostsTypeOK
<1>2. Horizon \subseteq PublishTime /\ Iso(now) \in PublishTime
  BY <1>1, PostsAssumption DEF Time, Iso, PublishTime
<1>3. at \in PublishTime
  BY <1>1, <1>2 DEF Post
<1>4. EnqueueJobs(p, Selected(p, A), at)
  BY DEF Enqueue
<1>5. Selected(p, A) \in SUBSET Accounts
  BY DEF Selected
<1> HIDE DEF at
<1> QED
  BY <1>3, <1>4, <1>5, EnqueueAdds


-----------------------------------------------------------------------------
(* What a step of the workers leaves of the types and the keys.            *)

LEMMA JobStepTypes ==
  ASSUME JobsTypeOK, JobStep
  PROVE  /\ DOMAIN jobs' = DOMAIN jobs
         /\ jobs' \in [DOMAIN jobs' -> Job]
         /\ DOMAIN inflight' \subseteq Callers
         /\ inflight' \in [DOMAIN inflight' -> DOMAIN jobs]
         /\ sent' \in [DOMAIN jobs' -> Nat]
         /\ \A i \in DOMAIN jobs : /\ jobs'[i].post = jobs[i].post
                                   /\ jobs'[i].account = jobs[i].account
                                   /\ jobs'[i].scheduledFor = jobs[i].scheduledFor
<1> USE DEF JobsTypeOK
<1>1. CASE UNCHANGED <<jobs, inflight, sent>>
  BY <1>1
<1>2. ASSUME NEW id, NEW r, Changes(id, r), UNCHANGED <<inflight, sent>>
      PROVE  /\ DOMAIN jobs' = DOMAIN jobs
             /\ jobs' \in [DOMAIN jobs' -> Job]
             /\ DOMAIN inflight' \subseteq Callers
             /\ inflight' \in [DOMAIN inflight' -> DOMAIN jobs]
             /\ sent' \in [DOMAIN jobs' -> Nat]
             /\ \A i \in DOMAIN jobs : /\ jobs'[i].post = jobs[i].post
                                       /\ jobs'[i].account = jobs[i].account
                                       /\ jobs'[i].scheduledFor = jobs[i].scheduledFor
  BY <1>2, ChangeEffect DEF Changes
<1>3. ASSUME NEW c, NEW id, NEW r, SendStep(c, id, r)
      PROVE  /\ DOMAIN jobs' = DOMAIN jobs
             /\ jobs' \in [DOMAIN jobs' -> Job]
             /\ DOMAIN inflight' \subseteq Callers
             /\ inflight' \in [DOMAIN inflight' -> DOMAIN jobs]
             /\ sent' \in [DOMAIN jobs' -> Nat]
             /\ \A i \in DOMAIN jobs : /\ jobs'[i].post = jobs[i].post
                                       /\ jobs'[i].account = jobs[i].account
                                       /\ jobs'[i].scheduledFor = jobs[i].scheduledFor
  <2>1. Changes(id, r) /\ id \in DOMAIN jobs /\ c \in Callers
    BY <1>3 DEF SendStep, Changes
  <2>2. DOMAIN jobs' = DOMAIN jobs /\ jobs' \in [DOMAIN jobs' -> Job]
    BY <2>1, ChangeEffect
  <2>3. inflight' = [d \in DOMAIN inflight \cup {c} |-> IF d = c THEN id ELSE inflight[d]]
    BY <1>3 DEF SendStep
  <2>4. DOMAIN inflight' \subseteq Callers /\ inflight' \in [DOMAIN inflight' -> DOMAIN jobs]
    BY <2>1, <2>3
  <2>5. sent' \in [DOMAIN jobs' -> Nat]
    BY <1>3, <2>1, <2>2 DEF SendStep
  <2> QED
    BY <2>1, <2>2, <2>4, <2>5, ChangeEffect DEF Changes
<1>4. ASSUME NEW c, NEW id, NEW r, DoneStep(c, id, r)
      PROVE  /\ DOMAIN jobs' = DOMAIN jobs
             /\ jobs' \in [DOMAIN jobs' -> Job]
             /\ DOMAIN inflight' \subseteq Callers
             /\ inflight' \in [DOMAIN inflight' -> DOMAIN jobs]
             /\ sent' \in [DOMAIN jobs' -> Nat]
             /\ \A i \in DOMAIN jobs : /\ jobs'[i].post = jobs[i].post
                                       /\ jobs'[i].account = jobs[i].account
                                       /\ jobs'[i].scheduledFor = jobs[i].scheduledFor
  <2>1. Changes(id, r)
    BY <1>4 DEF DoneStep
  <2>2. inflight' = [d \in DOMAIN inflight \ {c} |-> inflight[d]] /\ sent' = sent
    BY <1>4 DEF DoneStep
  <2> QED
    BY <2>1, <2>2, ChangeEffect DEF Changes
<1> QED
  BY <1>1, <1>2, <1>3, <1>4 DEF JobStep, FailStep, RetryStep

LEMMA WorkSweeps ==
  ASSUME PublishingTypeOK, WorkNext
  PROVE  /\ UNCHANGED <<batches, now, posts>>
         /\ sweeps' \in [Callers -> SUBSET DOMAIN jobs]
<1>1. sweeps \in [Callers -> SUBSET DOMAIN jobs]
  BY DEF PublishingTypeOK, JobsTypeOK
<1>2. CASE \E c \in Callers, id \in JobIds : ProcessJob(c, id)
  BY <1>1, <1>2 DEF ProcessJob, postsVars
<1>3. ASSUME NEW c \in Callers, ProcessDue(c)
      PROVE  /\ UNCHANGED <<batches, now, posts>>
             /\ sweeps' \in [Callers -> SUBSET DOMAIN jobs]
  <2>1. PICK id \in Due : sweeps' = [sweeps EXCEPT ![c] = Due \ {id}]
    BY <1>3 DEF ProcessDue
  <2>2. Due \subseteq DOMAIN jobs
    BY DEF Due
  <2>3. UNCHANGED <<batches, now, posts>>
    BY <1>3 DEF ProcessDue, postsVars
  <2> QED
    BY <1>1, <2>1, <2>2, <2>3
<1>4. ASSUME NEW c \in Callers, ProcessNext(c)
      PROVE  /\ UNCHANGED <<batches, now, posts>>
             /\ sweeps' \in [Callers -> SUBSET DOMAIN jobs]
  <2>1. PICK id \in sweeps[c] : sweeps' = [sweeps EXCEPT ![c] = @ \ {id}]
    BY <1>4 DEF ProcessNext
  <2>2. UNCHANGED <<batches, now, posts>>
    BY <1>4 DEF ProcessNext, postsVars
  <2> QED
    BY <1>1, <2>1, <2>2
<1>5. CASE \E c \in Callers : CompleteJob(c)
  BY <1>1, <1>5 DEF CompleteJob, postsVars
<1>6. CASE \E id \in JobIds : Retry(id)
  BY <1>1, <1>6 DEF Retry, postsVars
<1> QED
  BY <1>2, <1>3, <1>4, <1>5, <1>6 DEF WorkNext

-----------------------------------------------------------------------------
(* The invariant.  A held job belongs to a connected account, so no other  *)
(* request can fail it, and then none can retry it either.                 *)

HeldAreConnected ==
  \A c \in DOMAIN inflight :
    /\ jobs[inflight[c]].account \in Connected
    /\ jobs[inflight[c]].status \in {"processing", "succeeded"}

ProcessingHasHolder ==
  \A id \in DOMAIN jobs :
    jobs[id].status = "processing" => \E c \in DOMAIN inflight : inflight[c] = id

PubInv ==
  /\ PublishingTypeOK
  /\ OneJobPerKey
  /\ HeldAreConnected
  /\ ProcessingHasHolder

LEMMA HoldersKept ==
  ASSUME PubInv, JobStep
  PROVE  HeldAreConnected' /\ ProcessingHasHolder'
<1> USE DEF PubInv, PublishingTypeOK
<1>1. CASE UNCHANGED <<jobs, inflight, sent>>
  BY <1>1 DEF HeldAreConnected, ProcessingHasHolder
<1>2. ASSUME NEW id, NEW r, FailStep(id, r) \/ RetryStep(id, r)
      PROVE  HeldAreConnected' /\ ProcessingHasHolder'
  <2>1. /\ Changes(id, r) /\ r.status # "processing" /\ inflight' = inflight
        /\ jobs[id].account \notin Connected \/ jobs[id].status = "failed"
    BY <1>2 DEF FailStep, RetryStep
  <2>2. /\ DOMAIN jobs' = DOMAIN jobs /\ jobs'[id] = r
        /\ \A i \in DOMAIN jobs : i # id => jobs'[i] = jobs[i]
    BY <2>1, ChangeEffect
  <2>3. \A c \in DOMAIN inflight : inflight[c] # id /\ inflight[c] \in DOMAIN jobs
    BY <2>1 DEF HeldAreConnected, JobsTypeOK
  <2> QED
    BY <2>1, <2>2, <2>3 DEF HeldAreConnected, ProcessingHasHolder
<1>3. ASSUME NEW c, NEW id, NEW r, SendStep(c, id, r)
      PROVE  HeldAreConnected' /\ ProcessingHasHolder'
  <2>1. /\ Changes(id, r) /\ r.status = "processing" /\ r.account \in Connected
        /\ c \notin DOMAIN inflight /\ id \in DOMAIN jobs
        /\ inflight' = [d \in DOMAIN inflight \cup {c} |-> IF d = c THEN id ELSE inflight[d]]
    BY <1>3 DEF SendStep, Changes
  <2>2. /\ DOMAIN jobs' = DOMAIN jobs /\ jobs'[id] = r
        /\ \A i \in DOMAIN jobs : i # id => jobs'[i] = jobs[i]
    BY <2>1, ChangeEffect
  <2>3. \A d \in DOMAIN inflight : inflight[d] \in DOMAIN jobs
    BY DEF JobsTypeOK
  <2>4. /\ DOMAIN inflight' = DOMAIN inflight \cup {c} /\ inflight'[c] = id
        /\ \A d \in DOMAIN inflight : inflight'[d] = inflight[d]
    BY <2>1
  <2>5. HeldAreConnected'
    BY <2>1, <2>2, <2>3, <2>4 DEF HeldAreConnected
  <2>6. ProcessingHasHolder'
    <3> SUFFICES ASSUME NEW i \in DOMAIN jobs', jobs'[i].status = "processing"
                 PROVE  \E d \in DOMAIN inflight' : inflight'[d] = i
      BY DEF ProcessingHasHolder
    <3>1. CASE i = id
      BY <2>4, <3>1
    <3>2. CASE i # id
      <4>1. PICK d \in DOMAIN inflight : inflight[d] = i
        BY <2>2, <3>2 DEF ProcessingHasHolder
      <4> QED
        BY <2>4, <4>1
    <3> QED
      BY <3>1, <3>2
  <2> QED
    BY <2>5, <2>6
<1>4. ASSUME NEW c, NEW id, NEW r, DoneStep(c, id, r)
      PROVE  HeldAreConnected' /\ ProcessingHasHolder'
  <2>1. /\ Changes(id, r) /\ r.status = "succeeded" /\ r.account = jobs[id].account
        /\ c \in DOMAIN inflight /\ inflight[c] = id
        /\ inflight' = [d \in DOMAIN inflight \ {c} |-> inflight[d]]
    BY <1>4 DEF DoneStep, Changes
  <2>2. /\ DOMAIN jobs' = DOMAIN jobs /\ jobs'[id] = r
        /\ \A i \in DOMAIN jobs : i # id => jobs'[i] = jobs[i]
    BY <2>1, ChangeEffect
  <2>3. \A d \in DOMAIN inflight : inflight[d] \in DOMAIN jobs
    BY DEF JobsTypeOK
  <2>4. /\ DOMAIN inflight' = DOMAIN inflight \ {c}
        /\ \A d \in DOMAIN inflight : d # c => inflight'[d] = inflight[d]
    BY <2>1
  <2>5. HeldAreConnected'
    BY <2>1, <2>2, <2>3, <2>4 DEF HeldAreConnected
  <2>6. ProcessingHasHolder'
    <3> SUFFICES ASSUME NEW i \in DOMAIN jobs', jobs'[i].status = "processing"
                 PROVE  \E d \in DOMAIN inflight' : inflight'[d] = i
      BY DEF ProcessingHasHolder
    <3>1. i # id
      BY <2>1, <2>2
    <3>2. PICK d \in DOMAIN inflight : inflight[d] = i
      BY <2>2, <3>1 DEF ProcessingHasHolder
    <3>3. d # c
      BY <2>1, <3>1, <3>2
    <3> QED
      BY <2>4, <3>2, <3>3
  <2> QED
    BY <2>5, <2>6
<1> QED
  BY <1>1, <1>2, <1>3, <1>4 DEF JobStep

\* New jobs are queued and held by nobody.
LEMMA AddKeepsInv ==
  ASSUME PubInv, NEW N, AddStep(N), now' = now, PostsTypeOK', JobsTypeOK', OneJobPerKey'
  PROVE  PubInv'
<1>t. JobsTypeOK
  BY DEF PubInv, PublishingTypeOK
<1>1. /\ inflight' = inflight /\ sweeps' = sweeps
      /\ \A i \in DOMAIN jobs : jobs'[i] = jobs[i]
      /\ \A i \in DOMAIN jobs' : i \in DOMAIN jobs \/ jobs'[i].status = "queued"
  BY DEF AddStep
<1>2. HeldAreConnected' /\ ProcessingHasHolder'
  BY <1>1, <1>t DEF PubInv, JobsTypeOK, HeldAreConnected, ProcessingHasHolder
<1> QED
  BY <1>2 DEF PubInv, PublishingTypeOK

LEMMA PubInvStep == PubInv /\ [PublishingNext]_pubVars => PubInv'
<1> SUFFICES ASSUME PubInv, [PublishingNext]_pubVars
             PROVE  PubInv'
  OBVIOUS
<1>t. PublishingTypeOK /\ PostsTypeOK /\ JobsTypeOK
  BY DEF PubInv, PublishingTypeOK
<1>1. CASE UNCHANGED pubVars
  BY <1>1 DEF pubVars, PubInv, PublishingTypeOK, PostsTypeOK, JobsTypeOK, OneJobPerKey,
              HeldAreConnected, ProcessingHasHolder
<1>2. CASE PostsNext /\ UNCHANGED jobVars
  <2>1. StepEffect
    BY <1>2, <1>t, StepLemma
  <2>2. PostsTypeOK' /\ UNCHANGED <<batches, jobs, inflight, sweeps, sent>>
    BY <1>2, <2>1 DEF StepEffect, jobVars
  <2>3. JobsTypeOK' /\ OneJobPerKey' /\ HeldAreConnected' /\ ProcessingHasHolder'
    BY <2>2 DEF PubInv, PublishingTypeOK, JobsTypeOK, OneJobPerKey, HeldAreConnected,
                ProcessingHasHolder
  <2> QED
    BY <2>2, <2>3 DEF PubInv, PublishingTypeOK
<1>3. ASSUME NEW p \in PostIds, NEW A \in SUBSET Accounts, NEW t \in Horizon \cup {Never},
             Enqueue(p, A, t)
      PROVE  PubInv'
  <2>1. JobsTypeOK' /\ OneJobPerKey'
    BY <1>3, <1>t, EnqueueEffect DEF PubInv
  <2>2. PICK N : AddStep(N)
    BY <1>3, <1>t, EnqueueEffect
  <2>3. UNCHANGED <<now, posts>>
    BY <1>3 DEF Enqueue, postsVars
  <2>4. PostsTypeOK'
    BY <2>3, <1>t DEF PostsTypeOK
  <2> QED
    BY <2>1, <2>2, <2>3, <2>4, AddKeepsInv
<1>4. CASE WorkNext
  <2>1. JobStep
    BY <1>4, <1>t, WorkIsStep
  <2>2. /\ UNCHANGED <<batches, now, posts>>
        /\ sweeps' \in [Callers -> SUBSET DOMAIN jobs]
    BY <1>4, <1>t, WorkSweeps
  <2>3. /\ DOMAIN jobs' = DOMAIN jobs
        /\ jobs' \in [DOMAIN jobs' -> Job]
        /\ DOMAIN inflight' \subseteq Callers
        /\ inflight' \in [DOMAIN inflight' -> DOMAIN jobs]
        /\ sent' \in [DOMAIN jobs' -> Nat]
        /\ \A i \in DOMAIN jobs : /\ jobs'[i].post = jobs[i].post
                                  /\ jobs'[i].account = jobs[i].account
                                  /\ jobs'[i].scheduledFor = jobs[i].scheduledFor
    BY <2>1, <1>t, JobStepTypes
  <2>4. PublishingTypeOK'
    BY <2>2, <2>3, <1>t DEF PublishingTypeOK, PostsTypeOK, JobsTypeOK
  <2>5. OneJobPerKey'
    BY <2>3 DEF PubInv, OneJobPerKey, HasKey
  <2>6. HeldAreConnected' /\ ProcessingHasHolder'
    BY <2>1, HoldersKept
  <2> QED
    BY <2>4, <2>5, <2>6 DEF PubInv
<1> QED
  BY <1>1, <1>2, <1>3, <1>4 DEF PublishingNext, JobsNext, WorkNext

\* The inductive invariant of the queue holds in every reachable state.
THEOREM PubInvariance == PublishingSpec => []PubInv
<1>1. PublishingInit => PubInv
  BY PostsAssumption, PublishingAssumption
  DEF PublishingInit, PostsInit, JobsInit, PubInv, PublishingTypeOK, PostsTypeOK, JobsTypeOK,
      Time, OneJobPerKey, HeldAreConnected, ProcessingHasHolder
<1> QED
  BY <1>1, PubInvStep, PTL DEF PublishingSpec

\* Every reachable state of the queue and its posts is of its type.
THEOREM PublishingTypeCorrect == PublishingSpec => []PublishingTypeOK
  BY PubInvariance, PTL DEF PubInv

\* No two jobs ever share an idempotency key (publishing.service.ts:170-199).
THEOREM KeysAreUnique == PublishingSpec => []OneJobPerKey
  BY PubInvariance, PTL DEF PubInv

\* No job is stranded in processing, and none is failed or retried while it is being sent
\* (publishing.service.ts:112-126).
THEOREM NoneStranded == PublishingSpec => []ProcessingIsHeld
<1>1. PubInv => ProcessingIsHeld
  BY DEF PubInv, HeldAreConnected, ProcessingHasHolder, ProcessingIsHeld
<1> QED
  BY <1>1, PubInvariance, PTL

-----------------------------------------------------------------------------
(* What every step does to the jobs, with the invariant before it: the     *)
(* ground of the action property, the count and the refinement.            *)

\* A step of the queue, whoever takes it: requests of its own, or a reserved slot.
QueueStep == JobStep \/ \E N : AddStep(N)

LEMMA NextIsStep ==
  ASSUME PubInv, [PublishingNext]_pubVars
  PROVE  QueueStep
<1> SUFFICES JobStep \/ \E N : AddStep(N)
  BY DEF QueueStep
<1>t. PublishingTypeOK
  BY DEF PubInv
<1>1. CASE UNCHANGED pubVars
  BY <1>1 DEF pubVars, JobStep
<1>2. CASE PostsNext /\ UNCHANGED jobVars
  BY <1>2 DEF jobVars, JobStep
<1>3. CASE \E p \in PostIds, A \in SUBSET Accounts, t \in Horizon \cup {Never} : Enqueue(p, A, t)
  BY <1>3, <1>t, EnqueueEffect
<1>4. CASE WorkNext
  BY <1>4, <1>t, WorkIsStep
<1> QED
  BY <1>1, <1>2, <1>3, <1>4 DEF PublishingNext, JobsNext, WorkNext

\* A held job is processing or has succeeded, so a job that fails or is retried is not held.
LEMMA OnlyTheHeldProcess ==
  ASSUME PubInv, NEW id \in DOMAIN jobs, jobs[id].status = "processing"
  PROVE  jobs[id].account \in Connected
  BY DEF PubInv, ProcessingHasHolder, HeldAreConnected

LEMMA SucceededStep ==
  ASSUME PubInv, QueueStep, NEW id \in DOMAIN jobs, jobs[id].status = "succeeded"
  PROVE  jobs'[id].status = "succeeded" /\ sent'[id] = sent[id]
<1>t. JobsTypeOK
  BY DEF PubInv, PublishingTypeOK
<1>1. CASE UNCHANGED <<jobs, inflight, sent>>
  BY <1>1
<1>2. ASSUME NEW k, NEW r, FailStep(k, r) \/ RetryStep(k, r)
      PROVE  jobs'[id].status = "succeeded" /\ sent'[id] = sent[id]
  <2>1. Changes(k, r) /\ k # id /\ sent' = sent
    BY <1>2 DEF FailStep, RetryStep, Unsettled
  <2> QED
    BY <1>t, <2>1, ChangeEffect
<1>3. ASSUME NEW c, NEW k, NEW r, SendStep(c, k, r)
      PROVE  jobs'[id].status = "succeeded" /\ sent'[id] = sent[id]
  <2>1. Changes(k, r) /\ k # id /\ sent' = [sent EXCEPT ![k] = @ + 1]
    BY <1>3 DEF SendStep, Unsettled
  <2>2. sent'[id] = sent[id]
    BY <1>t, <2>1 DEF JobsTypeOK
  <2> QED
    BY <1>t, <2>1, <2>2, ChangeEffect
<1>4. ASSUME NEW c, NEW k, NEW r, DoneStep(c, k, r)
      PROVE  jobs'[id].status = "succeeded" /\ sent'[id] = sent[id]
  <2>1. Changes(k, r) /\ r.status = "succeeded" /\ sent' = sent
    BY <1>4 DEF DoneStep
  <2> QED
    BY <1>t, <2>1, ChangeEffect
<1>5. ASSUME NEW N, AddStep(N)
      PROVE  jobs'[id].status = "succeeded" /\ sent'[id] = sent[id]
  BY <1>5 DEF AddStep
<1> QED
  BY <1>1, <1>2, <1>3, <1>4, <1>5 DEF JobStep, QueueStep

\* A job that has succeeded is never failed, retried or sent again (publishing.service.ts:99-101).
THEOREM SucceededForGood == PublishingSpec => SucceededIsFinal
<1>1. PubInv /\ [PublishingNext]_pubVars
        => [\A id \in DOMAIN jobs :
              jobs[id].status = "succeeded"
                => jobs'[id].status = "succeeded" /\ sent'[id] = sent[id]]_pubVars
  BY NextIsStep, SucceededStep
<1> QED
  BY <1>1, PubInvariance, PTL DEF PublishingSpec, SucceededIsFinal

-----------------------------------------------------------------------------
(* The queue implements module Delivery.                                   *)

phaseBar == [id \in DOMAIN jobs |-> PhaseOf(jobs[id].status)]

\* What a change of one job is to the abstract queue.
LEMMA ChangeInPhases ==
  ASSUME JobsTypeOK, NEW id, NEW r, Changes(id, r)
  PROVE  /\ phaseBar' = [phaseBar EXCEPT ![id] = PhaseOf(r.status)]
         /\ id \in DOMAIN phaseBar /\ id \in JobIds
         /\ phaseBar[id] = PhaseOf(jobs[id].status)
<1>1. /\ DOMAIN jobs' = DOMAIN jobs /\ jobs'[id] = r
      /\ \A i \in DOMAIN jobs : i # id => jobs'[i] = jobs[i]
  BY ChangeEffect
<1>2. id \in DOMAIN jobs
  BY DEF Changes
<1>3. (1 .. batches) \X Accounts \subseteq JobIds
  BY PublishingAssumption DEF JobsTypeOK, JobIds
<1> QED
  BY <1>1, <1>2, <1>3 DEF phaseBar, JobsTypeOK

LEMMA PhaseValues ==
  /\ \A st \in {"queued", "retrying", "failed", "canceled"} : PhaseOf(st) = "waiting"
  /\ PhaseOf("processing") = "sending"
  /\ PhaseOf("succeeded") = "done"
  BY DEF PhaseOf

\* A change that leaves the phase is a stutter; the others start or finish the delivery.
LEMMA ChangeImplements ==
  ASSUME JobsTypeOK, NEW id, NEW r, Changes(id, r),
         \/ PhaseOf(r.status) = PhaseOf(jobs[id].status)
         \/ PhaseOf(jobs[id].status) = "waiting" /\ PhaseOf(r.status) = "sending"
         \/ PhaseOf(jobs[id].status) = "sending" /\ PhaseOf(r.status) = "done"
  PROVE  [D!DeliveryNext]_phaseBar
<1>1. /\ phaseBar' = [phaseBar EXCEPT ![id] = PhaseOf(r.status)]
      /\ id \in DOMAIN phaseBar /\ id \in JobIds
      /\ phaseBar[id] = PhaseOf(jobs[id].status)
  BY ChangeInPhases
<1>2. CASE PhaseOf(r.status) = PhaseOf(jobs[id].status)
  <2>1. phaseBar' = phaseBar
    BY <1>1, <1>2 DEF phaseBar
  <2> QED
    BY <2>1
<1>3. CASE PhaseOf(jobs[id].status) = "waiting" /\ PhaseOf(r.status) = "sending"
  <2>1. D!Start(id)
    BY <1>1, <1>3 DEF D!Start, phaseBar
  <2> QED
    BY <1>1, <2>1 DEF D!DeliveryNext
<1>4. CASE PhaseOf(jobs[id].status) = "sending" /\ PhaseOf(r.status) = "done"
  <2>1. D!Finish(id)
    BY <1>1, <1>4 DEF D!Finish, phaseBar
  <2> QED
    BY <1>1, <2>1 DEF D!DeliveryNext
<1> QED
  BY <1>2, <1>3, <1>4

LEMMA DeliveryStep ==
  ASSUME PubInv, QueueStep
  PROVE  [D!DeliveryNext]_phaseBar
<1>t. JobsTypeOK
  BY DEF PubInv, PublishingTypeOK
<1>s. ASSUME NEW i \in DOMAIN jobs
      PROVE  jobs[i].status \in JobStatuses
  BY <1>t DEF JobsTypeOK, Job
<1>1. CASE UNCHANGED <<jobs, inflight, sent>>
  BY <1>1 DEF phaseBar
<1>2. ASSUME NEW id, NEW r, FailStep(id, r)
      PROVE  [D!DeliveryNext]_phaseBar
  <2>1. Changes(id, r) /\ id \in DOMAIN jobs /\ r.status = "failed"
    BY <1>2 DEF FailStep, Changes
  <2>2. jobs[id].status \in {"queued", "retrying", "failed"}
    BY <1>2, <1>s, <2>1, OnlyTheHeldProcess DEF FailStep, Unsettled, JobStatuses
  <2> QED
    BY <1>t, <2>1, <2>2, PhaseValues, ChangeImplements
<1>3. ASSUME NEW c, NEW id, NEW r, SendStep(c, id, r)
      PROVE  [D!DeliveryNext]_phaseBar
  <2>1. Changes(id, r) /\ id \in DOMAIN jobs /\ r.status = "processing"
    BY <1>3 DEF SendStep, Changes
  <2>2. jobs[id].status \in {"queued", "retrying", "failed", "processing"}
    BY <1>3, <1>s, <2>1 DEF SendStep, Unsettled, JobStatuses
  <2> QED
    BY <1>t, <2>1, <2>2, PhaseValues, ChangeImplements
<1>4. ASSUME NEW c, NEW id, NEW r, DoneStep(c, id, r)
      PROVE  [D!DeliveryNext]_phaseBar
  <2>1. Changes(id, r) /\ r.status = "succeeded"
    BY <1>4 DEF DoneStep
  <2>2. jobs[id].status \in {"processing", "succeeded"}
    BY <1>4 DEF DoneStep, PubInv, HeldAreConnected
  <2> QED
    BY <1>t, <2>1, <2>2, PhaseValues, ChangeImplements
<1>5. ASSUME NEW id, NEW r, RetryStep(id, r)
      PROVE  [D!DeliveryNext]_phaseBar
  <2>1. Changes(id, r) /\ r.status = "retrying" /\ jobs[id].status = "failed"
    BY <1>5 DEF RetryStep
  <2> QED
    BY <1>t, <2>1, PhaseValues, ChangeImplements
<1>6. ASSUME NEW N, AddStep(N)
      PROVE  [D!DeliveryNext]_phaseBar
  <2>1. /\ N \cap DOMAIN jobs = {} /\ N \in SUBSET JobIds
        /\ DOMAIN jobs' = DOMAIN jobs \cup N
        /\ \A i \in DOMAIN jobs : jobs'[i] = jobs[i]
        /\ \A i \in N : PhaseOf(jobs'[i].status) = "waiting"
    BY <1>6, PhaseValues DEF AddStep
  <2>2. D!Accept(N)
    BY <2>1 DEF D!Accept
  <2> QED
    BY <2>1, <2>2 DEF D!DeliveryNext
<1> QED
  BY <1>1, <1>2, <1>3, <1>4, <1>5, <1>6 DEF JobStep, QueueStep

\* The queue keeps every promise of module Delivery (publishing.service.ts:31-168): whatever
\* requests overlap, what may have gone out is never taken for what has not.
THEOREM DeliveryImplemented == PublishingSpec => ImplementsDelivery
<1>1. PublishingInit => D!DeliveryInit
  BY DEF PublishingInit, JobsInit, D!DeliveryInit
<1>2. PubInv /\ [PublishingNext]_pubVars => [D!DeliveryNext]_phaseBar
  BY NextIsStep, DeliveryStep
<1> QED
  BY <1>1, <1>2, PubInvariance, PTL
  DEF PublishingSpec, ImplementsDelivery, D!DeliverySpec, phaseBar

-----------------------------------------------------------------------------
(* Every call of a connector is counted.                                   *)

LEMMA HoldersFinite ==
  ASSUME JobsTypeOK, NEW id
  PROVE  IsFiniteSet(Holders(id)) /\ Cardinality(Holders(id)) \in Nat
<1>1. Holders(id) \subseteq Callers
  BY DEF Holders, JobsTypeOK
<1>2. IsFiniteSet(Holders(id))
  BY <1>1, FS_Subset, PublishingAssumption
<1> QED
  BY <1>2, FS_CardinalityType

Counted(id) == sent[id] = jobs[id].attempts + Cardinality(Holders(id))
CountedAfter(id) == sent'[id] = jobs'[id].attempts + Cardinality(HoldersAfter(id))

LEMMA CountKept ==
  ASSUME PubInv, JobStep, NEW id \in DOMAIN jobs, jobs[id].account \in Connected, Counted(id)
  PROVE  CountedAfter(id)
<1>t. JobsTypeOK /\ jobs[id].attempts \in Nat /\ sent[id] \in Nat
  BY DEF PubInv, PublishingTypeOK, JobsTypeOK, Job
<1>f. IsFiniteSet(Holders(id)) /\ Cardinality(Holders(id)) \in Nat
  BY <1>t, HoldersFinite
<1>1. CASE UNCHANGED <<jobs, inflight, sent>>
  BY <1>1 DEF Counted, CountedAfter, Holders, HoldersAfter
<1>2. ASSUME NEW k, NEW r, FailStep(k, r)
      PROVE  CountedAfter(id)
  <2>1. Changes(k, r) /\ k # id /\ inflight' = inflight /\ sent' = sent
    BY <1>2 DEF FailStep
  <2>2. jobs'[id] = jobs[id]
    BY <1>t, <2>1, ChangeEffect
  <2> QED
    BY <2>1, <2>2 DEF Counted, CountedAfter, Holders, HoldersAfter
<1>3. ASSUME NEW k, NEW r, RetryStep(k, r)
      PROVE  CountedAfter(id)
  <2>1. Changes(k, r) /\ inflight' = inflight /\ sent' = sent /\ r.attempts = jobs[k].attempts
    BY <1>3 DEF RetryStep
  <2>2. jobs'[id].attempts = jobs[id].attempts
    BY <1>t, <2>1, ChangeEffect
  <2> QED
    BY <2>1, <2>2 DEF Counted, CountedAfter, Holders, HoldersAfter
<1>4. ASSUME NEW c, NEW k, NEW r, SendStep(c, k, r)
      PROVE  CountedAfter(id)
  <2>1. /\ Changes(k, r) /\ r.attempts = jobs[k].attempts /\ c \notin DOMAIN inflight
        /\ inflight' = [d \in DOMAIN inflight \cup {c} |-> IF d = c THEN k ELSE inflight[d]]
        /\ sent' = [sent EXCEPT ![k] = @ + 1]
    BY <1>4 DEF SendStep
  <2>2. jobs'[id].attempts = jobs[id].attempts
    BY <1>t, <2>1, ChangeEffect
  <2>3. CASE k # id
    <3>1. HoldersAfter(id) = Holders(id)
      BY <2>1, <2>3 DEF Holders, HoldersAfter
    <3>2. sent'[id] = sent[id]
      BY <1>t, <2>1, <2>3 DEF JobsTypeOK
    <3> QED
      BY <2>2, <3>1, <3>2 DEF Counted, CountedAfter
  <2>4. CASE k = id
    <3>1. HoldersAfter(id) = Holders(id) \cup {c} /\ c \notin Holders(id)
      BY <2>1, <2>4 DEF Holders, HoldersAfter
    <3>2. Cardinality(HoldersAfter(id)) = Cardinality(Holders(id)) + 1
      BY <1>f, <3>1, FS_AddElement
    <3>3. sent'[id] = sent[id] + 1
      BY <1>t, <2>1, <2>4 DEF JobsTypeOK
    <3> QED
      BY <1>t, <1>f, <2>2, <3>2, <3>3 DEF Counted, CountedAfter
  <2> QED
    BY <2>3, <2>4
<1>5. ASSUME NEW c, NEW k, NEW r, DoneStep(c, k, r)
      PROVE  CountedAfter(id)
  <2>1. /\ Changes(k, r) /\ r.attempts = jobs[k].attempts + 1
        /\ c \in DOMAIN inflight /\ inflight[c] = k
        /\ inflight' = [d \in DOMAIN inflight \ {c} |-> inflight[d]] /\ sent' = sent
    BY <1>5 DEF DoneStep
  <2>2. CASE k # id
    <3>1. HoldersAfter(id) = Holders(id)
      BY <2>1, <2>2 DEF Holders, HoldersAfter
    <3>2. jobs'[id] = jobs[id]
      BY <1>t, <2>1, <2>2, ChangeEffect
    <3> QED
      BY <2>1, <3>1, <3>2 DEF Counted, CountedAfter
  <2>3. CASE k = id
    <3>1. HoldersAfter(id) = Holders(id) \ {c} /\ c \in Holders(id)
      BY <2>1, <2>3 DEF Holders, HoldersAfter
    <3>2. Cardinality(HoldersAfter(id)) = Cardinality(Holders(id)) - 1
      BY <1>f, <3>1, FS_RemoveElement
    <3>3. jobs'[id].attempts = jobs[id].attempts + 1
      BY <1>t, <2>1, <2>3, ChangeEffect
    <3> QED
      BY <1>t, <1>f, <2>1, <3>2, <3>3 DEF Counted, CountedAfter
  <2> QED
    BY <2>2, <2>3
<1> QED
  BY <1>1, <1>2, <1>3, <1>4, <1>5 DEF JobStep

LEMMA CountStep ==
  ASSUME PubInv, EverySendIsCounted, QueueStep
  PROVE  EverySendIsCounted'
<1>t. JobsTypeOK
  BY DEF PubInv, PublishingTypeOK
<1> SUFFICES ASSUME NEW id \in DOMAIN jobs', jobs'[id].account \in Connected
             PROVE  CountedAfter(id)
  BY DEF EverySendIsCounted, CountedAfter, HoldersAfter
<1>1. CASE JobStep
  <2>1. id \in DOMAIN jobs /\ jobs'[id].account = jobs[id].account
    BY <1>1, <1>t, JobStepTypes
  <2>2. Counted(id)
    BY <2>1 DEF EverySendIsCounted, Counted, Holders
  <2> QED
    BY <1>1, <2>1, <2>2, CountKept
<1>2. ASSUME NEW N, AddStep(N)
      PROVE  CountedAfter(id)
  <2>1. HoldersAfter(id) = Holders(id)
    BY <1>2 DEF AddStep, Holders, HoldersAfter
  <2>2. CASE id \in DOMAIN jobs
    <3>1. jobs'[id] = jobs[id] /\ sent'[id] = sent[id]
      BY <1>2, <2>2 DEF AddStep
    <3> QED
      BY <2>1, <2>2, <3>1 DEF EverySendIsCounted, Counted, CountedAfter, Holders
  <2>3. CASE id \notin DOMAIN jobs
    <3>1. Holders(id) = {}
      BY <1>t, <2>3 DEF Holders, JobsTypeOK
    <3>2. sent'[id] = 0 /\ jobs'[id].attempts = 0
      BY <1>2, <2>3 DEF AddStep
    <3> QED
      BY <2>1, <3>1, <3>2, FS_EmptySet DEF CountedAfter
  <2> QED
    BY <2>2, <2>3
<1> QED
  BY <1>1, <1>2 DEF QueueStep

\* Every call of a connector is counted as an attempt once it has been answered
\* (publishing.service.ts:116-121), also when requests overlap on one job.
THEOREM SendsAreCounted == PublishingSpec => []EverySendIsCounted
<1>1. PublishingInit => EverySendIsCounted
  BY DEF PublishingInit, JobsInit, EverySendIsCounted
<1> QED
  BY <1>1, NextIsStep, CountStep, PubInvariance, PTL DEF PublishingSpec
-----------------------------------------------------------------------------
(* The posts under the queue.                                              *)

\* Enqueuing, sending and retrying read the posts and the clock and write neither.
LEMMA JobsLeavePosts ==
  ASSUME JobsNext
  PROVE  UNCHANGED postsVars
<1>1. ASSUME NEW p, NEW A, NEW t, Enqueue(p, A, t)
      PROVE  UNCHANGED postsVars
  BY <1>1 DEF Enqueue
<1>2. ASSUME NEW c, NEW id, ProcessJob(c, id)
      PROVE  UNCHANGED postsVars
  BY <1>2 DEF ProcessJob
<1>3. ASSUME NEW c, ProcessDue(c) \/ ProcessNext(c) \/ CompleteJob(c)
      PROVE  UNCHANGED postsVars
  BY <1>3 DEF ProcessDue, ProcessNext, CompleteJob
<1>4. ASSUME NEW id, Retry(id)
      PROVE  UNCHANGED postsVars
  BY <1>4 DEF Retry
<1> QED
  BY <1>1, <1>2, <1>3, <1>4 DEF JobsNext

\* The queue takes no liberty with the posts: beside it they live by the rules of the posts and
\* the workflow alone (publishing.service.ts:31-168 writes no post).
THEOREM QueueImplementsPosts == PublishingSpec => PostsSpec
<1>1. PublishingInit => PostsInit
  BY DEF PublishingInit
<1>2. [PublishingNext]_pubVars => [PostsNext]_postsVars
  BY JobsLeavePosts DEF PublishingNext, pubVars, postsVars
<1> QED
  BY <1>1, <1>2, PTL DEF PublishingSpec, PostsSpec

\* So that what the workflow promises of a scheduled post holds of every post that has jobs in
\* the queue, and no post is given a publish time that has passed
\* (workflow.service.ts:105-123, posts.service.ts:200-207).
THEOREM QueuedPostsKeepTheRules ==
  PublishingSpec => /\ [](ScheduledIsComplete /\ ScheduledWasReviewed)
                    /\ TableRespected /\ SchedulesAhead
  BY QueueImplementsPosts, ScheduledComplete, ScheduledReviewed, TableKept, ScheduledAheadOfTime,
     PTL
=============================================================================
