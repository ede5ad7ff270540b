--------------------------- MODULE AuthorityProofs ---------------------------
(***************************************************************************)
(* Theorems about Scheduling and Authority.  The composition of the slots  *)
(* with the queue keeps the invariant of the queue, and with it all that   *)
(* the queue promises, and a reserved slot has its job.  The guards only   *)
(* take steps away from that composition, so that this holds of the API as *)
(* it is served; what a call brings about is permitted to its caller's     *)
(* role, for every set of requests, posts, networks and accounts; and a    *)
(* key is never served what the roles that issue keys are refused.         *)
(***************************************************************************)
EXTENDS Authority, PublishingProofs

-----------------------------------------------------------------------------
(* The slots beside the queue.                                             *)

SlotsTypeOK == DOMAIN slots \subseteq SlotIds /\ slots \in [DOMAIN slots -> Slot]

SchedInv == PubInv /\ SlotsTypeOK /\ ReservedSlotHasJob

\* No step removes a job or changes what its key is made of.
JobsKept ==
  \A i \in DOMAIN jobs :
    /\ i \in DOMAIN jobs'
    /\ jobs'[i].post = jobs[i].post
    /\ jobs'[i].scheduledFor = jobs[i].scheduledFor

LEMMA KeptSlotsHaveJobs ==
  ASSUME ReservedSlotHasJob, JobsKept, NEW s \in DOMAIN slots, NEW p \in slots[s].posts
  PROVE  \E id \in DOMAIN jobs' :
           jobs'[id].post = p /\ jobs'[id].scheduledFor = slots[s].startsAt
<1>1. PICK id \in DOMAIN jobs : jobs[id].post = p /\ jobs[id].scheduledFor = slots[s].startsAt
  BY DEF ReservedSlotHasJob
<1> QED
  BY <1>1 DEF JobsKept

LEMMA PublishingKeepsJobs ==
  ASSUME PubInv, [PublishingNext]_pubVars
  PROVE  JobsKept
<1>1. CASE JobStep
  BY <1>1, JobStepTypes DEF PubInv, PublishingTypeOK, JobsKept
<1>2. CASE \E N : AddStep(N)
  BY <1>2 DEF AddStep, JobsKept
<1> QED
  BY <1>1, <1>2, NextIsStep DEF QueueStep

\* What reserving does to the post keeps its type.
LEMMA SlotPostTypes ==
  ASSUME PubInv, SlotsTypeOK, NEW s \in SlotIds, NEW p \in PostIds, SlotPost(s, p)
  PROVE  PostsTypeOK' /\ now' = now /\ slots[s] \in Slot
<1>1. now \in Time /\ DOMAIN posts \subseteq PostIds /\ posts \in [DOMAIN posts -> Post]
  BY DEF PubInv, PublishingTypeOK, PostsTypeOK
<1>2. slots[s] \in Slot /\ slots[s].startsAt \in PublishTime
  BY DEF SlotPost, SlotsTypeOK, Slot
<1>3. PICK r : r = [posts[p] EXCEPT !.status = "scheduled", !.scheduledAt = slots[s].startsAt,
                                    !.updatedAt = now]
  OBVIOUS
<1>p. posts[p] \in Post
  BY <1>1 DEF SlotPost
<1>4. r \in Post
  <2>1. PICK t \in PublishTime : t = slots[s].startsAt
    BY <1>2
  <2>2. r = [posts[p] EXCEPT !.status = "scheduled", !.scheduledAt = t, !.updatedAt = now]
    BY <1>3, <2>1
  <2> QED
    BY <1>1, <1>p, <2>2 DEF Post, Statuses
<1>5. posts' = [q \in DOMAIN posts \cup {p} |-> IF q = p THEN r ELSE posts[q]] /\ now' = now
  BY <1>3 DEF SlotPost, Save
<1>6. DOMAIN posts' \subseteq PostIds /\ posts' \in [DOMAIN posts' -> Post]
  BY <1>1, <1>4, <1>5
<1> QED
  BY <1>1, <1>2, <1>5, <1>6 DEF PostsTypeOK

\* After an enqueue every selected account has a job with the key asked for.
LEMMA EnqueueServes ==
  ASSUME PublishingTypeOK, NEW p \in PostIds, NEW S \in SUBSET Accounts, NEW t \in PublishTime,
         EnqueueJobs(p, S, t), NEW a \in S
  PROVE  \E id \in DOMAIN jobs' : jobs'[id].post = p /\ jobs'[id].scheduledFor = t
<1> DEFINE fresh == {b \in S : \A id \in DOMAIN jobs : ~HasKey(jobs[id], p, b, t)}
           N == {batches + 1} \X fresh
<1>1. jobs' = [id \in DOMAIN jobs \cup N |->
                 IF id \in DOMAIN jobs THEN jobs[id] ELSE NewJob(p, id[2], t)]
  BY DEF EnqueueJobs
<1>2. CASE a \notin fresh
  <2>1. PICK id \in DOMAIN jobs : HasKey(jobs[id], p, a, t)
    BY <1>2
  <2> QED
    BY <1>1, <2>1 DEF HasKey
<1>3. CASE a \in fresh
  <2>1. <<batches + 1, a>> \in N
    BY <1>3
  <2>2. <<batches + 1, a>> \notin DOMAIN jobs
    BY DEF PublishingTypeOK, JobsTypeOK
  <2>3. jobs'[<<batches + 1, a>>] = NewJob(p, a, t) /\ <<batches + 1, a>> \in DOMAIN jobs'
    BY <1>1, <2>1, <2>2
  <2> QED
    BY <2>3, NewRecord
<1> QED
  BY <1>2, <1>3

LEMMA SchedInvStep == SchedInv /\ [SchedulingNext]_schedVars => SchedInv'
<1> SUFFICES ASSUME SchedInv, [SchedulingNext]_schedVars
             PROVE  SchedInv'
  OBVIOUS
<1>t. PubInv /\ SlotsTypeOK /\ ReservedSlotHasJob /\ PublishingTypeOK
  BY DEF SchedInv, PubInv
<1>1. ASSUME [PublishingNext]_pubVars, UNCHANGED slots
      PROVE  SchedInv'
  <2>1. PubInv'
    BY <1>1, <1>t, PubInvStep
  <2>2. JobsKept
    BY <1>1, <1>t, PublishingKeepsJobs
  <2>3. ReservedSlotHasJob'
    BY <1>1, <1>t, <2>2, KeptSlotsHaveJobs DEF ReservedSlotHasJob
  <2> QED
    BY <1>1, <1>t, <2>1, <2>3 DEF SchedInv, SlotsTypeOK
<1>2. ASSUME NEW s \in SlotIds, NEW pl \in Platforms, NEW t \in Horizon, RecommendSlot(s, pl, t)
      PROVE  SchedInv'
  <2>1. [PublishingNext]_pubVars /\ UNCHANGED pubVars
    BY <1>2 DEF RecommendSlot
  <2>2. PubInv' /\ JobsKept
    BY <1>t, <2>1, PubInvStep, PublishingKeepsJobs
  <2>3. PICK r : r = [platform |-> pl, startsAt |-> Iso(t.at), status |-> "recommended",
                     posts |-> {}]
    OBVIOUS
  <2>a. Iso(t.at) \in PublishTime
    BY PostsAssumption DEF Iso, PublishTime
  <2>4. r \in Slot /\ r.posts = {}
    BY <2>3, <2>a DEF Slot
  <2>5. /\ s \notin DOMAIN slots
        /\ slots' = [u \in DOMAIN slots \cup {s} |-> IF u = s THEN r ELSE slots[u]]
    BY <1>2, <2>3 DEF RecommendSlot
  <2>6. SlotsTypeOK'
    BY <1>t, <2>4, <2>5 DEF SlotsTypeOK
  <2>7. ReservedSlotHasJob'
    BY <1>t, <2>2, <2>4, <2>5, KeptSlotsHaveJobs DEF ReservedSlotHasJob
  <2> QED
    BY <2>2, <2>6, <2>7 DEF SchedInv
<1>3. ASSUME NEW s \in SlotIds, ReserveEmpty(s)
      PROVE  SchedInv'
  <2>1. [PublishingNext]_pubVars /\ UNCHANGED pubVars
    BY <1>3 DEF ReserveEmpty
  <2>2. PubInv' /\ JobsKept
    BY <1>t, <2>1, PubInvStep, PublishingKeepsJobs
  <2>3. s \in DOMAIN slots /\ slots' = [slots EXCEPT ![s].status = "reserved"]
    BY <1>3 DEF ReserveEmpty
  <2>4. SlotsTypeOK'
    BY <1>t, <2>3 DEF SlotsTypeOK, Slot
  <2>5. \A u \in DOMAIN slots : slots'[u].posts = slots[u].posts
                             /\ slots'[u].startsAt = slots[u].startsAt
    BY <1>t, <2>3 DEF SlotsTypeOK, Slot
  <2>6. ReservedSlotHasJob'
    BY <1>t, <2>2, <2>3, <2>5, KeptSlotsHaveJobs DEF ReservedSlotHasJob
  <2> QED
    BY <2>2, <2>4, <2>6 DEF SchedInv
<1>4. ASSUME NEW s \in SlotIds, NEW p \in PostIds, ReserveForPost(s, p)
      PROVE  SchedInv'
  <2>1. /\ SlotPost(s, p) /\ Selected(p, {}) # {}
        /\ EnqueueJobs(p, Selected(p, {}), slots[s].startsAt)
        /\ slots' = [slots EXCEPT ![s].status = "reserved", ![s].posts = {p}]
        /\ s \in DOMAIN slots
    BY <1>4 DEF ReserveForPost, SlotPost
  <2>2. PostsTypeOK' /\ now' = now /\ slots[s] \in Slot /\ slots[s].startsAt \in PublishTime
    BY <1>t, <2>1, SlotPostTypes DEF Slot
  <2>3. Selected(p, {}) \in SUBSET Accounts
    BY DEF Selected
  <2>4. JobsTypeOK' /\ OneJobPerKey' /\ \E N : AddStep(N)
    BY <1>t, <2>1, <2>2, <2>3, EnqueueAdds DEF PubInv
  <2>5. PubInv'
    BY <1>t, <2>2, <2>4, AddKeepsInv
  <2>6. JobsKept
    BY <2>4 DEF AddStep, JobsKept
  <2>7. \E id \in DOMAIN jobs' :
          jobs'[id].post = p /\ jobs'[id].scheduledFor = slots[s].startsAt
    BY <1>t, <2>1, <2>2, <2>3, EnqueueServes
  <2>8. SlotsTypeOK'
    BY <1>t, <2>1, <2>2 DEF SlotsTypeOK, Slot
  <2>9. /\ DOMAIN slots' = DOMAIN slots
        /\ \A u \in DOMAIN slots : /\ slots'[u].startsAt = slots[u].startsAt
                                 /\ slots'[u].posts = IF u = s THEN {p} ELSE slots[u].posts
    BY <1>t, <2>1 DEF SlotsTypeOK, Slot
  <2>10. ReservedSlotHasJob'
    BY <1>t, <2>6, <2>7, <2>9, KeptSlotsHaveJobs DEF ReservedSlotHasJob
  <2> QED
    BY <2>5, <2>8, <2>10 DEF SchedInv
<1>5. ASSUME NEW s \in SlotIds, NEW p \in PostIds, ReserveRefused(s, p)
      PROVE  SchedInv'
  <2>1. SlotPost(s, p) /\ UNCHANGED <<jobVars, slots>>
    BY <1>5 DEF ReserveRefused
  <2>2. PostsTypeOK' /\ now' = now
    BY <1>t, <2>1, SlotPostTypes
  <2>3. /\ UNCHANGED <<batches, jobs, inflight, sweeps, sent, slots>>
    BY <2>1 DEF jobVars
  <2> QED
    BY <1>t, <2>2, <2>3
    DEF SchedInv, PubInv, PublishingTypeOK, JobsTypeOK, OneJobPerKey, HeldAreConnected,
        ProcessingHasHolder, SlotsTypeOK, ReservedSlotHasJob
<1>6. CASE UNCHANGED schedVars
  BY <1>1, <1>6 DEF schedVars, pubVars
<1> QED
  BY <1>1, <1>2, <1>3, <1>4, <1>5, <1>6 DEF SchedulingNext, SlotsNext

\* The invariant of the queue, and what slots add to it, hold in every reachable state of the
\* composition.
THEOREM SchedInvariance == SchedulingSpec => []SchedInv
<1>1. SchedulingInit => SchedInv
  BY PostsAssumption, PublishingAssumption
  DEF SchedulingInit, PublishingInit, PostsInit, JobsInit, SchedInv, PubInv, PublishingTypeOK,
      PostsTypeOK, JobsTypeOK, Time, OneJobPerKey, HeldAreConnected, ProcessingHasHolder,
      SlotsTypeOK, ReservedSlotHasJob
<1> QED
  BY <1>1, SchedInvStep, PTL DEF SchedulingSpec

\* Every reachable state of the slots, the queue and the posts is of its type.
THEOREM SchedulingTypeCorrect == SchedulingSpec => []SchedulingTypeOK
<1>1. SchedInv => SchedulingTypeOK
  BY DEF SchedInv, PubInv, SlotsTypeOK, SchedulingTypeOK
<1> QED
  BY <1>1, SchedInvariance, PTL

\* A slot reserved for a post has a job to send it at its start, for good
\* (scheduling.service.ts:193-216).
THEOREM ReservedSlotsAreServed == SchedulingSpec => []ReservedSlotHasJob
  BY SchedInvariance, PTL DEF SchedInv

\* The keys of the queue stay unique when slots are reserved beside the other enqueue calls
\* (publishing.service.ts:170-199, scheduling.service.ts:197-204).
THEOREM KeysStayUnique == SchedulingSpec => []OneJobPerKey
  BY SchedInvariance, PTL DEF SchedInv, PubInv

-----------------------------------------------------------------------------
(* What the queue promises by itself it promises with slots beside it,     *)
(* though reserving one writes the post past the rules of the workflow.    *)

LEMMA SchedIsQueueStep ==
  ASSUME SchedInv, [SchedulingNext]_schedVars
  PROVE  QueueStep
<1>t. PubInv /\ SlotsTypeOK /\ PublishingTypeOK
  BY DEF SchedInv, PubInv
<1>1. CASE UNCHANGED <<jobs, inflight, sent>>
  BY <1>1 DEF QueueStep, JobStep
<1>2. CASE PublishingNext
  BY <1>2, <1>t, NextIsStep
<1>3. ASSUME NEW s \in SlotIds, NEW pl, NEW t, RecommendSlot(s, pl, t) \/ ReserveEmpty(s)
      PROVE  UNCHANGED <<jobs, inflight, sent>>
  BY <1>3 DEF RecommendSlot, ReserveEmpty, pubVars
<1>4. ASSUME NEW s \in SlotIds, NEW p \in PostIds, ReserveForPost(s, p)
      PROVE  QueueStep
  <2>1. SlotPost(s, p) /\ EnqueueJobs(p, Selected(p, {}), slots[s].startsAt)
    BY <1>4 DEF ReserveForPost
  <2>2. slots[s].startsAt \in PublishTime
    BY <1>t, <2>1, SlotPostTypes DEF Slot
  <2>3. Selected(p, {}) \in SUBSET Accounts
    BY DEF Selected
  <2>4. \E N : AddStep(N)
    BY <1>t, <2>1, <2>2, <2>3, EnqueueAdds DEF PubInv
  <2> QED
    BY <2>4 DEF QueueStep
<1>5. ASSUME NEW s, NEW p, ReserveRefused(s, p)
      PROVE  UNCHANGED <<jobs, inflight, sent>>
  BY <1>5 DEF ReserveRefused, jobVars
<1>6. CASE UNCHANGED schedVars
  BY <1>1, <1>6 DEF schedVars, pubVars
<1> QED
  BY <1>1, <1>2, <1>3, <1>4, <1>5, <1>6 DEF SchedulingNext, SlotsNext

\* With slots reserved beside the requests of the queue, no job is stranded in processing
\* and every call of a connector is counted (publishing.service.ts:112-126,
\* scheduling.service.ts:193-216).
THEOREM ReservedQueueIsSound ==
  SchedulingSpec => [](ProcessingIsHeld /\ EverySendIsCounted)
<1>1. SchedInv => ProcessingIsHeld
  BY DEF SchedInv, PubInv, HeldAreConnected, ProcessingHasHolder, ProcessingIsHeld
<1>2. SchedulingInit => EverySendIsCounted
  BY DEF SchedulingInit, PublishingInit, JobsInit, EverySendIsCounted
<1>3. SchedInv /\ EverySendIsCounted /\ [SchedulingNext]_schedVars => EverySendIsCounted'
  BY SchedIsQueueStep, CountStep DEF SchedInv
<1> QED
  BY <1>1, <1>2, <1>3, SchedInvariance, PTL DEF SchedulingSpec

\* With slots reserved beside its own requests the queue implements module Delivery, and what
\* succeeded is not sent again: an enqueue that comes from a slot starts no delivery afresh
\* (publishing.service.ts:99-101, scheduling.service.ts:197-204).
THEOREM ReservedQueueDelivers == SchedulingSpec => SucceededIsFinal /\ ImplementsDelivery
<1> DEFINE Final == \A id \in DOMAIN jobs :
                     jobs[id].status = "succeeded"
                       => jobs'[id].status = "succeeded" /\ sent'[id] = sent[id]
<1>1. SchedulingInit => D!DeliveryInit
  BY DEF SchedulingInit, PublishingInit, JobsInit, D!DeliveryInit
<1>2. SchedInv /\ [SchedulingNext]_schedVars => [D!DeliveryNext]_phaseBar
  BY SchedIsQueueStep, DeliveryStep DEF SchedInv
<1>3. SchedInv /\ [SchedulingNext]_schedVars => [Final]_pubVars
  BY SchedIsQueueStep, SucceededStep DEF SchedInv
<1> QED
  BY <1>1, <1>2, <1>3, SchedInvariance, PTL
  DEF SchedulingSpec, ImplementsDelivery, D!DeliverySpec, phaseBar, SucceededIsFinal

-----------------------------------------------------------------------------
(* The guards.                                                             *)

LEMMA ServedHasPermission ==
  ASSUME NEW who, NEW needs, needs \notin {"public", "signed in"}, Served(who, needs)
  PROVE  HasPermission(who.role, needs)
  BY DEF Served

LEMMA RoleNames ==
  Roles = {"super_admin", "owner", "admin", "manager", "creator", "reviewer", "viewer",
           "api_service_account"}
  BY DEF Roles, RolePermissions

\* What the table of roles grants together.
LEMMA WhoCreatesSchedules ==
  ASSUME NEW role, HasPermission(role, "posts.create")
  PROVE  HasPermission(role, "posts.schedule")
  BY RoleNames DEF HasPermission, RolePermissions, Permissions

LEMMA WhoEditsSchedules ==
  ASSUME NEW role, HasPermission(role, "posts.edit")
  PROVE  HasPermission(role, "posts.schedule")
  BY RoleNames DEF HasPermission, RolePermissions, Permissions

\* What a key is served, every role that may issue keys is served as well: a key never reaches
\* further than who made it (permissions.ts:31-118, permissions.guard.ts:36-39).
THEOREM KeysWithinIssuers ==
  ASSUME NEW scopes, NEW needs, Served(KeyHolder(scopes), needs),
         NEW role, HasPermission(role, "api_keys.manage")
  PROVE  Served(User(role), needs)
<1>1. CASE needs = "public"
  BY <1>1 DEF Served
<1>2. role \in {"super_admin", "owner", "admin"}
  BY RoleNames DEF HasPermission, RolePermissions, Permissions
<1>3. CASE needs = "signed in"
  <2>1. User(role).role = role /\ Nobody.role = "nobody"
    BY DEF User, Nobody
  <2> QED
    BY <1>2, <1>3, <2>1 DEF Served
<1>4. CASE needs \in KeyHolder(scopes).permissions /\ HasPermission(KeyHolder(scopes).role, needs)
  <2>1. needs \in RolePermissions["api_service_account"]
    BY <1>4 DEF KeyHolder, HasPermission
  <2>2. needs \in RolePermissions[role]
    BY <1>2, <2>1 DEF RolePermissions, Permissions
  <2>3. User(role).role = role /\ User(role).permissions = RolePermissions[role]
    BY DEF User
  <2>4. HasPermission(role, needs)
    BY <1>2, <2>2, RoleNames DEF HasPermission
  <2> QED
    BY <2>2, <2>3, <2>4 DEF Served
<1> QED
  BY <1>1, <1>3, <1>4 DEF Served

-----------------------------------------------------------------------------
(* The steps are steps of Scheduling.                                      *)

LEMMA CallPostsSteps ==
  ASSUME NEW who, CallPosts(who)
  PROVE  PostsNext /\ UNCHANGED jobVars /\ UNCHANGED slots
  BY DEF CallPosts, PostsNext

LEMMA CallWorkflowSteps ==
  ASSUME NEW who, CallWorkflow(who)
  PROVE  PostsNext /\ UNCHANGED jobVars /\ UNCHANGED slots
<1>1. \A p \in PostIds : {p} \in SUBSET PostIds
  OBVIOUS
<1>2. {"submit", "approve", "request_changes", "cancel", "archive"} = WorkflowActions
  BY DEF WorkflowActions
<1> QED
  BY <1>1, <1>2 DEF CallWorkflow, PostsNext

LEMMA CallSchedulingSteps ==
  ASSUME NEW who, CallScheduling(who)
  PROVE  SlotsNext
  BY DEF CallScheduling, SlotsNext

LEMMA CallPublishingSteps ==
  ASSUME NEW who, CallPublishing(who)
  PROVE  JobsNext /\ UNCHANGED slots
  BY DEF CallPublishing, JobsNext

LEMMA AuthorityStep == [AuthorityNext]_authorityVars => [SchedulingNext]_schedVars
<1> SUFFICES ASSUME [AuthorityNext]_authorityVars
             PROVE  [SchedulingNext]_schedVars
  OBVIOUS
<1>1. CASE UNCHANGED authorityVars
  BY <1>1 DEF authorityVars
<1>2. ASSUME NEW who, CallPosts(who) \/ CallWorkflow(who)
      PROVE  SchedulingNext
  BY <1>2, CallPostsSteps, CallWorkflowSteps DEF SchedulingNext, PublishingNext
<1>3. ASSUME NEW who, CallScheduling(who)
      PROVE  SchedulingNext
  BY <1>3, CallSchedulingSteps DEF SchedulingNext
<1>4. ASSUME NEW who, CallPublishing(who)
      PROVE  SchedulingNext
  BY <1>4, CallPublishingSteps DEF SchedulingNext, PublishingNext
<1>5. CASE GoesOn
  <2>1. UNCHANGED slots
    BY <1>5 DEF GoesOn
  <2>2. JobsNext \/ (PostsNext /\ UNCHANGED jobVars)
    BY <1>5 DEF GoesOn, JobsNext, PostsNext
  <2> QED
    BY <2>1, <2>2 DEF SchedulingNext, PublishingNext
<1> QED
  BY <1>1, <1>2, <1>3, <1>4, <1>5 DEF AuthorityNext, Called

\* The API as it is served implements the slots, the queue and the posts as they are specified
\* without callers (authentication.guard.ts and permissions.guard.ts in front of the handlers).
THEOREM ServedImplementsScheduling == AuthoritySpec => SchedulingSpec
<1>1. AuthorityInit => SchedulingInit
  BY DEF AuthorityInit
<1> QED
  BY <1>1, AuthorityStep, PTL DEF AuthoritySpec, SchedulingSpec

\* A slot reserved for a post has its job, whoever called for what before and after
\* (scheduling.service.ts:193-216).
THEOREM ReservedSlotsHaveJobs == AuthoritySpec => []ReservedSlotHasJob
  BY ServedImplementsScheduling, ReservedSlotsAreServed, PTL

\* The whole of what the queue promises it promises of the API as it is served, whoever called for
\* what (publishing.service.ts:77-199).
THEOREM ServedQueueIsSound ==
  AuthoritySpec => /\ [](OneJobPerKey /\ ProcessingIsHeld /\ EverySendIsCounted)
                   /\ SucceededIsFinal /\ ImplementsDelivery
  BY ServedImplementsScheduling, KeysStayUnique, ReservedQueueIsSound, ReservedQueueDelivers, PTL

-----------------------------------------------------------------------------
(* The effects.                                                            *)

\* A step that leaves the posts alone.
LEMMA NoPostsTouched ==
  ASSUME UNCHANGED posts
  PROVE  PostsPermitted
  BY DEF PostsPermitted, StatusPermitted

\* A step of the posts alone.
LEMMA NoJobsTouched ==
  ASSUME UNCHANGED jobVars
  PROVE  JobsPermitted
  BY DEF JobsPermitted, jobVars

\* A post written over: what is asked of its writer.
LEMMA OnePostTouched ==
  ASSUME NEW p \in DOMAIN posts, NEW r, Save(p, r),
         posts'[p] = r => /\ StatusPermitted(p)
                          /\ r.content # posts[p].content => May("posts.edit")
                          /\ r.scheduledAt # posts[p].scheduledAt =>
                               \/ May("posts.schedule")
                               \/ r.scheduledAt = Never /\ May("posts.review")
  PROVE  PostsPermitted
<1>1. /\ DOMAIN posts' = DOMAIN posts
      /\ posts'[p] = r
      /\ \A q \in DOMAIN posts : q # p => posts'[q] = posts[q]
  BY DEF Save
<1>2. \A q \in DOMAIN posts : q # p => StatusPermitted(q)
  BY <1>1 DEF StatusPermitted
<1> QED
  BY <1>1, <1>2 DEF PostsPermitted

\* A new post.
LEMMA OnePostAdded ==
  ASSUME NEW p, p \notin DOMAIN posts, NEW r, Save(p, r), May("posts.create"),
         r.status = "scheduled" \/ r.scheduledAt # Never => May("posts.schedule")
  PROVE  PostsPermitted
<1>1. /\ DOMAIN posts' = DOMAIN posts \cup {p}
      /\ posts'[p] = r
      /\ \A q \in DOMAIN posts : posts'[q] = posts[q]
  BY DEF Save
<1>2. \A q \in DOMAIN posts : StatusPermitted(q)
  BY <1>1 DEF StatusPermitted
<1> QED
  BY <1>1, <1>2 DEF PostsPermitted

\* Posts moved by a workflow action.
LEMMA BulkPermitted ==
  ASSUME PostsTypeOK, NEW ids, NEW a \in WorkflowActions, Bulk(ids, a),
         CASE a \in {"submit", "archive"}  -> May("posts.edit") \/ May("posts.review")
           [] a \in {"approve", "request_changes"} -> May("posts.review")
           [] a = "cancel"                 -> May("posts.review") \/ May("posts.schedule")
  PROVE  PostsPermitted
<1>1. DOMAIN posts' = DOMAIN posts
  BY DEF Bulk
<1>2. ASSUME NEW p \in DOMAIN posts
      PROVE  /\ StatusPermitted(p)
             /\ posts'[p].content = posts[p].content
             /\ posts'[p].scheduledAt # posts[p].scheduledAt =>
                  a = "cancel" /\ posts'[p].scheduledAt = Never
  <2>0. posts[p] \in Post
    BY DEF PostsTypeOK
  <2>1. CASE posts'[p] = posts[p]
    BY <2>1 DEF StatusPermitted
  <2>2. CASE p \in Movable(ids, a) /\ posts'[p] = Moved(posts[p], a)
    <3>1. /\ posts'[p].status = TargetOf(a)
          /\ posts'[p].content = posts[p].content
          /\ posts'[p].scheduledAt = IF a = "cancel" THEN Never ELSE posts[p].scheduledAt
      BY <2>0, <2>2 DEF Moved, Post
    <3>2. /\ a = "submit" => TargetOf(a) = "in_review"
          /\ a = "archive" => TargetOf(a) = "archived"
          /\ a = "request_changes" => TargetOf(a) = "revisions_needed"
          /\ a \in {"approve", "cancel"} => TargetOf(a) = "approved"
      BY DEF TargetOf
    <3>3. a = "cancel" => posts[p].status \in {"in_review", "scheduled"}
      BY <2>2, <3>2 DEF Movable, AllowedTransitions
    <3>4. a = "cancel" => posts[p].status = "scheduled" \/ CancelledInReview(p)
      BY <2>2, <3>3 DEF CancelledInReview
    <3>5. StatusPermitted(p)
      BY <3>1, <3>2, <3>4 DEF StatusPermitted, WorkflowActions
    <3> QED
      BY <3>1, <3>5
  <2> QED
    BY <2>1, <2>2 DEF Bulk
<1> QED
  BY <1>1, <1>2 DEF PostsPermitted, WorkflowActions

LEMMA CallPostsPermitted ==
  ASSUME PostsTypeOK, CallPosts(by')
  PROVE  EffectsPermitted
<1>1. JobsPermitted /\ SlotsPermitted
  BY NoJobsTouched DEF CallPosts, SlotsPermitted
<1>2. posts \in [DOMAIN posts -> Post]
  BY DEF PostsTypeOK
<1>3. CASE /\ Served(by', PostsRoutes.create)
           /\ \E p \in PostIds, c \in Contents, s \in NewStatuses, t \in Horizon \cup {Never} :
                Create(p, c, s, t)
  <2>1. May("posts.create") /\ May("posts.schedule")
    BY <1>3, ServedHasPermission, WhoCreatesSchedules DEF PostsRoutes, May
  <2> QED
    BY <1>1, <1>3, <2>1, OnePostAdded DEF Create, EffectsPermitted
<1>4. CASE /\ Served(by', PostsRoutes.update)
           /\ \E p \in PostIds, c \in Contents, t \in Horizon \cup {Never} : Update(p, c, t)
  <2>1. May("posts.edit") /\ May("posts.schedule")
    BY <1>4, ServedHasPermission, WhoEditsSchedules DEF PostsRoutes, May
  <2>2. PICK p \in PostIds, c \in Contents, t \in Horizon \cup {Never} : Update(p, c, t)
    BY <1>4
  <2>3. PICK r : r = [posts[p] EXCEPT !.content = c,
                                      !.scheduledAt = IF t = Never THEN @ ELSE t,
                                      !.updatedAt = now]
    OBVIOUS
  <2>4. p \in DOMAIN posts /\ Save(p, r)
    BY <2>2, <2>3 DEF Update
  <2>5. r.status = posts[p].status
    BY <1>2, <2>3, <2>4 DEF Post
  <2>6. posts'[p] = r => StatusPermitted(p)
    BY <2>5 DEF StatusPermitted
  <2> QED
    BY <1>1, <2>1, <2>4, <2>6, OnePostTouched DEF EffectsPermitted
<1>5. CASE /\ Served(by', PostsRoutes.duplicate)
           /\ \E p, q \in PostIds : Duplicate(p, q)
  <2>1. May("posts.create") /\ May("posts.schedule")
    BY <1>5, ServedHasPermission, WhoCreatesSchedules DEF PostsRoutes, May
  <2> QED
    BY <1>1, <1>5, <2>1, OnePostAdded DEF Duplicate, EffectsPermitted
<1>6. CASE /\ Served(by', PostsRoutes.archive)
           /\ \E p \in PostIds : Archive(p)
  <2>1. May("posts.edit")
    BY <1>6, ServedHasPermission DEF PostsRoutes, May
  <2>2. PICK p \in PostIds : Archive(p)
    BY <1>6
  <2>3. PICK r : r = [posts[p] EXCEPT !.status = "archived", !.updatedAt = now]
    OBVIOUS
  <2>4. p \in DOMAIN posts /\ Save(p, r)
    BY <2>2, <2>3 DEF Archive
  <2>5. r.status = "archived" /\ r.content = posts[p].content
        /\ r.scheduledAt = posts[p].scheduledAt
    BY <1>2, <2>3, <2>4 DEF Post
  <2>6. posts'[p] = r => StatusPermitted(p)
    BY <2>1, <2>5 DEF StatusPermitted
  <2> QED
    BY <1>1, <2>4, <2>5, <2>6, OnePostTouched DEF EffectsPermitted
<1> QED
  BY <1>3, <1>4, <1>5, <1>6 DEF CallPosts

LEMMA CallWorkflowPermitted ==
  ASSUME PostsTypeOK, CallWorkflow(by')
  PROVE  EffectsPermitted
<1>1. JobsPermitted /\ SlotsPermitted
  BY NoJobsTouched DEF CallWorkflow, SlotsPermitted
<1>a. {"submit", "approve", "request_changes", "cancel", "archive"} = WorkflowActions
  BY DEF WorkflowActions
<1>2. CASE /\ Served(by', WorkflowRoutes.bulk)
           /\ \E ids \in SUBSET PostIds, a \in WorkflowActions : Bulk(ids, a)
  <2>1. May("posts.review")
    BY <1>2, ServedHasPermission DEF WorkflowRoutes, May
  <2> QED
    BY <1>1, <1>a, <1>2, <2>1, BulkPermitted DEF EffectsPermitted
<1>3. CASE /\ Served(by', WorkflowRoutes.submit)
           /\ \E p \in PostIds : Bulk({p}, "submit")
  <2>1. May("posts.edit")
    BY <1>3, ServedHasPermission DEF WorkflowRoutes, May
  <2> QED
    BY <1>1, <1>a, <1>3, <2>1, BulkPermitted DEF EffectsPermitted
<1>4. CASE /\ Served(by', WorkflowRoutes.approve)
           /\ \E p \in PostIds : Bulk({p}, "approve")
  <2>1. May("posts.review")
    BY <1>4, ServedHasPermission DEF WorkflowRoutes, May
  <2> QED
    BY <1>1, <1>a, <1>4, <2>1, BulkPermitted DEF EffectsPermitted
<1>5. CASE /\ Served(by', WorkflowRoutes.requestChanges)
           /\ \E p \in PostIds : Bulk({p}, "request_changes")
  <2>1. May("posts.review")
    BY <1>5, ServedHasPermission DEF WorkflowRoutes, May
  <2> QED
    BY <1>1, <1>a, <1>5, <2>1, BulkPermitted DEF EffectsPermitted
<1>6. CASE /\ Served(by', WorkflowRoutes.cancel)
           /\ \E p \in PostIds : Bulk({p}, "cancel")
  <2>1. May("posts.schedule")
    BY <1>6, ServedHasPermission DEF WorkflowRoutes, May
  <2> QED
    BY <1>1, <1>a, <1>6, <2>1, BulkPermitted DEF EffectsPermitted
<1>7. CASE /\ Served(by', WorkflowRoutes.schedule)
           /\ \E p \in PostIds, t \in Horizon : Schedule(p, t)
  <2>1. May("posts.schedule")
    BY <1>7, ServedHasPermission DEF WorkflowRoutes, May
  <2>2. PICK p \in PostIds, t \in Horizon : Schedule(p, t)
    BY <1>7
  <2>3. PICK r : r = [posts[p] EXCEPT !.status = "scheduled", !.scheduledAt = t,
                                      !.updatedAt = now]
    OBVIOUS
  <2>4. p \in DOMAIN posts /\ Save(p, r)
    BY <2>2, <2>3 DEF Schedule
  <2>5. r.status = "scheduled" /\ r.content = posts[p].content
    BY <2>3, <2>4 DEF PostsTypeOK, Post
  <2>6. posts'[p] = r => StatusPermitted(p)
    BY <2>1, <2>5 DEF StatusPermitted
  <2> QED
    BY <1>1, <2>1, <2>4, <2>5, <2>6, OnePostTouched DEF EffectsPermitted
<1> QED
  BY <1>2, <1>3, <1>4, <1>5, <1>6, <1>7 DEF CallWorkflow

LEMMA CallSchedulingPermitted ==
  ASSUME PostsTypeOK, CallScheduling(by')
  PROVE  EffectsPermitted
<1>1. May("posts.schedule")
  BY ServedHasPermission DEF CallScheduling, SchedulingRoutes, May
<1>2. ASSUME UNCHANGED <<posts, jobs, sent>>
      PROVE  EffectsPermitted
  BY <1>1, <1>2, NoPostsTouched DEF EffectsPermitted, JobsPermitted, SlotsPermitted
<1>3. ASSUME NEW s, NEW p, SlotPost(s, p)
      PROVE  PostsPermitted
  <2>1. PICK r : r = [posts[p] EXCEPT !.status = "scheduled", !.scheduledAt = slots[s].startsAt,
                                      !.updatedAt = now]
    OBVIOUS
  <2>2. p \in DOMAIN posts /\ Save(p, r)
    BY <1>3, <2>1 DEF SlotPost
  <2>3. r.status = "scheduled" /\ r.content = posts[p].content
    BY <2>1, <2>2 DEF PostsTypeOK, Post
  <2>4. posts'[p] = r => StatusPermitted(p)
    BY <1>1, <2>3 DEF StatusPermitted
  <2> QED
    BY <1>1, <2>2, <2>3, <2>4, OnePostTouched
<1>4. ASSUME NEW p, NEW S, NEW t, EnqueueJobs(p, S, t)
      PROVE  JobsPermitted
  BY <1>1, <1>4 DEF EnqueueJobs, JobsPermitted
<1>5. CASE \E s \in SlotIds, pl \in Platforms, t \in Horizon : RecommendSlot(s, pl, t)
  BY <1>2, <1>5 DEF RecommendSlot, pubVars
<1>6. CASE \E s \in SlotIds : ReserveEmpty(s)
  BY <1>2, <1>6 DEF ReserveEmpty, pubVars
<1>7. CASE \E s \in SlotIds, p \in PostIds : ReserveForPost(s, p)
  BY <1>1, <1>3, <1>4, <1>7 DEF ReserveForPost, EffectsPermitted, SlotsPermitted
<1>8. CASE \E s \in SlotIds, p \in PostIds : ReserveRefused(s, p)
  BY <1>3, <1>8, NoJobsTouched DEF ReserveRefused, EffectsPermitted, SlotsPermitted
<1> QED
  BY <1>5, <1>6, <1>7, <1>8 DEF CallScheduling

\* Beginning to process a job makes none.
LEMMA BeginKeepsJobs ==
  ASSUME NEW c, NEW id, Begin(c, id)
  PROVE  DOMAIN jobs' = DOMAIN jobs
  BY DEF Begin

LEMMA CallPublishingPermitted ==
  ASSUME CallPublishing(by')
  PROVE  EffectsPermitted
<1>1. May("posts.publish")
  BY ServedHasPermission DEF CallPublishing, PublishingRoutes, May
<1>2. UNCHANGED posts
  BY DEF CallPublishing, Enqueue, ProcessDue, ProcessJob, Retry, postsVars
<1>3. PostsPermitted
  BY <1>2, NoPostsTouched
<1> QED
  BY <1>1, <1>3 DEF CallPublishing, EffectsPermitted, JobsPermitted, SlotsPermitted

LEMMA GoesOnPermitted ==
  ASSUME GoesOn
  PROVE  EffectsPermitted
<1>1. UNCHANGED posts /\ DOMAIN jobs' = DOMAIN jobs
  BY BeginKeepsJobs DEF GoesOn, ProcessNext, CompleteJob, Tick, postsVars, jobVars
<1>2. PostsPermitted
  BY <1>1, NoPostsTouched
<1> QED
  BY <1>1, <1>2 DEF GoesOn, EffectsPermitted, JobsPermitted, SlotsPermitted

\* What a call brings about is permitted to its caller's role, by whichever route it came
\* (the controllers' RequirePermissions against what their handlers write).
THEOREM EffectsFollowRoles == AuthoritySpec => EffectsArePermitted
<1>1. PostsTypeOK /\ [AuthorityNext]_authorityVars => [EffectsPermitted]_schedVars
  BY CallPostsPermitted, CallWorkflowPermitted, CallSchedulingPermitted,
     CallPublishingPermitted, GoesOnPermitted
  DEF AuthorityNext, Called, authorityVars
<1>2. SchedInv => PostsTypeOK
  BY DEF SchedInv, PubInv, PublishingTypeOK
<1>3. AuthoritySpec => []PostsTypeOK
  BY <1>2, ServedImplementsScheduling, SchedInvariance, PTL
<1> QED
  BY <1>1, <1>3, PTL DEF AuthoritySpec, EffectsArePermitted
=============================================================================
