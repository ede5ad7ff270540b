---------------------------- MODULE PostsProofs -----------------------------
(***************************************************************************)
(* Theorems about Posts, for every value of the constants.                 *)
(* Each method of the two services but Bulk saves one post, so the proofs  *)
(* go through what a save does (SaveEffect) and through the record that    *)
(* each method saves.                                                      *)
(***************************************************************************)
EXTENDS Posts, TLAPS

LEMMA SaveEffect ==
  ASSUME PostsTypeOK, NEW p \in PostIds, NEW r \in Post, Save(p, r)
  PROVE  /\ DOMAIN posts' = DOMAIN posts \cup {p}
         /\ posts' \in [DOMAIN posts' -> Post]
         /\ posts'[p] = r
         /\ \A q \in DOMAIN posts : q # p => posts'[q] = posts[q]
  BY DEF PostsTypeOK, Save

LEMMA SaveTyped ==
  ASSUME PostsTypeOK, NEW p \in PostIds, NEW r \in Post, Save(p, r), UNCHANGED now
  PROVE  PostsTypeOK'
<1>1. now' \in Time
  BY DEF PostsTypeOK
<1>2. DOMAIN posts' \subseteq PostIds
  BY SaveEffect DEF PostsTypeOK
<1>3. posts' \in [DOMAIN posts' -> Post]
  BY SaveEffect
<1> QED
  BY <1>1, <1>2, <1>3 DEF PostsTypeOK

\* The fields of the records the methods save.
LEMMA CreatedRecord ==
  ASSUME PostsTypeOK, NEW c \in Contents, NEW s \in NewStatuses,
         NEW t \in PublishTime \cup {Never}
  PROVE  [status |-> s, content |-> c, scheduledAt |-> t, updatedAt |-> now,
          reviewed |-> s # "draft",
          signedOff |-> s \notin {"draft", "in_review", "revisions_needed"}] \in Post
  BY PostsAssumption DEF PostsTypeOK, Post

LEMMA EditedRecord ==
  ASSUME PostsTypeOK, NEW r \in Post, NEW c \in Contents, NEW t \in PublishTime \cup {Never}
  PROVE  [r EXCEPT !.content = c, !.scheduledAt = IF t = Never THEN @ ELSE t,
                   !.updatedAt = now] \in Post
  BY DEF PostsTypeOK, Post

LEMMA CopiedRecord ==
  ASSUME PostsTypeOK, NEW r \in Post
  PROVE  [r EXCEPT !.status = "draft", !.scheduledAt = Never, !.updatedAt = now,
                   !.reviewed = FALSE, !.signedOff = FALSE] \in Post
  BY DEF PostsTypeOK, Post, Statuses

LEMMA ArchivedRecord ==
  ASSUME PostsTypeOK, NEW r \in Post
  PROVE  [r EXCEPT !.status = "archived", !.updatedAt = now] \in Post
  BY DEF PostsTypeOK, Post, Statuses

LEMMA ScheduledRecord ==
  ASSUME PostsTypeOK, NEW r \in Post, NEW t \in PublishTime
  PROVE  [r EXCEPT !.status = "scheduled", !.scheduledAt = t, !.updatedAt = now] \in Post
  BY DEF PostsTypeOK, Post, Statuses

LEMMA MovedRecord ==
  ASSUME PostsTypeOK, NEW r \in Post, NEW a \in WorkflowActions
  PROVE  /\ Moved(r, a) \in Post
         /\ Moved(r, a).status = TargetOf(a)
         /\ Moved(r, a).content = r.content
         /\ Moved(r, a).updatedAt = now
         /\ Moved(r, a).scheduledAt \in {r.scheduledAt, Never}
         /\ Moved(r, a).reviewed = (r.reviewed \/ a = "submit")
  BY DEF PostsTypeOK, Post, Statuses, WorkflowActions, TargetOf, Moved

LEMMA BulkEffect ==
  ASSUME PostsTypeOK, NEW ids \in SUBSET PostIds, NEW a \in WorkflowActions, Bulk(ids, a)
  PROVE  /\ PostsTypeOK'
         /\ DOMAIN posts' = DOMAIN posts
         /\ \A p \in DOMAIN posts :
              \/ posts'[p] = posts[p]
              \/ /\ <<posts[p].status, TargetOf(a)>> \in AllowedTransitions
                 /\ posts'[p] = Moved(posts[p], a)
<1>1. \A p \in DOMAIN posts : posts[p] \in Post
  BY DEF PostsTypeOK
<1>2. \A p \in DOMAIN posts : Moved(posts[p], a) \in Post
  BY <1>1, MovedRecord
<1>3. DOMAIN posts' = DOMAIN posts
  BY DEF Bulk
<1>4. posts' \in [DOMAIN posts -> Post]
  BY <1>1, <1>2 DEF Bulk
<1>5. PostsTypeOK'
  BY <1>3, <1>4 DEF PostsTypeOK, Bulk
<1>6. \A p \in DOMAIN posts :
        posts'[p] = posts[p] \/ (p \in Movable(ids, a) /\ posts'[p] = Moved(posts[p], a))
  BY DEF Bulk
<1> QED
  BY <1>3, <1>5, <1>6 DEF Movable

-----------------------------------------------------------------------------
(* What a step of the posts does to each of them.                          *)

Ahead(old, r) == r.scheduledAt \in {old, Never} \/ r.scheduledAt.at > now

\* A post that was not there before.
Fresh(r) ==
  /\ r.status # "draft" => Complete(r.content) /\ r.reviewed
  /\ Ahead(Never, r)

\* A post edited in place.
Edited(r, s) ==
  /\ s.status = r.status
  /\ s.reviewed = r.reviewed
  /\ s.status = "draft" \/ Complete(s.content)
  /\ Ahead(r.scheduledAt, s)

\* A post moved to another status.
Advanced(r, s) ==
  /\ <<r.status, s.status>> \in AllowedTransitions
  /\ s.content = r.content
  /\ \/ s.status \in {"in_review", "revisions_needed", "approved", "archived"}
     \/ s.status = "scheduled" /\ Complete(s.content)
  /\ s.reviewed = r.reviewed \/ s.reviewed
  /\ s.status = "in_review" => s.reviewed
  /\ Ahead(r.scheduledAt, s)

Stamped(p) ==
  /\ now' = now
  /\ posts'[p].updatedAt = now
  /\ \/ p \notin DOMAIN posts /\ Fresh(posts'[p])
     \/ p \in DOMAIN posts /\ (Edited(posts[p], posts'[p]) \/ Advanced(posts[p], posts'[p]))

StepEffect ==
  /\ PostsTypeOK'
  /\ now <= now'
  /\ DOMAIN posts \subseteq DOMAIN posts'
  /\ \A p \in DOMAIN posts' : (p \in DOMAIN posts /\ posts'[p] = posts[p]) \/ Stamped(p)

\* A save of a stamped record has the effect of a step.
LEMMA SavedStep ==
  ASSUME PostsTypeOK, NEW p \in PostIds, NEW r \in Post, Save(p, r), UNCHANGED now,
         r.updatedAt = now,
         \/ p \notin DOMAIN posts /\ Fresh(r)
         \/ p \in DOMAIN posts /\ (Edited(posts[p], r) \/ Advanced(posts[p], r))
  PROVE  StepEffect
<1>1. PostsTypeOK'
  BY SaveTyped
<1>2. now <= now'
  BY DEF PostsTypeOK, Time
<1>3. DOMAIN posts' = DOMAIN posts \cup {p} /\ posts'[p] = r
  BY SaveEffect
<1>4. Stamped(p)
  BY <1>3 DEF Stamped
<1>5. \A q \in DOMAIN posts : q # p => posts'[q] = posts[q]
  BY SaveEffect
<1> QED
  BY <1>1, <1>2, <1>3, <1>4, <1>5 DEF StepEffect

LEMMA StepLemma == PostsTypeOK /\ PostsNext => StepEffect
<1> SUFFICES ASSUME PostsTypeOK, PostsNext
             PROVE  StepEffect
  OBVIOUS
<1>t. now \in Int /\ Horizon \subseteq PublishTime /\ \A p \in DOMAIN posts : p \in PostIds /\ posts[p] \in Post
  BY PostsAssumption DEF PostsTypeOK, Time
<1>1. ASSUME NEW p \in PostIds, NEW c \in Contents, NEW s \in NewStatuses,
             NEW t \in Horizon \cup {Never}, Create(p, c, s, t)
      PROVE  StepEffect
  <2> DEFINE r == [status |-> s, content |-> c, scheduledAt |-> t, updatedAt |-> now,
                   reviewed |-> s # "draft",
                   signedOff |-> s \notin {"draft", "in_review", "revisions_needed"}]
  <2>1. r \in Post
    BY <1>t, CreatedRecord
  <2>2. Fresh(r)
    BY <1>1 DEF Create, Fresh, Ahead, ContentValid
  <2>3. p \notin DOMAIN posts /\ Save(p, r) /\ UNCHANGED now /\ r.updatedAt = now
    BY <1>1 DEF Create
  <2> HIDE DEF r
  <2> QED
    BY <2>1, <2>2, <2>3, SavedStep
<1>2. ASSUME NEW p \in PostIds, NEW c \in Contents, NEW t \in Horizon \cup {Never},
             Update(p, c, t)
      PROVE  StepEffect
  <2> DEFINE r == [posts[p] EXCEPT !.content = c,
                                   !.scheduledAt = IF t = Never THEN @ ELSE t,
                                   !.updatedAt = now]
  <2>0. p \in DOMAIN posts /\ posts[p] \in Post
    BY <1>2, <1>t DEF Update
  <2>1. r \in Post
    BY <1>t, <2>0, EditedRecord
  <2>2. /\ r.status = posts[p].status
        /\ r.reviewed = posts[p].reviewed
        /\ r.content = c
        /\ r.updatedAt = now
        /\ r.scheduledAt = posts[p].scheduledAt \/ (r.scheduledAt = t /\ t # Never)
    BY <2>0 DEF Post
  <2>3. Save(p, r) /\ UNCHANGED now
    BY <1>2 DEF Update
  <2> HIDE DEF r
  <2>4. Edited(posts[p], r)
    BY <1>2, <2>2 DEF Update, Edited, Ahead, ContentValid
  <2> QED
    BY <2>0, <2>1, <2>2, <2>3, <2>4, SavedStep
<1>3. ASSUME NEW p \in PostIds, NEW q \in PostIds, Duplicate(p, q)
      PROVE  StepEffect
  <2> DEFINE r == [posts[p] EXCEPT !.status = "draft", !.scheduledAt = Never,
                                   !.updatedAt = now, !.reviewed = FALSE, !.signedOff = FALSE]
  <2>0. posts[p] \in Post
    BY <1>3, <1>t DEF Duplicate
  <2>1. r \in Post
    BY <2>0, CopiedRecord
  <2>2. r.status = "draft" /\ r.updatedAt = now /\ r.scheduledAt = Never
    BY <2>0 DEF Post
  <2>3. q \notin DOMAIN posts /\ Save(q, r) /\ UNCHANGED now
    BY <1>3 DEF Duplicate
  <2> HIDE DEF r
  <2> QED
    BY <2>1, <2>2, <2>3, SavedStep DEF Fresh, Ahead
<1>4. ASSUME NEW p \in PostIds, Archive(p)
      PROVE  StepEffect
  <2> DEFINE r == [posts[p] EXCEPT !.status = "archived", !.updatedAt = now]
  <2>0. p \in DOMAIN posts /\ posts[p] \in Post
    BY <1>4, <1>t DEF Archive
  <2>1. r \in Post
    BY <2>0, ArchivedRecord
  <2>2. /\ r.status = "archived" /\ r.updatedAt = now
        /\ r.content = posts[p].content /\ r.reviewed = posts[p].reviewed
        /\ r.scheduledAt = posts[p].scheduledAt
    BY <2>0 DEF Post
  <2>3. Save(p, r) /\ UNCHANGED now
    BY <1>4 DEF Archive
  <2>4. <<posts[p].status, "archived">> \in AllowedTransitions
    BY <1>4, <2>0 DEF Archive, Post, Statuses, AllowedTransitions
  <2> HIDE DEF r
  <2> QED
    BY <2>0, <2>1, <2>2, <2>3, <2>4, SavedStep DEF Advanced, Ahead
<1>5. ASSUME NEW ids \in SUBSET PostIds, NEW a \in WorkflowActions, Bulk(ids, a)
      PROVE  StepEffect
  <2>1. PostsTypeOK' /\ DOMAIN posts' = DOMAIN posts
    BY <1>5, BulkEffect
  <2>2. now' = now /\ now <= now'
    BY <1>5, <1>t DEF Bulk
  <2>3. ASSUME NEW p \in DOMAIN posts, posts'[p] # posts[p]
        PROVE  Stamped(p)
    <3>1. /\ <<posts[p].status, TargetOf(a)>> \in AllowedTransitions
          /\ posts'[p] = Moved(posts[p], a)
      BY <1>5, <2>3, BulkEffect
    <3>2. posts[p] \in Post
      BY <1>t
    <3>3. /\ posts'[p].status = TargetOf(a)
          /\ posts'[p].content = posts[p].content
          /\ posts'[p].updatedAt = now
          /\ posts'[p].scheduledAt \in {posts[p].scheduledAt, Never}
          /\ posts'[p].reviewed = (posts[p].reviewed \/ a = "submit")
      BY <3>1, <3>2, MovedRecord
    <3>4. TargetOf(a) \in {"in_review", "revisions_needed", "approved", "archived"}
      BY DEF TargetOf, WorkflowActions
    <3>5. TargetOf(a) = "in_review" => a = "submit"
      BY DEF TargetOf, WorkflowActions
    <3>6. posts[p].reviewed \in BOOLEAN
      BY <3>2 DEF Post
    <3>7. posts'[p].reviewed = posts[p].reviewed \/ posts'[p].reviewed
      BY <3>3, <3>6
    <3>8. Ahead(posts[p].scheduledAt, posts'[p])
      BY <3>3 DEF Ahead
    <3>9. Advanced(posts[p], posts'[p])
      BY <3>1, <3>3, <3>4, <3>5, <3>7, <3>8 DEF Advanced
    <3> QED
      BY <2>2, <3>3, <3>9 DEF Stamped
  <2> QED
    BY <2>1, <2>2, <2>3 DEF StepEffect
<1>6. ASSUME NEW p \in PostIds, NEW t \in Horizon, Schedule(p, t)
      PROVE  StepEffect
  <2> DEFINE r == [posts[p] EXCEPT !.status = "scheduled", !.scheduledAt = t, !.updatedAt = now]
  <2>0. p \in DOMAIN posts /\ posts[p] \in Post
    BY <1>6, <1>t DEF Schedule
  <2>1. r \in Post
    BY <1>t, <2>0, ScheduledRecord
  <2>2. /\ r.status = "scheduled" /\ r.updatedAt = now /\ r.scheduledAt = t
        /\ r.content = posts[p].content /\ r.reviewed = posts[p].reviewed
    BY <2>0 DEF Post
  <2>3. Save(p, r) /\ UNCHANGED now
    BY <1>6 DEF Schedule
  <2> HIDE DEF r
  <2>4. Advanced(posts[p], r)
    BY <1>6, <2>2 DEF Schedule, Advanced, Ahead
  <2> QED
    BY <2>0, <2>1, <2>2, <2>3, <2>4, SavedStep
<1>7. CASE Tick
  BY <1>7, <1>t, PostsAssumption DEF Tick, StepEffect, PostsTypeOK, Time
<1> QED
  BY <1>1, <1>2, <1>3, <1>4, <1>5, <1>6, <1>7 DEF PostsNext

-----------------------------------------------------------------------------
(* The properties of the posts.                                            *)

\* The reason a post is reviewed before it is approved: being reviewed is kept from the review
\* on, and whatever has left the drafts has been there.
ReviewedSinceDraft ==
  \A p \in DOMAIN posts : posts[p].status \notin {"draft", "archived"} => posts[p].reviewed

PostsInv == PostsTypeOK /\ ScheduledIsComplete /\ ReviewedSinceDraft

LEMMA PostsInvInit == PostsInit => PostsInv
  BY PostsAssumption
  DEF PostsInit, PostsInv, PostsTypeOK, ScheduledIsComplete, ReviewedSinceDraft, Time

LEMMA PostsInvStep == PostsInv /\ [PostsNext]_postsVars => PostsInv'
<1> SUFFICES ASSUME PostsInv, [PostsNext]_postsVars
             PROVE  PostsInv'
  OBVIOUS
<1>1. CASE UNCHANGED postsVars
  BY <1>1 DEF postsVars, PostsInv, PostsTypeOK, ScheduledIsComplete, ReviewedSinceDraft
<1>2. CASE PostsNext
  <2>1. StepEffect
    BY <1>2, StepLemma DEF PostsInv
  <2>2. ScheduledIsComplete'
    BY <2>1 DEF StepEffect, Stamped, Fresh, Edited, Advanced, PostsInv, ScheduledIsComplete
  <2>3. ReviewedSinceDraft'
    <3> SUFFICES ASSUME NEW p \in DOMAIN posts',
                        posts'[p].status \notin {"draft", "archived"}
                 PROVE  posts'[p].reviewed
      BY DEF ReviewedSinceDraft
    <3>1. CASE p \in DOMAIN posts /\ posts'[p] = posts[p]
      BY <3>1 DEF PostsInv, ReviewedSinceDraft
    <3>2. CASE p \notin DOMAIN posts /\ Fresh(posts'[p])
      BY <3>2 DEF Fresh
    <3>3. CASE p \in DOMAIN posts /\ Edited(posts[p], posts'[p])
      BY <3>3 DEF Edited, PostsInv, ReviewedSinceDraft
    <3>4. CASE p \in DOMAIN posts /\ Advanced(posts[p], posts'[p])
      <4>1. CASE posts'[p].status = "in_review"
        BY <3>4, <4>1 DEF Advanced
      <4>2. CASE posts'[p].status # "in_review"
        <5>1. posts[p].status \notin {"draft", "archived"}
          BY <3>4, <4>2 DEF Advanced, AllowedTransitions
        <5>2. posts[p].reviewed
          BY <3>4, <5>1 DEF PostsInv, ReviewedSinceDraft
        <5> QED
          BY <3>4, <5>2 DEF Advanced
      <4> QED
        BY <4>1, <4>2
    <3> QED
      BY <2>1, <3>1, <3>2, <3>3, <3>4 DEF StepEffect, Stamped
  <2> QED
    BY <2>1, <2>2, <2>3 DEF PostsInv, StepEffect
<1> QED
  BY <1>1, <1>2

\* The inductive invariant of the posts holds in every reachable state.
THEOREM PostsInvariance == PostsSpec => []PostsInv
  BY PostsInvInit, PostsInvStep, PTL DEF PostsSpec


\* Every reachable state of the posts is of its type.
THEOREM PostsTypeCorrect == PostsSpec => []PostsTypeOK
  BY PostsInvariance, PTL DEF PostsInv

\* What is scheduled can be published: no edit, move or copy leaves a scheduled post without the
\* media that its networks require (workflow.service.ts:109-123).
THEOREM ScheduledComplete == PostsSpec => []ScheduledIsComplete
  BY PostsInvariance, PTL DEF PostsInv

\* A draft is approved or scheduled by way of review only (workflow.service.ts:18-28).
THEOREM ScheduledReviewed == PostsSpec => []ScheduledWasReviewed
<1>1. PostsInv => ScheduledWasReviewed
  BY DEF PostsInv, ReviewedSinceDraft, ScheduledWasReviewed
<1> QED
  BY <1>1, PostsInvariance, PTL

\* Both services keep to the workflow's table (workflow.service.ts:18-28).
THEOREM TableKept == PostsSpec => TableRespected
<1> DEFINE Kept == \A p \in DOMAIN posts :
             /\ p \in DOMAIN posts'
             /\ posts'[p].status # posts[p].status
                  => <<posts[p].status, posts'[p].status>> \in AllowedTransitions
<1>1. PostsInv /\ [PostsNext]_postsVars => [Kept]_postsVars
  <2> SUFFICES ASSUME PostsInv, PostsNext
               PROVE  Kept
    BY DEF postsVars
  <2>1. StepEffect
    BY StepLemma DEF PostsInv
  <2> QED
    BY <2>1 DEF StepEffect, Stamped, Edited, Advanced
<1> QED
  BY <1>1, PostsInvariance, PTL DEF PostsSpec, TableRespected

\* No post is given a publish time that has passed (workflow.service.ts:105-107).
THEOREM ScheduledAheadOfTime == PostsSpec => SchedulesAhead
<1> DEFINE Kept == \A p \in DOMAIN posts' :
             \/ p \in DOMAIN posts /\ posts'[p].scheduledAt = posts[p].scheduledAt
             \/ posts'[p].scheduledAt = Never
             \/ posts'[p].scheduledAt.at > now
<1>1. PostsInv /\ [PostsNext]_postsVars => [Kept]_postsVars
  <2> SUFFICES ASSUME PostsInv, PostsNext
               PROVE  Kept
    BY DEF postsVars
  <2>1. StepEffect
    BY StepLemma DEF PostsInv
  <2> QED
    BY <2>1 DEF StepEffect, Stamped, Fresh, Edited, Advanced, Ahead
<1> QED
  BY <1>1, PostsInvariance, PTL DEF PostsSpec, SchedulesAhead
=============================================================================
