------------------------------ MODULE Authority ------------------------------
(***************************************************************************)
(* The posts, their slots and their jobs as the API serves them: every     *)
(* call is made by somebody, passes the guards of module Routes, and then  *)
(* runs its handler.  What the handlers do is in module Scheduling and the *)
(* modules under it; here is who may set it going.  The permissions are    *)
(* those of the moment of the request: nothing in the code changes the     *)
(* role of an account.                                                     *)
(***************************************************************************)
EXTENDS Scheduling, Routes

CONSTANT
  Requests  \* bound: the credentials that requests come with

VARIABLE
  by  \* who made the last step

authorityVars == <<schedVars, by>>

ASSUME RequestsAssumption == Requests \subseteq Credentials(Permissions \cup {"unheard of"})

AuthorityInit == SchedulingInit /\ by = Nobody

-----------------------------------------------------------------------------

\* PostsController
CallPosts(who) ==
  /\ UNCHANGED <<jobVars, slots>>
  /\ \/ /\ Served(who, PostsRoutes.create)
        /\ \E p \in PostIds, c \in Contents, s \in NewStatuses, t \in Horizon \cup {Never} :
             Create(p, c, s, t)
     \/ /\ Served(who, PostsRoutes.update)
        /\ \E p \in PostIds, c \in Contents, t \in Horizon \cup {Never} : Update(p, c, t)
     \/ /\ Served(who, PostsRoutes.duplicate)
        /\ \E p, q \in PostIds : Duplicate(p, q)
     \/ /\ Served(who, PostsRoutes.archive)
        /\ \E p \in PostIds : Archive(p)

\* WorkflowController: the routes for one post, and the one for many.
CallWorkflow(who) ==
  /\ UNCHANGED <<jobVars, slots>>
  /\ \/ /\ Served(who, WorkflowRoutes.bulk)
        /\ \E ids \in SUBSET PostIds, a \in WorkflowActions : Bulk(ids, a)
     \/ Served(who, WorkflowRoutes.submit) /\ \E p \in PostIds : Bulk({p}, "submit")
     \/ Served(who, WorkflowRoutes.approve) /\ \E p \in PostIds : Bulk({p}, "approve")
     \/ Served(who, WorkflowRoutes.requestChanges)
          /\ \E p \in PostIds : Bulk({p}, "request_changes")
     \/ Served(who, WorkflowRoutes.cancel) /\ \E p \in PostIds : Bulk({p}, "cancel")
     \/ Served(who, WorkflowRoutes.schedule)
          /\ \E p \in PostIds, t \in Horizon : Schedule(p, t)

\* SchedulingController
CallScheduling(who) ==
  \/ /\ Served(who, SchedulingRoutes.recommend)
     /\ \E s \in SlotIds, pl \in Platforms, t \in Horizon : RecommendSlot(s, pl, t)
  \/ /\ Served(who, SchedulingRoutes.reserve)
     /\ \/ \E s \in SlotIds : ReserveEmpty(s)
        \/ \E s \in SlotIds, p \in PostIds : ReserveForPost(s, p) \/ ReserveRefused(s, p)

\* PublishingController
CallPublishing(who) ==
  /\ UNCHANGED slots
  /\ \/ /\ Served(who, PublishingRoutes.enqueue)
        /\ \E p \in PostIds, A \in SUBSET Accounts, t \in Horizon \cup {Never} : Enqueue(p, A, t)
     \/ /\ Served(who, PublishingRoutes.processDue)
        /\ \E c \in Callers : ProcessDue(c)
     \/ /\ Served(who, PublishingRoutes.process)
        /\ \E c \in Callers, id \in JobIds : ProcessJob(c, id)
     \/ /\ Served(who, PublishingRoutes.retry)
        /\ \E id \in JobIds : Retry(id)

\* A request that its guards let through.
Called ==
  \E q \in Requests :
    /\ by' = PrincipalOf(q)
    /\ \/ CallPosts(by') \/ CallWorkflow(by') \/ CallScheduling(by') \/ CallPublishing(by')

\* Requests going on after an await, and the clock.
GoesOn ==
  /\ by' = Nobody
  /\ UNCHANGED slots
  /\ \/ \E c \in Callers : ProcessNext(c) \/ CompleteJob(c)
     \/ Tick /\ UNCHANGED jobVars

AuthorityNext == Called \/ GoesOn

AuthoritySpec == AuthorityInit /\ [][AuthorityNext]_authorityVars

-----------------------------------------------------------------------------
(* Correctness.                                                            *)

\* What the caller's role may do.
May(permission) == HasPermission(by'.role, permission)

\* A post in review that is cancelled: the one move whose caller need not hold the permission its
\* effect belongs to.
CancelledInReview(p) ==
  posts[p].status = "in_review" /\ posts'[p] = Moved(posts[p], "cancel")

\* The statuses a post is moved to, by roles that may.  A post that is new is not moved there.
StatusPermitted(p) ==
  LET before == posts[p].status
      after == posts'[p].status
  IN \/ after = before
     \/ after = "scheduled" /\ May("posts.schedule")
     \/ after \in {"approved", "revisions_needed"} /\ May("posts.review")
     \/ /\ after = "approved" /\ May("posts.schedule")
        /\ before = "scheduled" \/ CancelledInReview(p)
     \/ after \in {"in_review", "archived"} /\ (May("posts.edit") \/ May("posts.review"))

PostsPermitted ==
  /\ \A p \in DOMAIN posts' \ DOMAIN posts :
       /\ May("posts.create")
       /\ posts'[p].status = "scheduled" \/ posts'[p].scheduledAt # Never => May("posts.schedule")
  /\ \A p \in DOMAIN posts :
       /\ StatusPermitted(p)
       /\ posts'[p].content # posts[p].content => May("posts.edit")
       /\ posts'[p].scheduledAt # posts[p].scheduledAt =>
            \/ May("posts.schedule")
            \/ posts'[p].scheduledAt = Never /\ May("posts.review")

JobsPermitted ==
  /\ DOMAIN jobs' # DOMAIN jobs => May("posts.publish") \/ May("posts.schedule")
  /\ \A id \in DOMAIN jobs : sent'[id] # sent[id] => May("posts.publish") \/ by' = Nobody

SlotsPermitted == slots' # slots => May("posts.schedule")

\* What a call brings about is the business of the caller's role, whichever route it came by:
\* a post is scheduled (by creating it with a time, by an edit, by the workflow, by a slot) by
\* roles that schedule, approved and sent back by roles that review, rewritten by roles that edit;
\* jobs come from roles that schedule or publish, and only publishing roles have a job sent.
\* Roles that schedule may take a scheduled post back to approved.  That they can approve a post
\* in review the same way (workflow.controller.ts:111 and workflow.service.ts:219, against
\* authz-rbac.md:36) is set aside by name, in CancelledInReview: ApprovedBySomeone fails of it.  A
\* post is created in any status by whoever may create posts, which the documents do not restrict.
\* The routes ask for one permission each and have effects that belong to another: creating or
\* editing a post can schedule it, and the table of roles makes up for it (posts.controller.ts:70-74
\* with posts.service.ts:146-168; permissions.ts:31-118).
EffectsPermitted == PostsPermitted /\ JobsPermitted /\ SlotsPermitted
EffectsArePermitted == [][EffectsPermitted]_schedVars
=============================================================================
