----------------------------- MODULE Scheduling -----------------------------
(***************************************************************************)
(* SchedulingService: recommended publish slots and their reservation,     *)
(* composed with the posts and the publishing queue it writes through.     *)
(* Where the planner of recommendSlots puts a slot is left open, except    *)
(* that the caller may have it start from any instant, past ones included; *)
(* the demo slots are slots it could have recommended.                     *)
(***************************************************************************)
EXTENDS Publishing

CONSTANTS
  SlotIds

VARIABLES
  slots  \* id -> slot

schedVars == <<now, posts, batches, jobs, inflight, sweeps, sent, slots>>

\* post is the post of the slot's metadata; only a reserved slot has one, and need not.
Slot == [platform : Platforms, startsAt : PublishTime, status : {"recommended", "reserved"},
         posts : SUBSET PostIds]

SchedulingTypeOK ==
  /\ PublishingTypeOK
  /\ DOMAIN slots \subseteq SlotIds
  /\ slots \in [DOMAIN slots -> Slot]

SchedulingInit == PublishingInit /\ slots = [s \in {} |-> Never]

-----------------------------------------------------------------------------

RecommendSlot(s, pl, t) ==
  /\ s \notin DOMAIN slots
  /\ slots' = [u \in DOMAIN slots \cup {s} |->
                 IF u = s THEN [platform |-> pl, startsAt |-> Iso(t.at), status |-> "recommended",
                                posts |-> {}]
                          ELSE slots[u]]
  /\ UNCHANGED pubVars

\* Mutant: the missing post is recorded as if it were one.
ReserveEmpty_Recorded(s) ==
  /\ s \in DOMAIN slots
  /\ slots[s].status = "recommended"
  /\ slots' = [slots EXCEPT ![s].status = "reserved", ![s].posts = {Never}]
  /\ UNCHANGED pubVars

\* Reserving without a post.
ReserveEmpty(s) ==
  /\ s \in DOMAIN slots
  /\ slots[s].status = "recommended"
  /\ slots' = [slots EXCEPT ![s].status = "reserved"]
  /\ UNCHANGED pubVars

\* What reserveSlot does to the post, before it enqueues anything.
SlotPost(s, p) ==
  /\ s \in DOMAIN slots
  /\ p \in DOMAIN posts
  /\ slots[s].status = "recommended"
  /\ slots[s].platform \in posts[p].content.targets
  /\ Save(p, [posts[p] EXCEPT !.status = "scheduled", !.scheduledAt = slots[s].startsAt,
                              !.updatedAt = now])
  /\ UNCHANGED now

\* Mutant: the jobs are made for the time the post had before.
ReserveForPost_OldTime(s, p) ==
  /\ SlotPost(s, p)
  /\ Selected(p, {}) # {}
  /\ EnqueueJobs(p, Selected(p, {}),
                 IF posts[p].scheduledAt # Never THEN posts[p].scheduledAt ELSE Iso(now))
  /\ slots' = [slots EXCEPT ![s].status = "reserved", ![s].posts = {p}]

\* Reserving for a post: it is scheduled, whatever its status, and jobs are enqueued for all the
\* networks it targets.
ReserveForPost(s, p) ==
  /\ SlotPost(s, p)
  /\ Selected(p, {}) # {}
  /\ EnqueueJobs(p, Selected(p, {}), slots[s].startsAt)
  /\ slots' = [slots EXCEPT ![s].status = "reserved", ![s].posts = {p}]

\* Enqueue refuses a post without an account to send it to: the slot is not reserved, but the
\* post has been scheduled by then.
ReserveRefused(s, p) ==
  /\ SlotPost(s, p)
  /\ Selected(p, {}) = {}
  /\ UNCHANGED <<jobVars, slots>>

-----------------------------------------------------------------------------

SlotsNext ==
  \/ \E s \in SlotIds, pl \in Platforms, t \in Horizon : RecommendSlot(s, pl, t)
  \/ \E s \in SlotIds : ReserveEmpty(s)
  \/ \E s \in SlotIds, p \in PostIds : ReserveForPost(s, p) \/ ReserveRefused(s, p)

SchedulingNext == SlotsNext \/ (PublishingNext /\ UNCHANGED slots)

SchedulingSpec == SchedulingInit /\ [][SchedulingNext]_schedVars

-----------------------------------------------------------------------------
(* Correctness.                                                            *)

\* A slot reserved for a post has a job to send that post at the start of the slot, and goes on
\* having it whatever becomes of the post and the job: the slot is marked last, after the jobs
\* are made (scheduling.service.ts:193-216).
ReservedSlotHasJob ==
  \A s \in DOMAIN slots : \A p \in slots[s].posts :
    \E id \in DOMAIN jobs : jobs[id].post = p /\ jobs[id].scheduledFor = slots[s].startsAt

-----------------------------------------------------------------------------
(* What the other service says of scheduling.                              *)

\* The three rules of WorkflowService.schedule (workflow.service.ts:104-123): a post becomes
\* scheduled from a status the table lets it, for a time in the future, and with its media.
\* Posts alone keeps them all; reserving a slot goes past each of them.
ScheduledByTheRules ==
  [][\A p \in DOMAIN posts :
       posts[p].status # "scheduled" /\ posts'[p].status = "scheduled"
         => /\ <<posts[p].status, "scheduled">> \in AllowedTransitions
            /\ posts'[p].scheduledAt.at > now
            /\ Complete(posts'[p].content)]_schedVars
=============================================================================
