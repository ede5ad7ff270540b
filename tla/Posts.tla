------------------------------- MODULE Posts --------------------------------
(***************************************************************************)
(* The posts of a workspace and the two services that write them: the      *)
(* PostsService (create, edit, duplicate, archive) and the WorkflowService *)
(* (single and bulk transitions, scheduling), over the PostsRepository.    *)
(*                                                                         *)
(* Every method is synchronous, so each is one action; only the clock      *)
(* separates two of them, and several may fall in one instant of it.       *)
(* Content is what the rules of post-validation.ts can tell apart: which   *)
(* networks it targets and whether it has media.  Content they refuse for  *)
(* every post (too long, too many hashtags, no text) never gets in and is  *)
(* left out, and so are the comments and the timeline.  The demo rows the  *)
(* repository starts with are left out too: they are written past every    *)
(* check.  Calls the code refuses change nothing and are not steps.        *)
(***************************************************************************)
EXTENDS Integers

CONSTANTS
  PostIds,
  Platforms,
  MediaPlatforms,  \* the networks that cannot publish a post without media
  Contents,        \* bound: the contents callers submit
  NewStatuses,     \* bound: the statuses callers create posts in
  Horizon,         \* bound: the publish times callers ask for
  MaxTime          \* bound: the last instant of the clock

Statuses == {"draft", "in_review", "revisions_needed", "approved", "scheduled",
             "publishing", "published", "failed", "archived"}

\* A publish time is the ISO 8601 string somebody sent, and is kept as it was spelled: at is the
\* instant it means, and off how much later than that instant it comes when strings are sorted
\* among those of toISOString.  An offset from UTC, or milliseconds left out, sort it early or late.
PublishTime == [at : Nat, off : Int]

\* How toISOString spells an instant.
Iso(instant) == [at |-> instant, off |-> 0]

\* A publish time that is not set.
Never == [at |-> -1, off |-> 0]

ASSUME PostsAssumption ==
  /\ MediaPlatforms \subseteq Platforms
  /\ Contents \subseteq [targets : (SUBSET Platforms) \ {{}}, media : BOOLEAN]
  /\ NewStatuses \subseteq Statuses
  /\ Horizon \subseteq PublishTime
  /\ MaxTime \in Nat

VARIABLES
  now,    \* Date.now()
  posts   \* the repository: id -> post

postsVars == <<now, posts>>

Time == 0 .. MaxTime

WorkflowActions == {"submit", "approve", "request_changes", "cancel", "archive"}

\* reviewed and signedOff are history: the post has been in review, and has had approval.
Post == [status : Statuses, content : Contents, scheduledAt : PublishTime \cup {Never},
         updatedAt : Time, reviewed : BOOLEAN, signedOff : BOOLEAN]

PostsTypeOK ==
  /\ now \in Time
  /\ DOMAIN posts \subseteq PostIds
  /\ posts \in [DOMAIN posts -> Post]

PostsInit ==
  /\ now = 0
  /\ posts = [p \in {} |-> Never]

-----------------------------------------------------------------------------
(* The rules the services share.                                           *)

AllowedTransitions ==
  {<<"draft", "in_review">>, <<"draft", "archived">>,
   <<"in_review", "approved">>, <<"in_review", "revisions_needed">>,
   <<"in_review", "archived">>,
   <<"revisions_needed", "draft">>, <<"revisions_needed", "in_review">>,
   <<"revisions_needed", "archived">>,
   <<"approved", "scheduled">>, <<"approved", "archived">>,
   <<"scheduled", "publishing">>, <<"scheduled", "approved">>,
   <<"scheduled", "archived">>,
   <<"publishing", "published">>, <<"publishing", "failed">>,
   <<"published", "archived">>,
   <<"failed", "scheduled">>, <<"failed", "archived">>}

EditableStatuses == {"draft", "revisions_needed", "approved", "scheduled"}

\* No media_required error.
Complete(c) == c.media \/ c.targets \cap MediaPlatforms = {}

\* Mutant: the media rule is waived for every edit, not for drafts only.
ContentValid_NoMedia(c, status) == c \in Contents

\* assertContentValid: a draft may still lack its media.
ContentValid(c, status) == status = "draft" \/ Complete(c)

\* The status a workflow action moves a post to.
TargetOf(a) ==
  CASE a = "submit"          -> "in_review"
    [] a = "approve"         -> "approved"
    [] a = "request_changes" -> "revisions_needed"
    [] a = "cancel"          -> "approved"
    [] a = "archive"         -> "archived"

\* Mutant: the status is moved without a new updatedAt.
Moved_NotStamped(r, a) ==
  [r EXCEPT !.status = TargetOf(a),
            !.scheduledAt = IF a = "cancel" THEN Never ELSE @,
            !.reviewed = @ \/ a = "submit",
            !.signedOff = @ \/ a = "approve"]

\* Cancelling clears the schedule; every other move keeps it.
Moved(r, a) ==
  [r EXCEPT !.status = TargetOf(a),
            !.updatedAt = now,
            !.scheduledAt = IF a = "cancel" THEN Never ELSE @,
            !.reviewed = @ \/ a = "submit",
            !.signedOff = @ \/ a = "approve"]

\* PostsRepository.save
Save(p, r) == posts' = [q \in DOMAIN posts \cup {p} |-> IF q = p THEN r ELSE posts[q]]

-----------------------------------------------------------------------------
(* PostsService.                                                           *)

\* A caller may create a post in any status; the default is draft, or scheduled with a time.
Create(p, c, status, t) ==
  /\ p \notin DOMAIN posts
  /\ t = Never \/ t.at > now
  /\ ContentValid(c, status)
  /\ Save(p, [status |-> status, content |-> c, scheduledAt |-> t, updatedAt |-> now,
              reviewed |-> status # "draft",
              signedOff |-> status \notin {"draft", "in_review", "revisions_needed"}])
  /\ UNCHANGED now

\* t = Never is an edit that leaves the schedule alone, whatever it is.
Update(p, c, t) ==
  /\ p \in DOMAIN posts
  /\ posts[p].status \in EditableStatuses
  /\ t = Never \/ t.at > now
  /\ ContentValid(c, posts[p].status)
  /\ Save(p, [posts[p] EXCEPT !.content = c,
                              !.scheduledAt = IF t = Never THEN @ ELSE t,
                              !.updatedAt = now])
  /\ UNCHANGED now

\* Mutant: the copy keeps the state of its source.
Duplicate_Whole(p, q) ==
  /\ p \in DOMAIN posts
  /\ q \notin DOMAIN posts
  /\ Save(q, [posts[p] EXCEPT !.scheduledAt = Never, !.updatedAt = now,
                              !.reviewed = FALSE, !.signedOff = FALSE])
  /\ UNCHANGED now

Duplicate(p, q) ==
  /\ p \in DOMAIN posts
  /\ q \notin DOMAIN posts
  /\ Save(q, [posts[p] EXCEPT !.status = "draft", !.scheduledAt = Never, !.updatedAt = now,
                              !.reviewed = FALSE, !.signedOff = FALSE])
  /\ UNCHANGED now

\* Mutant: a post on its way to the network can be archived.
Archive_Always(p) ==
  /\ p \in DOMAIN posts
  /\ posts[p].status # "archived"
  /\ Save(p, [posts[p] EXCEPT !.status = "archived", !.updatedAt = now])
  /\ UNCHANGED now

Archive(p) ==
  /\ p \in DOMAIN posts
  /\ posts[p].status \notin {"archived", "publishing"}
  /\ Save(p, [posts[p] EXCEPT !.status = "archived", !.updatedAt = now])
  /\ UNCHANGED now

-----------------------------------------------------------------------------
(* WorkflowService.                                                        *)

\* The posts of ids a bulk action reaches: the others report an error of their own.
Movable(ids, a) ==
  {p \in ids \cap DOMAIN posts : <<posts[p].status, TargetOf(a)>> \in AllowedTransitions}

\* One action over many posts; the endpoints for a single post are the case of one id.
Bulk(ids, a) ==
  /\ Movable(ids, a) # {}
  /\ posts' = [p \in DOMAIN posts |->
                 IF p \in Movable(ids, a) THEN Moved(posts[p], a) ELSE posts[p]]
  /\ UNCHANGED now

\* Mutant: the time is not compared with the clock.
Schedule_AnyTime(p, t) ==
  /\ p \in DOMAIN posts
  /\ <<posts[p].status, "scheduled">> \in AllowedTransitions
  /\ Complete(posts[p].content)
  /\ Save(p, [posts[p] EXCEPT !.status = "scheduled", !.scheduledAt = t, !.updatedAt = now])
  /\ UNCHANGED now

Schedule(p, t) ==
  /\ p \in DOMAIN posts
  /\ <<posts[p].status, "scheduled">> \in AllowedTransitions
  /\ t.at > now
  /\ Complete(posts[p].content)
  /\ Save(p, [posts[p] EXCEPT !.status = "scheduled", !.scheduledAt = t, !.updatedAt = now])
  /\ UNCHANGED now

-----------------------------------------------------------------------------

Tick ==
  /\ now < MaxTime
  /\ now' = now + 1
  /\ UNCHANGED posts

PostsNext ==
  \/ \E p \in PostIds, c \in Contents, s \in NewStatuses, t \in Horizon \cup {Never} :
       Create(p, c, s, t)
  \/ \E p \in PostIds, c \in Contents, t \in Horizon \cup {Never} : Update(p, c, t)
  \/ \E p, q \in PostIds : Duplicate(p, q)
  \/ \E p \in PostIds : Archive(p)
  \/ \E ids \in SUBSET PostIds, a \in WorkflowActions : Bulk(ids, a)
  \/ \E p \in PostIds, t \in Horizon : Schedule(p, t)
  \/ Tick

PostsSpec == PostsInit /\ [][PostsNext]_postsVars

-----------------------------------------------------------------------------
(* Correctness.                                                            *)

\* A post that is scheduled, or further on its way, can be published as it stands: the media
\* requirement holds from scheduling on, through every later edit (workflow.service.ts:109-123,
\* posts.service.ts:200-207), though it was never asked of the draft or of the review.
ScheduledIsComplete ==
  \A p \in DOMAIN posts :
    posts[p].status \in {"scheduled", "publishing", "published", "failed"}
      => Complete(posts[p].content)

\* A post written as a draft comes to be approved or scheduled only by way of review, whatever
\* mixture of cancels, edits, duplicates and bulk actions it goes through
\* (workflow.service.ts:18-28).
ScheduledWasReviewed ==
  \A p \in DOMAIN posts : posts[p].status \in {"approved", "scheduled"} => posts[p].reviewed

\* Every change of a post's status, by either service, is a transition of the workflow's table:
\* an archived post stays archived, and one being published is out of everyone's reach
\* (workflow.service.ts:18-28 against posts.service.ts:259-277).
TableRespected ==
  [][\A p \in DOMAIN posts :
       /\ p \in DOMAIN posts'
       /\ posts'[p].status # posts[p].status
            => <<posts[p].status, posts'[p].status>> \in AllowedTransitions]_postsVars

\* A publish time is always in the future when a post is given it
\* (workflow.service.ts:105-107, posts.service.ts:200-207).
SchedulesAhead ==
  [][\A p \in DOMAIN posts' :
       \/ p \in DOMAIN posts /\ posts'[p].scheduledAt = posts[p].scheduledAt
       \/ posts'[p].scheduledAt = Never
       \/ posts'[p].scheduledAt.at > now]_postsVars

\* What the cancel endpoint is documented to do: it takes a scheduled post back to approved
\* (workflow.controller.ts:105), so that approval stays the reviewers'.
ApprovedBySomeone ==
  \A p \in DOMAIN posts : posts[p].status \in {"approved", "scheduled"} => posts[p].signedOff
=============================================================================
