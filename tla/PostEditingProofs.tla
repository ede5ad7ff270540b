------------------------- MODULE PostEditingProofs --------------------------
(***************************************************************************)
(* Theorems about PostEditing, for every value of the constants: a guarded *)
(* save loses no later write, and composers, guarded or not, take steps of *)
(* Posts only, so that the rules of posts hold under them.                 *)
(***************************************************************************)
EXTENDS PostEditing, PostsProofs

(* Guarded saves.  A copy that fell behind by a later write holds a token  *)
(* older than its post's updatedAt, which is never set back; so its save   *)
(* is refused.                                                             *)

CopiesAreOlder ==
  \A c \in copies :
    /\ c.post \in DOMAIN posts
    /\ c.token <= posts[c.post].updatedAt
    /\ c.behind = "later" => c.token < posts[c.post].updatedAt

StampsArePast == \A p \in DOMAIN posts : posts[p].updatedAt <= now

EditInv == EditTypeOK /\ StampsArePast /\ CopiesAreOlder /\ NoLaterWriteLost

\* A copy ages as it should when the posts in P are written now and the others are left alone.
LEMMA Aging ==
  ASSUME EditInv, NEW P, NEW c \in copies,
         DOMAIN posts \subseteq DOMAIN posts',
         c.post \in P => now' = now /\ posts'[c.post].updatedAt = now,
         c.post \notin P => posts'[c.post] = posts[c.post]
  PROVE  /\ Aged(c, P) \in Copy
         /\ Aged(c, P).post \in DOMAIN posts'
         /\ Aged(c, P).token <= posts'[Aged(c, P).post].updatedAt
         /\ Aged(c, P).behind = "later"
              => Aged(c, P).token < posts'[Aged(c, P).post].updatedAt
<1>1. /\ c \in Copy /\ c.post \in DOMAIN posts /\ c.token \in Int /\ now \in Int
      /\ posts[c.post].updatedAt \in Int
      /\ posts[c.post].updatedAt <= now
      /\ c.token <= posts[c.post].updatedAt
      /\ c.behind = "later" => c.token < posts[c.post].updatedAt
  BY PostsAssumption
  DEF EditInv, EditTypeOK, PostsTypeOK, CopiesAreOlder, StampsArePast, Copy, Post, Time
<1>2. CASE c.post \notin P \/ c.behind = "later"
  <2>1. Aged(c, P) = c
    BY <1>2 DEF Aged
  <2> QED
    BY <1>1, <1>2, <2>1
<1>3. CASE c.post \in P /\ c.behind # "later" /\ c.token < now
  <2>1. Aged(c, P) = [c EXCEPT !.behind = "later"]
    BY <1>3 DEF Aged
  <2>2. Aged(c, P) \in Copy /\ Aged(c, P).post = c.post /\ Aged(c, P).token = c.token
    BY <1>1, <2>1 DEF Copy, Behind
  <2> QED
    BY <1>1, <1>3, <2>2
<1>4. CASE c.post \in P /\ c.behind # "later" /\ ~(c.token < now)
  <2>1. Aged(c, P) = [c EXCEPT !.behind = "same_instant"]
    BY <1>4 DEF Aged
  <2>2. /\ Aged(c, P) \in Copy /\ Aged(c, P).post = c.post /\ Aged(c, P).token = c.token
        /\ Aged(c, P).behind = "same_instant"
    BY <1>1, <2>1 DEF Copy, Behind
  <2> QED
    BY <1>1, <1>4, <2>2
<1> QED
  BY <1>2, <1>3, <1>4

LEMMA EditInvStep == EditInv /\ [EditNext]_editVars => EditInv'
<1> SUFFICES ASSUME EditInv, [EditNext]_editVars
             PROVE  EditInv'
  OBVIOUS
<1>t. /\ PostsTypeOK /\ now \in Int
      /\ \A p \in DOMAIN posts : p \in PostIds /\ posts[p] \in Post
                                   /\ posts[p].updatedAt \in Time
      /\ copies \subseteq Copy
  BY PostsAssumption DEF EditInv, EditTypeOK, PostsTypeOK, Post, Time
<1>1. CASE UNCHANGED editVars
  BY <1>1
  DEF editVars, EditInv, EditTypeOK, PostsTypeOK, StampsArePast, CopiesAreOlder, NoLaterWriteLost
<1>2. ASSUME NEW p \in PostIds, Open(p)
      PROVE  EditInv'
  <2> DEFINE d == [post |-> p, token |-> posts[p].updatedAt, behind |-> "no"]
  <2>1. p \in DOMAIN posts /\ copies' = copies \cup {d} /\ UNCHANGED <<now, posts, overwrote>>
    BY <1>2 DEF Open
  <2>2. d \in Copy /\ d.post = p /\ d.token = posts[p].updatedAt /\ d.behind = "no"
    BY <1>t, <2>1 DEF Copy, Behind
  <2> HIDE DEF d
  <2>3. EditTypeOK'
    BY <2>1, <2>2 DEF EditInv, EditTypeOK, PostsTypeOK
  <2>4. CopiesAreOlder'
    BY <1>t, <2>1, <2>2 DEF EditInv, CopiesAreOlder, Time
  <2> QED
    BY <2>1, <2>3, <2>4 DEF EditInv, StampsArePast, NoLaterWriteLost
<1>3. ASSUME NEW c \in copies, NEW content \in Contents, NEW t \in Horizon \cup {Never},
             SaveCopy(c, content, t)
      PROVE  EditInv'
  <2> DEFINE d == [post |-> c.post, token |-> now, behind |-> "no"]
             r == [posts[c.post] EXCEPT !.content = content,
                                        !.scheduledAt = IF t = Never THEN @ ELSE t,
                                        !.updatedAt = now]
  <2>1. c.post \in DOMAIN posts /\ c.post \in PostIds /\ posts[c.post] \in Post
    BY <1>t DEF EditInv, CopiesAreOlder
  <2>2. r \in Post /\ r.updatedAt = now
    BY <2>1, <1>t, PostsAssumption, EditedRecord DEF Post
  <2>3. Save(c.post, r) /\ now' = now
    BY <1>3 DEF SaveCopy, Update
  <2> HIDE DEF r
  <2>4. /\ DOMAIN posts' = DOMAIN posts
        /\ posts'[c.post].updatedAt = now
        /\ \A q \in DOMAIN posts : q # c.post => posts'[q] = posts[q]
        /\ PostsTypeOK'
    BY <2>1, <2>2, <2>3, <1>t, SaveEffect, SaveTyped
  <2>5. copies' = {Aged(e, {c.post}) : e \in copies} \cup {d}
    BY <1>3 DEF SaveCopy
  <2>6. d \in Copy /\ d.post = c.post /\ d.token = now /\ d.behind = "no"
    BY <1>t, <2>1 DEF Copy, Behind, PostsTypeOK
  <2> HIDE DEF d
  <2>7. \A e \in copies :
          /\ Aged(e, {c.post}) \in Copy
          /\ Aged(e, {c.post}).post \in DOMAIN posts'
          /\ Aged(e, {c.post}).token <= posts'[Aged(e, {c.post}).post].updatedAt
          /\ Aged(e, {c.post}).behind = "later"
               => Aged(e, {c.post}).token < posts'[Aged(e, {c.post}).post].updatedAt
    <3> SUFFICES ASSUME NEW e \in copies
                 PROVE  /\ Aged(e, {c.post}) \in Copy
                        /\ Aged(e, {c.post}).post \in DOMAIN posts'
                        /\ Aged(e, {c.post}).token <= posts'[Aged(e, {c.post}).post].updatedAt
                        /\ Aged(e, {c.post}).behind = "later"
                             => Aged(e, {c.post}).token
                                  < posts'[Aged(e, {c.post}).post].updatedAt
      OBVIOUS
    <3>1. e.post \in DOMAIN posts
      BY DEF EditInv, CopiesAreOlder
    <3> QED
      BY <2>3, <2>4, <3>1, Aging
  <2>8. CopiesAreOlder'
    <3>1. \A e \in copies' : \/ e = d
                             \/ \E o \in copies : e = Aged(o, {c.post})
      BY <2>5
    <3>2. d.post \in DOMAIN posts' /\ d.token <= posts'[d.post].updatedAt /\ d.behind # "later"
      BY <2>1, <2>4, <2>6, <1>t
    <3> QED
      BY <3>1, <3>2, <2>7 DEF CopiesAreOlder
  <2>9. copies' \subseteq Copy
    BY <2>5, <2>6, <2>7
  <2>10. c.behind # "later"
    BY <1>3, <1>t, <2>1 DEF SaveCopy, TokenMatches, EditInv, CopiesAreOlder, Copy, Time
  <2>11. overwrote' \in Behind /\ overwrote' # "later"
    BY <1>3, <1>t, <2>10 DEF SaveCopy, EditInv, EditTypeOK, NoLaterWriteLost, Copy
  <2>12. StampsArePast'
    BY <2>3, <2>4, <1>t DEF EditInv, StampsArePast
  <2> QED
    BY <2>4, <2>8, <2>9, <2>11, <2>12 DEF EditInv, EditTypeOK, NoLaterWriteLost
<1>4. CASE OtherStep
  <2>1. StepEffect
    BY <1>4, <1>t, StepLemma DEF OtherStep
  <2>2. copies' = {Aged(e, Written) : e \in copies} /\ overwrote' = overwrote
    BY <1>4 DEF OtherStep
  <2>3. /\ DOMAIN posts \subseteq DOMAIN posts'
        /\ \A p \in DOMAIN posts : p \in Written => now' = now /\ posts'[p].updatedAt = now
        /\ \A p \in DOMAIN posts : p \notin Written => posts'[p] = posts[p]
    BY <2>1 DEF StepEffect, Stamped, Written
  <2> DEFINE W == Written
  <2> HIDE DEF W
  <2>4. \A e \in copies :
          /\ Aged(e, W) \in Copy
          /\ Aged(e, W).post \in DOMAIN posts'
          /\ Aged(e, W).token <= posts'[Aged(e, W).post].updatedAt
          /\ Aged(e, W).behind = "later" => Aged(e, W).token < posts'[Aged(e, W).post].updatedAt
    <3> SUFFICES ASSUME NEW e \in copies
                 PROVE  /\ Aged(e, W) \in Copy
                        /\ Aged(e, W).post \in DOMAIN posts'
                        /\ Aged(e, W).token <= posts'[Aged(e, W).post].updatedAt
                        /\ Aged(e, W).behind = "later"
                             => Aged(e, W).token < posts'[Aged(e, W).post].updatedAt
      OBVIOUS
    <3>1. e.post \in DOMAIN posts
      BY DEF EditInv, CopiesAreOlder
    <3>2. e.post \in W => now' = now /\ posts'[e.post].updatedAt = now
      BY <2>3, <3>1 DEF W
    <3>3. e.post \notin W => posts'[e.post] = posts[e.post]
      BY <2>3, <3>1 DEF W
    <3> QED
      BY <2>3, <3>2, <3>3, Aging
  <2>5. \A e \in copies' : \E o \in copies : e = Aged(o, W)
    BY <2>2 DEF W
  <2>6. CopiesAreOlder'
    BY <2>4, <2>5 DEF CopiesAreOlder
  <2>7. copies' \subseteq Copy
    BY <2>4, <2>5
  <2>8. StampsArePast'
    <3> SUFFICES ASSUME NEW p \in DOMAIN posts'
                 PROVE  posts'[p].updatedAt <= now'
      BY DEF StampsArePast
    <3>1. now' \in Int /\ now <= now'
      BY <2>1, PostsAssumption DEF StepEffect, PostsTypeOK, Time
    <3>2. CASE p \in DOMAIN posts /\ posts'[p] = posts[p]
      BY <3>1, <3>2, <1>t DEF EditInv, StampsArePast, Time
    <3>3. CASE Stamped(p)
      BY <3>1, <3>3, <1>t DEF Stamped
    <3> QED
      BY <2>1, <3>2, <3>3 DEF StepEffect
  <2> QED
    BY <2>1, <2>2, <2>6, <2>7, <2>8 DEF StepEffect, EditInv, EditTypeOK, NoLaterWriteLost
<1> QED
  BY <1>1, <1>2, <1>3, <1>4 DEF EditNext

\* The inductive invariant of the composers holds in every reachable state.
THEOREM EditInvariance == EditSpec => []EditInv
<1>1. EditInit => EditInv
  BY PostsAssumption
  DEF EditInit, PostsInit, EditInv, EditTypeOK, PostsTypeOK, StampsArePast, CopiesAreOlder,
      NoLaterWriteLost, Behind, Time
<1> QED
  BY <1>1, EditInvStep, PTL DEF EditSpec

\* Every reachable state of the posts and the open composers is of its type.
THEOREM EditTypeCorrect == EditSpec => []EditTypeOK
  BY EditInvariance, PTL DEF EditInv

\* A save guarded by a token never overwrites a write made at a later instant than the one its
\* composer had seen (posts.service.ts:182-186).
THEOREM LaterWritesSurvive == EditSpec => []NoLaterWriteLost
  BY EditInvariance, PTL DEF EditInv

-----------------------------------------------------------------------------
(* Composers reach the posts through the posts' own operations only: their *)
(* copies, and the history of what was overwritten, are forgotten.         *)

LEMMA EditIsPostsStep ==
  ASSUME EditInv, [EditNext]_editVars
  PROVE  [PostsNext]_postsVars
<1>1. ASSUME NEW p, Open(p)
      PROVE  UNCHANGED postsVars
  BY <1>1 DEF Open, postsVars
<1>2. ASSUME NEW c \in copies, NEW content \in Contents, NEW t \in Horizon \cup {Never},
             SaveCopy(c, content, t)
      PROVE  PostsNext
  <2>1. c.post \in PostIds /\ Update(c.post, content, t)
    BY <1>2 DEF SaveCopy, EditInv, EditTypeOK, Copy
  <2> QED
    BY <2>1 DEF PostsNext
<1>3. CASE OtherStep
  BY <1>3 DEF OtherStep
<1>4. CASE UNCHANGED editVars
  BY <1>4 DEF editVars, postsVars
<1> QED
  BY <1>1, <1>2, <1>3, <1>4 DEF EditNext

\* Under composers that open, save and collide, the posts are the posts of module Posts.
THEOREM EditingImplementsPosts == EditSpec => PostsSpec
<1>1. EditInit => PostsInit
  BY DEF EditInit
<1> QED
  BY <1>1, EditIsPostsStep, EditInvariance, PTL DEF EditSpec, PostsSpec

\* However composers overlap, what is scheduled can be published and has been reviewed
\* (workflow.service.ts:18-28 and 109-123, posts.service.ts:200-207).
THEOREM EditedPostsAreSound == EditSpec => [](ScheduledIsComplete /\ ScheduledWasReviewed)
  BY EditingImplementsPosts, ScheduledComplete, ScheduledReviewed, PTL

\* However composers overlap, statuses move by the workflow's table and no publish time is given
\* that has passed (workflow.service.ts:18-28 and 105-107).
THEOREM EditedPostsKeepTheRules == EditSpec => TableRespected /\ SchedulesAhead
  BY EditingImplementsPosts, TableKept, ScheduledAheadOfTime, PTL
=============================================================================
