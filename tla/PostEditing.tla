---------------------------- MODULE PostEditing -----------------------------
(***************************************************************************)
(* Composers editing posts with the optimistic-concurrency token of        *)
(* PATCH /posts/:id.  A composer opens a post, and later saves over it     *)
(* with the updatedAt it last saw as the token; in between the post may be *)
(* written by anyone.  A save that is accepted leaves the composer with    *)
(* the updatedAt of the answer.                                            *)
(***************************************************************************)
EXTENDS Posts

VARIABLES
  copies,    \* what the open composers hold
  overwrote  \* history: the worst write that a guarded save has overwritten

editVars == <<now, posts, copies, overwrote>>

\* How a copy has fallen behind its post: not at all, by a write in the very instant of its
\* token, or by a later one.
Behind == {"no", "same_instant", "later"}
Copy == [post : PostIds, token : Time, behind : Behind]

EditTypeOK ==
  /\ PostsTypeOK
  /\ copies \subseteq Copy
  /\ overwrote \in Behind

EditInit ==
  /\ PostsInit
  /\ copies = {}
  /\ overwrote = "no"

-----------------------------------------------------------------------------

\* Copies of a post that is being written fall behind it.
Aged(c, P) ==
  CASE c.post \notin P \/ c.behind = "later"           -> c
    [] c.post \in P /\ c.behind # "later" /\ c.token < now -> [c EXCEPT !.behind = "later"]
    [] OTHER                                           -> [c EXCEPT !.behind = "same_instant"]

Written == {p \in DOMAIN posts : posts'[p] # posts[p]}

\* Mutant: the composer takes the publish time for the token.
Open_WrongField(p) ==
  /\ p \in DOMAIN posts
  /\ copies' = copies \cup {[post |-> p, token |-> posts[p].scheduledAt.at, behind |-> "no"]}
  /\ UNCHANGED <<now, posts, overwrote>>

\* A composer opens a post.
Open(p) ==
  /\ p \in DOMAIN posts
  /\ copies' = copies \cup {[post |-> p, token |-> posts[p].updatedAt, behind |-> "no"]}
  /\ UNCHANGED <<now, posts, overwrote>>

\* The check of expectedUpdatedAt.
TokenMatches(c) == c.token = posts[c.post].updatedAt

\* A composer saves; the copy it started from may be open in another tab, which falls behind.
SaveCopy(c, content, t) ==
  /\ c.post \in DOMAIN posts
  /\ TokenMatches(c)
  /\ Update(c.post, content, t)
  /\ copies' = {Aged(d, {c.post}) : d \in copies}
                 \cup {[post |-> c.post, token |-> now, behind |-> "no"]}
  /\ overwrote' = IF overwrote = "later" \/ c.behind = "no" THEN overwrote ELSE c.behind

\* Any other write, and the clock.
OtherStep ==
  /\ PostsNext
  /\ copies' = {Aged(d, Written) : d \in copies}
  /\ UNCHANGED overwrote

EditNext ==
  \/ \E p \in PostIds : Open(p)
  \/ \E c \in copies, content \in Contents, t \in Horizon \cup {Never} : SaveCopy(c, content, t)
  \/ OtherStep

EditSpec == EditInit /\ [][EditNext]_editVars

-----------------------------------------------------------------------------

\* A save that carries a token never overwrites a write made at a later instant than the one
\* the composer had seen: every writer of a post, in either service, stamps updatedAt
\* (posts.service.ts:182-186 and 217, workflow.service.ts:64-66).
NoLaterWriteLost == overwrote # "later"
=============================================================================
