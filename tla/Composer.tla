------------------------------ MODULE Composer ------------------------------
(***************************************************************************)
(* The composer page: the pure reducer over the form (lib/composer.ts) and *)
(* the calls the page makes with it (post-composer.tsx).  A save takes a   *)
(* copy of the form along, and the answer, when it comes, puts that copy   *)
(* back; the form stays open to typing in between, others write the posts, *)
(* and calls or their answers may be lost, which the page takes for a      *)
(* failure.  Only a second save is held back while one is under way: the   *)
(* post can be duplicated or archived, and the page left, at any time, and *)
(* the handlers of a page that was left run on.  No two writes of a post   *)
(* share an updatedAt here, so that the number of writes stands for it     *)
(* (module PostEditing is about writes in one instant).  A tab's hashtags, *)
(* link and first comment are one field, and which tab is in front is left *)
(* out.                                                                    *)
(***************************************************************************)
EXTENDS Service, Functions

CONSTANTS
  Platforms,
  MediaPlatforms,  \* the networks that cannot publish a post without media
  Texts,           \* bound: what is typed, the empty text "" included
  Clicks,          \* bound: the handlers that are under way at once
  MaxMoves,        \* bound: changes of the form, clicks and openings of the page
  MaxPosts,        \* bound: posts at the API
  MaxWrites        \* bound: writes of posts

VARIABLES
  form,     \* ComposerState
  page,     \* savedId and expectedUpdatedAt
  handlers, \* what each click started: save, duplicate and archive, and how far they are
  drafts,   \* the posts at the API
  moves     \* bound: what the user has done so far

composerVars == <<form, page, handlers, drafts, moves>>

ComposerAssumption ==
  MediaPlatforms \subseteq Platforms /\ Platforms # MediaPlatforms /\ "" \in Texts
ASSUME ComposerAssumption

Tab == [text : Texts, extras : BOOLEAN, forked : BOOLEAN]
Times == {Never} \cup 2 .. MaxTime
EditableStatuses == {"draft", "revisions_needed", "approved", "scheduled"}
Idle == [kind |-> "idle"]

ComposerTypeOK ==
  /\ DOMAIN form.tabs \in (SUBSET Platforms) \ {{}}
  /\ form.tabs \in [DOMAIN form.tabs -> Tab]
  /\ form.master \in Texts /\ form.at \in Times
  /\ page.post \in 0 .. Len(drafts)
  /\ \A k \in Clicks : handlers[k] # Idle => handlers[k].post \in 0 .. Len(drafts)

-----------------------------------------------------------------------------
(* The form.                                                               *)

Blank(platforms) ==
  [master |-> "", tabs |-> [n \in platforms |-> [text |-> "", extras |-> FALSE, forked |-> FALSE]],
   media |-> FALSE, at |-> Never, dirty |-> FALSE]

\* What is saved of a form: which tabs are forked, and the shared text, are not.
ToPostPayload(f) ==
  [content |-> [n \in DOMAIN f.tabs |-> [text |-> f.tabs[n].text, extras |-> f.tabs[n].extras]],
   media |-> f.media, at |-> f.at]

\* A post whose tabs all say the same was never forked; of any other, every tab was.
FromPost(p) ==
  LET texts == {p.content[n].text : n \in DOMAIN p.content}
      uniform == \E t \in Texts : texts = {t}
  IN [master |-> IF uniform THEN CHOOSE t \in texts : TRUE ELSE "",
      tabs |-> [n \in DOMAIN p.content |->
                  [text |-> p.content[n].text, extras |-> p.content[n].extras, forked |-> ~uniform]],
      media |-> p.media, at |-> p.at, dirty |-> FALSE]

\* The rules of one network; texts it refuses for their length or tags are not told apart from none.
ValidVariant(n, variant, media) == variant.text # "" /\ (n \in MediaPlatforms => media)

ValidPost(p) ==
  /\ \A n \in DOMAIN p.content : ValidVariant(n, p.content[n], p.media)
  /\ p.at = Never \/ p.at > now

SetMaster(f, t) ==
  [f EXCEPT !.master = t,
            !.tabs = [n \in DOMAIN @ |-> IF @[n].forked THEN @[n] ELSE [@[n] EXCEPT !.text = t]]]

SetVariantText(f, n, t) ==
  [f EXCEPT !.tabs[n] = [@ EXCEPT !.text = t, !.forked = t # f.master]]

ResetVariant(f, n) ==
  [f EXCEPT !.tabs[n] = [@ EXCEPT !.text = f.master, !.forked = FALSE]]

SetExtras(f, n) == [f EXCEPT !.tabs[n].extras = ~@]

\* The last tab stays.
TogglePlatform(f, n) ==
  LET platforms == IF n \in DOMAIN f.tabs THEN DOMAIN f.tabs \ {n} ELSE DOMAIN f.tabs \cup {n}
  IN IF platforms = {} THEN f
     ELSE [f EXCEPT !.tabs = [k \in platforms |->
             IF k \in DOMAIN f.tabs THEN f.tabs[k]
             ELSE [text |-> f.master, extras |-> FALSE, forked |-> FALSE]]]

\* The forms one change away.
Changed(f) ==
  {SetMaster(f, t) : t \in Texts}
    \cup (UNION {{SetVariantText(f, n, t) : t \in Texts} : n \in DOMAIN f.tabs})
    \cup {ResetVariant(f, n) : n \in {k \in DOMAIN f.tabs : f.tabs[k].forked}}
    \cup {SetExtras(f, n) : n \in DOMAIN f.tabs}
    \cup {TogglePlatform(f, n) : n \in Platforms}
    \cup {[f EXCEPT !.media = ~@]}
    \cup {[f EXCEPT !.at = t] : t \in Times}

Moves == moves < MaxMoves /\ moves' = moves + 1

Type ==
  /\ page.open /\ Moves
  /\ \E f \in Changed(form) \ {form} : form' = [f EXCEPT !.dirty = TRUE]
  /\ UNCHANGED <<page, handlers, drafts>>

-----------------------------------------------------------------------------
(* The page and its calls.                                                 *)

\* A form and a page of no post, open or not.
New == Blank({CHOOSE n \in Platforms \ MediaPlatforms : TRUE})
NoPost(open) == [open |-> open, post |-> NoRecord, token |-> 0]

ComposerInit ==
  /\ form = New
  /\ page = NoPost(TRUE)
  /\ handlers = [k \in Clicks |-> Idle]
  /\ drafts = <<>>
  /\ moves = 0

Becomes(k, h) == handlers' = [handlers EXCEPT ![k] = h]

\* The state that was there when the handler was made is no longer shown: what it sets is not seen.
Unheard(hs) == [k \in Clicks |-> IF hs[k] = Idle THEN Idle ELSE [hs[k] EXCEPT !.heard = FALSE]]

\* A save is under way that this page started, its submission included.
Saving == \E k \in Clicks : handlers[k].kind \in {"save", "submit"} /\ handlers[k].heard

\* The buttons are dead while the page is saving and while the form has errors.
Save(k) ==
  /\ page.open /\ ~Saving /\ ValidPost(ToPostPayload(form))
  /\ Moves /\ handlers[k] = Idle
  /\ \E mode \in {"draft", "review"} :
       Becomes(k, [kind |-> "save", mode |-> mode, sent |-> form, state |-> "sent",
                   post |-> page.post, token |-> page.token, heard |-> TRUE])
  /\ UNCHANGED <<form, page, drafts>>

\* These two are there as soon as the post is, and stay alive whatever is under way.
DuplicateOrArchive(k) ==
  /\ page.open /\ page.post # NoRecord
  /\ Moves /\ handlers[k] = Idle
  /\ \E kind \in {"duplicate", "archive"} :
       Becomes(k, [kind |-> kind, state |-> "sent", post |-> page.post, heard |-> TRUE])
  /\ UNCHANGED <<form, page, drafts>>

MoreWrites == FoldFunction(LAMBDA r, n : r.writes + n, 0, drafts) < MaxWrites

Written(p, r) == drafts' = [drafts EXCEPT ![p] = [r EXCEPT !.writes = @ + 1]]

\* What the API did, and the post it answers with.  A call that it refuses changes nothing and
\* fails as one that is lost does (CallFailed).
Done(k, p) == Becomes(k, [handlers[k] EXCEPT !.state = "done", !.post = p])
SaveDone(k, p, token) ==
  Becomes(k, [handlers[k] EXCEPT !.state = "done", !.post = p, !.token = token])

\* POST /posts: one with a time is scheduled at once.
CreatePost(k) ==
  LET p == ToPostPayload(handlers[k].sent)
  IN /\ handlers[k].post = NoRecord
     /\ Len(drafts) < MaxPosts /\ MoreWrites
     /\ drafts' = Append(drafts, [saved |-> p, writes |-> 1,
                                  status |-> IF p.at = Never THEN "draft" ELSE "scheduled"])
     /\ SaveDone(k, Len(drafts) + 1, 1)

\* PATCH /posts/:id: no time given leaves the time there was.
UpdatePost(k) ==
  LET q == handlers[k].post
      r == drafts[q]
      p == ToPostPayload(handlers[k].sent)
  IN /\ q # NoRecord
     /\ r.status \in EditableStatuses /\ r.writes = handlers[k].token
     /\ MoreWrites
     /\ Written(q, [r EXCEPT !.saved = [p EXCEPT !.at = IF @ = Never THEN r.saved.at ELSE @]])
     /\ SaveDone(k, q, r.writes + 1)

\* The time is checked again when the save arrives.
ApiSaves(k) ==
  /\ handlers[k].kind = "save" /\ handlers[k].state = "sent"
  /\ ValidPost(ToPostPayload(handlers[k].sent))
  /\ CreatePost(k) \/ UpdatePost(k)
  /\ UNCHANGED <<form, page, moves>>

ApiSubmits(k) ==
  LET p == handlers[k].post
  IN /\ handlers[k].kind = "submit" /\ handlers[k].state = "sent"
     /\ drafts[p].status \in {"draft", "revisions_needed"} /\ MoreWrites
     /\ Written(p, [drafts[p] EXCEPT !.status = "in_review"])
     /\ Done(k, p)
     /\ UNCHANGED <<form, page, moves>>

\* The copy is of what is saved, not of a form, and the answer names the copy.
ApiDuplicates(k) ==
  /\ handlers[k].kind = "duplicate" /\ handlers[k].state = "sent"
  /\ Len(drafts) < MaxPosts /\ MoreWrites
  /\ drafts' = Append(drafts, [saved |-> [drafts[handlers[k].post].saved EXCEPT !.at = Never],
                               writes |-> 1, status |-> "draft"])
  /\ Done(k, Len(drafts) + 1)
  /\ UNCHANGED <<form, page, moves>>

ApiArchives(k) ==
  LET p == handlers[k].post
  IN /\ handlers[k].kind = "archive" /\ handlers[k].state = "sent"
     /\ IF drafts[p].status = "archived" THEN UNCHANGED drafts
        ELSE MoreWrites /\ Written(p, [drafts[p] EXCEPT !.status = "archived"])
     /\ Done(k, p)
     /\ UNCHANGED <<form, page, moves>>

\* After a save to be reviewed the same handler submits what was saved.
AfterSave(k) ==
  IF handlers[k].mode = "review"
  THEN [kind |-> "submit", state |-> "sent", post |-> handlers[k].post, heard |-> handlers[k].heard]
  ELSE Idle

\* Mutant: the answer marks the form saved as it is by then, not as it was sent.
Saved_AsItIs(k) ==
  /\ handlers[k].kind = "save" /\ handlers[k].state = "done"
  /\ IF handlers[k].heard
     THEN /\ page' = [page EXCEPT !.post = handlers[k].post, !.token = handlers[k].token]
          /\ form' = [form EXCEPT !.dirty = FALSE]
     ELSE UNCHANGED <<form, page>>
  /\ Becomes(k, AfterSave(k))
  /\ UNCHANGED <<drafts, moves>>

\* The answer to a save: the form is set back to what was sent, whatever was typed since.
Saved(k) ==
  /\ handlers[k].kind = "save" /\ handlers[k].state = "done"
  /\ IF handlers[k].heard
     THEN /\ page' = [page EXCEPT !.post = handlers[k].post, !.token = handlers[k].token]
          /\ form' = [handlers[k].sent EXCEPT !.dirty = FALSE]
     ELSE UNCHANGED <<form, page>>
  /\ Becomes(k, AfterSave(k))
  /\ UNCHANGED <<drafts, moves>>

\* The router leaves for the approvals or the calendar, whichever page it is on by then.
Leaves(k) ==
  /\ handlers[k].kind \in {"submit", "archive"} /\ handlers[k].state = "done"
  /\ page' = NoPost(FALSE) /\ form' = New
  /\ handlers' = Unheard([handlers EXCEPT ![k] = Idle])
  /\ UNCHANGED <<drafts, moves>>

\* A refusal, or a call or an answer that is lost; a call that timed out is not made later.
CallFailed(k) ==
  /\ handlers[k] # Idle
  /\ Becomes(k, Idle)
  /\ UNCHANGED <<form, page, drafts, moves>>

\* The page comes to show a post as the API holds it.
ShowsPost(p) ==
  /\ page' = [open |-> TRUE, post |-> p, token |-> drafts[p].writes]
  /\ form' = FromPost(drafts[p].saved)

\* The composer is opened on a post, or on none, whatever the page before it still waits for.
OpenPost ==
  /\ Moves
  /\ \/ \E p \in DOMAIN drafts : ShowsPost(p)
     \/ page' = NoPost(TRUE) /\ form' = New
  /\ handlers' = Unheard(handlers)
  /\ UNCHANGED drafts

\* The router goes to the copy.  Whether it replaces an open composer, and the form with it, or
\* keeps it as it is, is not decided in the repository.
Duplicated(k) ==
  /\ handlers[k].kind = "duplicate" /\ handlers[k].state = "done"
  /\ \/ page.open /\ Becomes(k, Idle) /\ UNCHANGED <<form, page>>
     \/ ShowsPost(handlers[k].post) /\ handlers' = Unheard([handlers EXCEPT ![k] = Idle])
  /\ UNCHANGED <<drafts, moves>>

\* Somebody else edits a post, or reviews it.
OthersWrite ==
  /\ \E p \in DOMAIN drafts :
       LET r == drafts[p]
       IN /\ MoreWrites
          /\ \/ /\ r.status \in EditableStatuses
                /\ \E n \in DOMAIN r.saved.content, t \in Texts \ {""} :
                     Written(p, [r EXCEPT !.saved.content[n].text = t])
             \/ /\ r.status = "in_review"
                /\ \E s \in {"approved", "revisions_needed"} : Written(p, [r EXCEPT !.status = s])
  /\ UNCHANGED <<form, page, handlers, moves>>

ComposerNext ==
  \/ /\ \/ Type \/ OpenPost \/ OthersWrite
        \/ \E k \in Clicks :
             \/ Save(k) \/ DuplicateOrArchive(k)
             \/ ApiSaves(k) \/ ApiSubmits(k) \/ ApiDuplicates(k) \/ ApiArchives(k)
             \/ Saved(k) \/ Duplicated(k) \/ Leaves(k) \/ CallFailed(k)
     /\ UNCHANGED now
  \/ Tick /\ UNCHANGED composerVars

ComposerSpec == ClockInit /\ ComposerInit /\ [][ComposerNext]_<<now, composerVars>>

-----------------------------------------------------------------------------

\* A tab that does not say it was customised shows the shared text (composer.ts:25-30), and a
\* clean form whose post nobody has written since shows what the API holds: the page asks before
\* it is left only while the form is dirty (post-composer.tsx:72-86).  A time that was taken out
\* of the form is excepted, because the API keeps it.
ComposerShowsWhatIsSaved ==
  /\ \A n \in DOMAIN form.tabs : ~form.tabs[n].forked => form.tabs[n].text = form.master
  /\ LET p == page.post
         shown == ToPostPayload(form)
     IN (p # NoRecord /\ ~form.dirty /\ drafts[p].writes = page.token)
          => /\ shown.content = drafts[p].saved.content
             /\ shown.media = drafts[p].saved.media
             /\ shown.at \in {Never, drafts[p].saved.at}
=============================================================================
