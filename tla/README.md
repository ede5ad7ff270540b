# A formal model of the AI social media platform

TLA+ models of the stateful core of this repository (an AI social media
management platform: a NestJS API under `apps/api`, a Next.js web application
under `apps/web`, shared rules under `packages/domain`), the TLC runs that check
them on small instances, and proofs, checked by TLAPS, of the most important
properties for every instance.

Contents: [inventory](#1-inventory), [modules](#2-modules),
[runs](#3-runs-and-bounds), [fairness](#4-fairness), [proofs](#5-proofs),
[where code and documents part](#6-where-code-and-documents-part),
[not modelled](#7-what-is-not-modelled), [plan](#8-plan).

## 1. Inventory

The API keeps all of its state in the memory of one Node process, in maps and
arrays owned by one service each; the database schema exists, but no service
uses it. A method without `await` is therefore atomic, and a restart forgets
everything: there is no crash recovery to model. What does interleave are
requests, at every `await` (Argon2, connectors, AI providers), calls that depend
on what earlier calls of other clients left behind, and, between the web tier and
the API, messages that are lost, late or out of order.

| Component | State | Operations | Interacts with | What makes it hard |
| --- | --- | --- | --- | --- |
| Refresh-token sessions (`auth/sessions.service.ts`) | sessions map, grace entries of recent rotations | issue, rotate, touch, revoke (one, by token, all of a user, a family), list | sign-in flow, authentication guard, web renewal | the same token presented twice, late or after its replacement died; the clock against idle, absolute and grace windows; eviction and pruning in the middle of an issue |
| Sign-in flow (`auth/auth.service.ts`, `accounts.service.ts`) | accounts, email index, seeding flag | register, login, refresh, logout, switch workspace, change password | sessions, lockout | Argon2 awaited between every check and its write |
| Login lockout (`auth/login-attempts.service.ts`) | attempts per address | status, failure, success | sign-in flow | logins in flight while the lock is set or cleared |
| Web renewal (`web/src/lib/session-renewal.ts`, `proxy.ts`, `app/api/[...path]/route.ts`, `(auth)/actions.ts`) | refreshes in flight, cookies | renew, proxy, retry, sign in and out | sessions | lost answers, cookies of successive rotations out of order |
| Posts (`posts/posts.service.ts`, `repositories/posts.repository.ts`) | posts | create, update, duplicate, archive | workflow, scheduling, publishing, composer | writes statuses past the workflow's table; rules asked at different times |
| Workflow (`workflow/workflow.service.ts`) | posts, comments, timeline | submit, approve, request changes, cancel, archive, schedule, bulk | posts | the table is the only thing that enforces review; cancel and approve share a target |
| Publishing queue (`publishing/publishing.service.ts`) | jobs | enqueue, process, process due, retry | posts, connectors | the connector is awaited with the job half done; sweeps over lists made earlier; repeated enqueues |
| Smart scheduling (`scheduling/scheduling.service.ts`) | rules, slots | create rule, recommend, reserve | posts, publishing | three services written in one step, which can fail in the middle |
| Permissions, guards, routes (`common/*.guard.ts`, `domain/permissions.ts`, the controllers) | none | authenticate, accept a key, permit | every controller | several routes to one effect, each asking for its own permission |
| Composer (`components/composer/post-composer.tsx`, `lib/composer.ts`) | the form, the page's post and its `updatedAt`, the handlers under way | type, target, fork, open, save, submit, duplicate, archive | posts | what is typed, duplicated, archived or left during a save; copies that go stale; lost answers; tokens with a clock's resolution |
| Settings panels (ten tables in nine components) | rows shown, one call under way | show, call, patch the rows from the answer | their services | rows patched by hand and never read again; lost answers; other callers |
| AI routing and generation (`ai/`) | log, cache of the last answers | route over providers, judge, log | safety, brand voices | policies and voices that change while a provider writes |
| Content safety (`safety/`) | policies, checks, moderation items | create policy, check, resolve | generation | scores over several policies; the queue as the only trace |
| Listening and notifications | monitors, mentions, alerts, notifications, preferences | ingest, raise, route, resolve, read | each other | quiet hours across midnight, muted channels, critical overrides |
| Social accounts (`social/`) | OAuth states, accounts, rate limits | start, complete, refresh, consume | billing | callbacks late or twice; consents of another user |
| Media (`media/`) | upload intents, processing jobs | intent, complete, process next, fail | billing | uploads completed twice, jobs failed after they completed |
| Members, API keys, identity | invitations, members, keys, SSO connections, devices, sessions | invite, resend, revoke, suspend, rotate, test, disable, trust | billing | one record revives another's conflict; a cascade from device to sessions |
| Brand voices, templates, campaigns and tasks | voices with versions, templates with uses, milestones, tasks, budget lines | create, update, use, complete | billing | names compared after normalising; budget lines added up |
| Localization, onboarding, reports, webhooks | preferences, steps, templates, schedules, exports, links, deliveries | update, complete, skip, export, share, replay | | rounding over a shrinking total; references between records |
| Billing (`billing/`) | none | compare the plan's limits with the fixtures' use | most services | asked before each create |
| Audit log, analytics, search, dashboard, workspaces, health, domain algorithms | records nothing reads, or none | append, read | | boundary cases of pure functions |

What must hold, component by component:

* **Sessions.** A sign-in opens a family of credentials that is a single chain:
  at most one is unrevoked, each is exchanged for at most one other, and what was
  revoked, idle or expired is never usable again. Replays within the grace window
  converge on the replacement; reuse kills the family for good. A user holds at
  most so many live sessions, and the least recently used go first.
* **Sign-in and lockout.** A password change ends every session there was,
  whatever was rotated or opened meanwhile. However many guesses run at once, the
  lockout bounds them.
* **Web renewal.** The browser's cookies are deleted only when the sign-in is
  over; all refreshes of one token end on one replacement.
* **Posts and workflow.** Whatever is scheduled can be published as it stands and
  has been reviewed; statuses move along the table, by whichever service; publish
  times lie ahead when they are given.
* **Publishing.** One job per post, account and time; a job being sent is held by
  a request until its outcome is recorded; every call of a connector is counted;
  what succeeded is never sent again; sends and sweeps end.
* **Scheduling.** A reserved slot has its job.
* **Authority.** What a call brings about is permitted to the role of its caller,
  by whichever route it came.
* **Composer.** A save never overwrites a write its author has not seen; a form
  that says it is saved shows what is saved.
* **Panels.** A row whose last change the panel heard of is shown as the service
  holds it, the sessions that end with their device included.
* **The other services.** What is looked for before it is made is made once; keys
  and consents are used in their lives; nothing blocked goes unreviewed and no
  alarm unannounced.

## 2. Modules

| Module | Models | Proofs |
| --- | --- | --- |
| `SessionFamilies` | what the session store promises: chains of credentials, no clock and no tokens | |
| `Sessions` | `SessionsService`, refines `SessionFamilies` | `SessionsProofs` |
| `AuthFlow` | extends `Sessions` with `AuthService`, `AccountsService`, `LoginAttemptsService` | `AuthFlowProofs` |
| `WebRenewal` | extends `Sessions` with the web tier between a browser and the API | `WebRenewalProofs` |
| `Posts` | `PostsService`, `WorkflowService`, `PostsRepository`, the media rule of `post-validation.ts` | `PostsProofs` |
| `PostEditing` | extends `Posts` with composers saving under `expectedUpdatedAt` | `PostEditingProofs` |
| `Delivery` | what a queue of deliveries promises | |
| `Publishing` | extends `Posts` with `PublishingService`, refines `Delivery` | `PublishingProofs` |
| `Scheduling` | extends `Publishing` with the slots of `SchedulingService` | `AuthorityProofs` |
| `Routes` | roles, routes and the three guards | |
| `Authority` | `Scheduling` behind `Routes`: who may set its steps going | `AuthorityProofs` |
| `Service` | the clock, the plan check and the names the services below share | |
| `Access` | `MembersService`, `ApiKeysService` with its guard, `IdentityService` | |
| `Channels`, `Media` | `SocialService`; `MediaService` | |
| `Alerts` | `ListeningService` over `NotificationsService` | |
| `Generation` | `AiService`, `ModelRouterService`, `SafetyService` | |
| `Library` | `BrandVoicesService`, `ContentTemplatesService`, `CampaignsService` | |
| `Records` | `LocalizationService`, `OnboardingService`, `ReportsService`, `WebhooksService` | |
| `Panels` | ten panels of nine components over the services they call | `ServicesProofs` |
| `Composer` | the composer page over the posts | `ServicesProofs` |
| `Services` | all of these side by side | `ServicesProofs` |
| `MC...` | the instances TLC checks | |

What extends what: `AuthFlow` and `WebRenewal` extend `Sessions`; `PostEditing` and
`Publishing` extend `Posts`, `Scheduling` extends `Publishing`, and `Authority`
extends `Scheduling` and `Routes`. Every service and `Composer` extend `Service`;
`Panels` extends the services that panels call, and `Services` extends `Panels`,
`Channels`, `Media` and `Composer`.

**Sessions.** A session and its token are made together, so one number stands for
both; numbers rise in the order of issue, which is also the order in which the
JavaScript map iterates and in which the stable sort of the eviction breaks
ties. A family is named by the session that opened it. `rotate` is one method
with five ways out, and is five actions, one for each, with the early returns as
the guards of the later ones; `revoke` and `revokeByToken` do the same to the
same session. Every action is a whole method: `Issue` prunes, adds and evicts, and
`RotateUsable` revokes, issues (prune and evict included) and leaves the grace
entry. `replaces` and `reused` are history variables. Tokens presented are any
that was ever issued, or one that never was (0).

**AuthFlow.** A request is a record in `requests` with the step it waits at; each
`await` of Argon2 ends one action and begins the next, and what was read before
it (`ok`, `user`) is carried in the record. `ensureSeeded` makes its first caller
wait and lets the others pass, with the demo account still missing. An access
token is the session it names; the guard of a signed-in request finds it usable
and touches it. A password change writes the new hash and then waits once more before
its revocation, so `changes` counts the hashes written and `ended` the revocations
that have run; both are history, and so are the request's `under` and `opened`, which keep
what a request's credentials, and a family when it was opened, had seen of them. `ChangeEndsSessions`
compares both counts: the one tells a family opened before a hash was written, the
other one opened after the write and before the revocation. The session store is used through `Issue`, `Touch`, `Rotate`, `Revoke`
and `RevokeAllForUser` only.

**WebRenewal.** The two cookies are set and deleted together, so the browser's jar
is the session they belong to. `renewSession` is a flight shared by all requests
that carry one token; a call can be served and its answer lost, served late, or
never; responses reach the browser in any order. When an access token is found
spent is left open. `ThrottledSpec` adds the 429 of the rate limiter.

**Posts.** A publish time is the string its caller sent, kept as it was spelled: `at`
is the instant it means and `off` how far it sorts from that instant among the
strings of `toISOString`. The clock is compared with `at`, as `new Date` does; `Iso`
spells the times the server makes. Content is reduced to what the rules tell apart: the networks targeted,
and whether there is media. Errors that content has in any status (empty or
overlong text, too many hashtags) keep it out altogether, so `Contents` holds
what passes them. A post may be created in any status, as the endpoint allows.
The single-post workflow endpoints are `Bulk` with one id. `reviewed` and
`signedOff` are history. A call that the code refuses changes nothing and is no
step.

**PostEditing.** A copy remembers the token it holds; `behind` is history and
says whether the post was written since, and whether in the token's own instant
or later.

**Publishing.** A request waiting for a connector is in `inflight`, which holds
its job; a sweep holds the rest of its list. `Begin` is `processJob` up to its
await and `CompleteJob` what follows it. `sent` is history. `PublishingService`
takes its accounts from a fixture that nothing writes (`SocialService` works on
copies of its own), so `Connected` is a constant. The key of a job has the publish time as
spelled, and `Due` compares it with the clock as strings (`SortsBefore`), so a time
with an offset or without milliseconds is swept early or late, and one instant can have
two keys. An account that is not connected
fails its jobs; this is the only failure there is, because the connectors of this
repository never reject, and it is synchronous. The queue does not read a post's
status, and no service moves a post to or from `publishing` on its behalf.

**Scheduling.** `reserveSlot` schedules the post, enqueues, and marks the slot.
If there is no account to send to, `enqueue` throws, and the post stays
scheduled with the slot still free: that is `ReserveRefused`. Where the planner
puts a slot is left open, past instants included, since the caller may name the
earliest one.

**Routes, Authority.** A credential is a token with a role, an API key with its
scopes, or, when `AUTH_ALLOW_DEV_HEADERS` is on, a role claimed in a header.
`Served` is the three guards in their order. `Authority` has one action per
controller, each the disjunction of its routes: the guard of the route and the
handler's step of `Scheduling`. `by` remembers who made the last call.
`EffectsArePermitted` gives approval to the roles that review, as `authz-rbac.md:36`
does; the one way around it, the cancel of a post in review by a role that schedules,
is excepted by name (`CancelledInReview`) and reported by `MCPostEditingCancel`. So is what
the endpoint leaves open: a post may be created in any status.

**The services.** Each holds its records in lists that only grow, runs a call to
its end without an `await` and starts from the demo fixtures, which are therefore
the initial states here; fixture rows of which there is a second like them are
left out. A list is a sequence, a record known by its place in it. `Generation`
is the exception to atomicity: a generation waits for its providers one after the
other, while others change policies and voices. Regular expressions are reduced to
what they are named for, texts to what the rules see in them. In `Services` the
services share the clock and nothing else, so a behaviour is about one of them,
the `focus`, and the others stand still.

**Panels.** `Table(t)` is what a service holds of a panel's table, `shown[t]` what
the panel's `useState` holds of it. `Asks(answer)` makes a call: the service runs
the whole change, `loading` says that a call is unanswered, and `edits` is what its
answer will do to the rows. `Answered` does it, `Lost` drops it. `unheard` is
history: the rows whose last change was not heard of, and those typed in a form
and not saved yet. Each panel's way of patching (replace, prepend, refill, end the
sessions of a device) is translated from its component.

**Composer.** `form` is the state of the reducer, `page` the post the page is about
with the `updatedAt` it was read with, `drafts` the posts at the API, and `handlers`
what each click started: a save, a submission, a duplicate or an archive, with what it
took along from the page. Their calls reach the API, are answered, refused or lost in any
order. Only the two buttons that save are dead while the page is saving
(`Saving`); duplicating and archiving have no guard, so they overlap with a save, with each
other and with themselves. The answer to a save puts the copy back that it took.
Submitting and archiving leave the page, and opening another post replaces it; handlers
of the page that was there run on `Unheard`: what they set is no longer seen, but a save to be
reviewed still submits, and leaves whichever page is there by then. Whether the
router keeps or replaces an open composer when it goes to a copy is not decided in the
repository, and both are allowed. A post counts its writes, and the count stands for
`updatedAt`.

The models of `Posts`, `Publishing` and `Sessions` start empty, not from the demo
data: the demo rows are written past every check (one demo post is scheduled to
Instagram without media), so their invariants speak of what the services do.

## 3. Runs and bounds

| Run | Instance | Checks |
| --- | --- | --- |
| `MCSessions` | 2 users (symmetric), 3 sessions, at most 2 live per user, clock 0..3, idle timeout 2, lifetime 3, grace 1, retention 0 | chains, replacements, reuse, the bound, lapsed stays lapsed, least recently used goes first, refinement of `SessionFamilies` |
| `MCAuthFlow` | the demo account and one more, 1 address, 2 passwords, 2 requests under way (symmetric), lock after 2 failures, 2 password changes, 2 sessions, clock 0..1 | password changes end sessions, those opened before their revocation included, guesses are bounded |
| `MCWebRenewal` | 1 user, 2 requests (symmetric), 3 sessions, lifetime 2, idle timeout 1, grace 1, clock 0..1 | cookies are deleted only when it is over, refreshes converge |
| `MCPostEditing` | 2 posts (symmetric), one network that needs media, clock 0..1 | completeness, review, table, publish times, guarded saves |
| `MCPublishing` | 1 post to 2 networks, 2 accounts of which 1 is connected, a time in two spellings, 2 requests, 2 batches of jobs, 2 attempts, clock 0..1 | keys, held jobs, counted sends, finality, refinement of `Delivery`; sends and sweeps end |
| `MCAuthority` | 1 post from draft or approved, 3 networks with a connected, a disconnected and no account, 2 slots (symmetric), 1 request in a connector; tokens of a manager, a creator and a viewer, a reviewer's header, keys with two sets of scopes; the clock stands still | effects are permitted to the caller, reserved slots have their jobs |
| `MCServices` | one service, panel or page in focus, from the fixtures; 1 to 3 records of each kind beyond them, clock 1..2; in the composer five moves of the user, two handlers at once, two posts and three writes | types, and eleven properties of the services, ten panels and the composer |
| `MCPostEditingCancel`, `MCPublishingSpelling`, `MCSchedulingRules`, `MCAuthFlowOldPassword`, `MCWebRenewalThrottled` | as above or smaller | one documented claim each, which fails (section 6) |

Why the bounds are enough. *Sessions*: three sessions of one user exceed the
bound of two, so eviction happens during a sign-in and during a rotation; three
are also a chain of two rotations, the shortest in which a token's replacement
has itself been replaced. The clock passes the grace window (1), then the idle
timeout (2), then the lifetime (3), and retention 0 lets a revoked session be
pruned at the next instant while its family lives on. The constraint `Small`
leaves out states late in time with many sessions: the third session is issued by
instant 2, and what expires at instant 3 is one of two. *AuthFlow*: two requests
are a sign-in and the change that overtakes it, a session opened between the write of a
change and its revocation, two changes that overlap, or two guesses under one lock check; two failures set the lock and one instant lifts it. *WebRenewal*: two
requests share a flight, or carry successive cookies; three sessions are two
refreshes, so a late response can bring back what has been replaced. *Posts*:
every property relates one post to its history, or a copy to its source, and two
posts are both. Two instants give a write in the token's instant and a write in a
later one. *Publishing*: two requests can hold one job, or hold a job and sweep
it; the second batch repeats the key of the first or differs in its time; two
attempts reach the maximum. The two spellings are that of `toISOString` and one that
sorts before it, so that a job is swept before its time and one instant has two keys. The
post is created approved and may be edited, scheduled, archived and cancelled beside its
jobs.
*Authority*: every role in the run lacks something another has, the keys ask for
what keys may and may not do; times differ through the slots and schedules
themselves, and the properties are about who acts and which job exists, not about
when it is due. *Services*: each property needs two records of a kind (a
duplicate, a cascade, a newest among several) and two instants (something
expired), and every bound leaves room for both beyond the fixtures. The
behaviours of one service do not depend on the others, which is why one focus at a
time is enough. Panels may be wrong about two rows at a time. In the composer the user
types, clicks and opens five times, two clicks wait at once and the posts are written
three times: a post is made and saved, typed in again, and then a save and an archive, or a
duplicate, are under way together, or one of them and a page that was left.

Bounds by name: `MaxSessions`, `MaxTime`, `Small` (sessions); `Callers`,
`Requests`, `MaxChanges` (requests under way, and what they come with);
`Contents`, `NewStatuses`, `Horizon` (the publish times a caller may ask for); `MaxBatches`, `AttemptCap` (attempts of failing jobs are
counted up to it; it lies above `MaxAttempts`, so the guard of `Retry` sees the
difference); `MaxInvitations`, `MaxTokens`, `MaxKeys`, `MaxConnections`,
`MaxConsents`, `MaxIntents`, `MaxMonitors`, `MaxMentions`, `MaxNotices`,
`MaxPolicies`, `MaxChecks`, `MaxVoices`, `MaxVersion`, `MaxTemplates`, `MaxUses`,
`MaxTasks`, `MaxLines`, `MaxReports`, `MaxReported`, `MaxReplays` (records of the
services); `MaxUnheard` (panels); `Texts`, `Clicks`, `MaxMoves`, `MaxPosts`,
`MaxWrites` (composer).

Symmetry is used where no `CHOOSE` tells the set's members apart and the run has no
liveness property. A `VIEW` leaves out what nothing in its run reads any more: `answer`,
`reused`, `reason` and `replaces` of the session store under `AuthFlow` and
`WebRenewal`; in `MCAuthFlow` also the ghosts `under` and `knew` and when a session was
last used or revoked, because within its bounds nothing is evicted, idle or pruned; who
made the last step in `Authority`; and in `MCServices` the services that are not in
focus, which stand still, that a notice was read, an alert resolved or a moderation item
closed, and the form carried by a save that can only fail by now, or whose answer its page
will not hear.

Deadlock is not checked: every instance stops when its clock and counters are
used up, as does a server nobody calls.

Each property is accompanied by a mutant of the code, an operator named
`<definition>_<what is wrong>` just before the definition it replaces; with it in
place TLC finds the property violated.

## 4. Fairness

Only `MCPublishing` assumes any. `Resumption` is weak fairness of
`CompleteJob(c)` and `ProcessNext(c)` for each caller: a connector that has been
called answers, and the event loop resumes the request waiting for it. Both are
what the code has: `DeterministicConnector.publish` returns a resolved promise,
and the `for` loop of `processDue` goes on whatever a job's outcome. Nothing is
assumed of clients: no call need ever be made, and the clock need not advance.
Retried and newly queued jobs need not ever be swept, since nothing in the
repository calls `processDue` on a timer; that they are sent is therefore not
claimed. The other modules have no liveness property: their calls run to the end
at once, or wait for a network or a person that nothing obliges to answer.

## 5. Proofs

All theorems hold for every value of the constants that the named assumptions
allow. The bounds are among the constants, so the results hold for each of them, and
TLC evaluates all assumptions in the runs.

* `SessionsAssumption`, `AuthAssumption`, `WebAssumption`: timeouts and bounds are
  natural numbers, the session bound, the lifetimes and the lockout at least one (as
  `env.ts` demands), the demo account and the visitor are users, and the requests
  under way are finitely many, which only counting needs.
* `PostsAssumption`, `PublishingAssumption`, `RoutesAssumption`,
  `RequestsAssumption`: the networks that need media are networks, contents, statuses
  and credentials are of their types, attempts and delays are at least one, and
  callers are finitely many.
* `ServiceAssumption`, `AccessAssumption`, `ChannelsAssumption`, `MediaAssumption`,
  `AlertsAssumption`, `GenerationAssumption`, `LibraryAssumption`, `RecordsAssumption`,
  `ComposerAssumption`, `PanelsAssumption`: there is an instant, and a word that is not
  the demo connection's; the in-app and e-mail channels exist and a day has two instants
  at least; a consent lives some time, its networks are those of the enum and 1 is a
  caller's id; the log has a cap, remote providers are names, none of them the local
  one, which is the fallback; terms are finitely many, a generation is not one of the
  marks that other checks carry as their source, and some network needs no media. The
  bounds that a type mentions (`MaxTokens`, `MaxConsents`, `MaxMentions`, `MaxVersion`,
  `MaxReported`, `MaxIntents`) are natural numbers with room for the fixtures.

| Module | Theorem | Shows |
| --- | --- | --- |
| `SessionsProofs` | `TypeCorrect`, `LapsedIsFinal`, `NeverForked`, `RedeemedOnce`, `AnswersUsable`, `ReuseIsFinal`, `ConcurrencyIsBounded`, `EvictionIsFair`, `Refinement` | types; `LapsedStaysLapsed`; `OneUnrevokedPerFamily`; `OneReplacementPerToken`; `AnswerIsUsable`; `ReusedFamilyIsDead`; `ConcurrencyBounded`; `EvictsLeastRecentlyUsed`; `ImplementsFamilies` |
| `AuthFlowProofs` | `AuthTypeCorrect`, `PasswordChangesEndSessions`, `GuessesAreBounded`, `AuthImplementsSessions`, `SignedInFamilies` | types; `ChangeEndsSessions`; `GuessesBounded`; sign-in uses the store as `Sessions` specifies, so that all the store promises by itself, its bound and its refinement among it, it promises under sign-in |
| `WebRenewalProofs` | `WebTypeCorrect`, `RejectionsAreFinal`, `RenewalsConverge`, `ThrottledRenewalsConverge`, `WebImplementsSessions`, `WebKeepsSessions` | types; `RejectedIsOver`; `TabsConverge`, with the rate limiter too; the web tier uses the store as `Sessions` specifies, and the store keeps its promises under it, throttled or not |
| `PostsProofs` | `PostsTypeCorrect`, `ScheduledComplete`, `ScheduledReviewed`, `TableKept`, `ScheduledAheadOfTime` | types; `ScheduledIsComplete`; `ScheduledWasReviewed`; `TableRespected`; `SchedulesAhead` |
| `PostEditingProofs` | `EditTypeCorrect`, `LaterWritesSurvive`, `EditingImplementsPosts`, `EditedPostsAreSound`, `EditedPostsKeepTheRules` | types; `NoLaterWriteLost`; composers take steps of `Posts` only, so its invariants (completeness, review) and its action properties (`TableRespected`, `SchedulesAhead`) hold under them |
| `PublishingProofs` | `PublishingTypeCorrect`, `KeysAreUnique`, `NoneStranded`, `SendsAreCounted`, `SucceededForGood`, `DeliveryImplemented`, `QueueImplementsPosts`, `QueuedPostsKeepTheRules` | types; `OneJobPerKey`; `ProcessingIsHeld`; `EverySendIsCounted`; `SucceededIsFinal`; `ImplementsDelivery`; the queue beside the posts takes steps of `Posts` only, and the rules of posts hold beside it |
| `AuthorityProofs` | `SchedulingTypeCorrect`, `ReservedSlotsAreServed`, `KeysStayUnique`, `KeysWithinIssuers`, `ServedImplementsScheduling`, `ReservedSlotsHaveJobs`, `EffectsFollowRoles`, `ReservedQueueIsSound`, `ReservedQueueDelivers`, `ServedQueueIsSound` | types; `ReservedSlotHasJob` and `OneJobPerKey` for the composition of slots and queue; what a key is served, every role that may issue keys is served too; the guarded API implements `Scheduling` and keeps its results; `EffectsArePermitted`; a queue that slots feed as well, open or behind the guards, keeps every result of `Publishing`, `ImplementsDelivery` included |
| `ServicesProofs` | `KeysLiveAndDie`, `SessionsEndWithDevices`, `NothingUnscanned`, `ChecklistAdvances`, `AlertsReachSomebody`, `BlockedIsSeen`, `NewestPolicyJudges`, `ConsentsStandBehindAccounts`, `NothingIsMadeTwice`, `ComposerInvariance`, `CleanFormsShowTheirPosts`, `PanelsShowTheTruth`, `ServicesTypeCorrect` | `KeysUsedInTheirLife`; `DevicesTakeTheirSessions`; `PublishedIsScanned`; `ProgressNeverFalls`; `AlertsAreAnnounced`; `BlockedIsReviewed`; `JudgedByTheNewestPolicy`; `ConsentBehindEveryAccount`; `NothingTwice`; what the handlers under way know; `ComposerShowsWhatIsSaved`; `PanelsShowWhatIsSo`; `ServicesTypeOK` |

How they go. *Sessions*: the chain property is not inductive by itself, because
the two ways out of `rotate` that answer `ok` must be told apart. The invariant
`IInv` adds that a token's replacement exists only if the token is revoked, that
grace entries name the replacement of their own token (`GraceEntriesMatch`), that
every session belongs to a family opened no later than itself, and that the
families in `reused` hold nothing unrevoked and no grace entry. The theorems
`NeverForked`, `RedeemedOnce`, `AnswersUsable` and `ReuseIsFinal` are its
conjuncts; `LapsedIsFinal` and `Refinement` argue step by step under it, and the
refinement maps a family to its usable session, which the chain property makes
unique. The bound on concurrent sessions is about sorting: of the sessions that are
live, those whose rank by last use lies beyond the bound are revoked. Ranks are told
apart by a tie-break, so that ranking is an injection of the live sessions into as
many numbers, hence a bijection, and those of rank up to the bound are as many as the
bound; `ConcurrencyIsBounded` needs no induction, and
`EvictionIsFair` is that a rank beyond another's means no later use. *AuthFlow*: `AuthInv` says of the store that every session's user has an
account and its family a recorded opening (`StoreInv`), of the requests that an
account they have found stays found (`RequestsInv`), and of the seeding that one
request does it, before which there is no demo account (`SeedInv`). What
`ChangeEndsSessions` says of one session (`Stands`) is kept along its family by
rotation; a new family sees both counts as they are; a write raises `changes` while its own
request, still to revoke, is the exception the property names; and a revocation raises
`ended` in the step that leaves no session of the user unrevoked, so that it needs no
exception. For the lockout, `GuessInv` adds that a record with no
lock is below the maximum (`LocksInv`); the guesses in flight are a cardinality
followed through one start and one end. `AuthImplementsSessions` shows that every
step is a step of `Sessions` or leaves it alone. *WebRenewal*: what the web tier has been told is kept in flights and requests: a
token was exchanged (`Grant`) or refused (`Denied`). Only an answer of the API adds to
either; when it does, the store backs it (the token is spent, and its grace
entry, if there is one, names the session granted; or the sign-in is over), and no later step
of the store takes the backing away, because unusable sessions stay so and grace
entries are only dropped. Two grants for one token therefore agree. *Posts*:
completeness and review are inductive together with types; the table and the publish times are read off
the actions. *PostEditing*: the invariant says that a copy which is behind by a
later write holds a token older than its post's `updatedAt`, so the comparison
refuses it; this is where every writer's stamping is used, through a lemma that
each step of `Posts` that changes a post stamps it with the present.
*Publishing*: the invariant ties `inflight` to `processing`; the number of
holders of a job is a cardinality, which the proof of `SendsAreCounted` follows
through adding and removing one caller. *Scheduling* reuses the step lemmas of the
queue and adds that jobs neither disappear nor change post, account or time.
*Authority*: `ServedHasPermission` turns a guard passed into a permission of the
role; two lemmas about the table of roles (who creates schedules, who edits
schedules) carry the routes whose effect belongs to another permission; a move to
approved is split by the status it starts from; the rest is one step per route. *Composer*: posts only grow in number, and one that is not as
it was has been written once more, so that what the page, or an answer on its way,
knows of a post by its token stays true until the token is old. `ComposerInv` says this
of the page and of every handler (`HandlersKnow`), one of a page that was left too, since
what it no longer shows it still sends; and it says that the copy a save takes along is a
form the reducer made. Each action moves one handler, so that the others are carried
over by one lemma (`UnheardFacts` where the page changes under them).
*Services*: one invariant for each service, so that the proof about one never looks at
another (`WhoMoves` takes the composition apart). Records are appended or written in
their place, and a few lemmas say what that does to any list. What the invariants
add: an active key has no revocation and no stamp lies ahead (`KeysInv`); a media job is as
far as its status says, and past the scan only if it was clean (`MediaInv`); a notification
names an alert there is, and was tried in the order its routing prescribes
(`AlertsInv`); each moderation item has its check and each answered generation its
one check (`SafetyInv`); an account's permissions
stay within the consents given to its network, and a network's new accounts are
counted against the consents consumed (`ConsentsInv`). The rounded
percentage is a lemma about natural numbers, `PercentGrows`, and two counts of a
partition of the steps. *Panels*: `Shows` says of one table that the rows not listed
as unheard are shown as they are or, while an answer is under way, that its edit
makes them so (`Fits`). One lemma each says what asking, hearing or losing the answer,
and typing do to any table, and a panel's invariant is one clause for each of its
tables. Two edits carry more than the row they are given: ending the sessions of a
revoked device needs that a session shown as ended has ended and keeps its device
(`SessionsAlike`), and the receipt of a notification form needs that the service keeps
exactly the fields that were sent. The percentage of the onboarding panel equals the
service's because one step stays completed, so that its divisor is never zero.

*Types of the services*: `TypesInv` joins what the services' invariants leave open. Most
of it is that a list of records stays one. Three parts carry more. A generation that waits
has asked fewer candidates than there are (`MayAsk`), because the order ends with the
local composer, which is never skipped and does not fail; so the next candidate exists. What a settings form sends is a record of its type because its row was loaded, came with an
answer or was typed over (`FormHeard`). And two values are computed by recursive
functions, the running sum of a budget and the providers that have credentials: that these
functions are defined, and what they return, needs an induction over data. The library's
induction theorems cannot be instantiated, but its theorem on well-founded relations
speaks of sets: a set of indices that has the first, and the next of each it has, leaves out
no least one, so it has them all (`Least`, `Inductively`). Both inductions are stated with
sets.

*Compositions*: a composition refines its parts when each of its steps is one of theirs or
leaves their variables alone (`AuthImplementsSessions`, `WebImplementsSessions`,
`QueueImplementsPosts`, `EditingImplementsPosts`, `ServedImplementsScheduling`). Such a
theorem carries every result of the part over, which the theorems beside it spell out. With
the rate limiter, the web tier takes a refusal for a rejection, so `RejectedIsOver` is lost
there (run `MCWebRenewalThrottled`); its invariant is therefore split, and the half that
tells what was granted (`ToldInv`) is kept with and without the limiter: throttled
renewals still converge.

Not proved, only model-checked: `ProcessingEnds` and `SweepsEnd`, which are liveness
properties under fairness and out of the prover's reach. Every other property of a
passing run is a theorem. Nothing in the proved modules is recursive but the functions
named above and the fold that bounds the composer's writes, whose value no proof needs.

## 6. Where code and documents part

Five runs check what a document or comment says and the code does not do. The
quotations are in `PROJECT.json`.

1. `MCPostEditingCancel`: cancel is described as taking a scheduled post back to
   approved. It also takes a post in review there, without approval.
2. `MCSchedulingRules`: scheduling is said to be the last point at which missing
   media is caught, and a schedule to lie in the future. Reserving a slot asks
   neither, nor the transition table.
3. `MCPublishingSpelling`: the idempotency key is said to be derived from the scheduled
   time and to serve deduplication. It is made from the string, so a post enqueued
   twice for one instant in two spellings is sent twice.
4. `MCAuthFlowOldPassword`: a password change is said to sign out every device. A
   sign-in that verified the old password before the change opens its session
   after it.
5. `MCWebRenewalThrottled`: a rejected refresh is said to mean the session is over.
   A 429 of the rate limiter counts as a rejection, and deletes the cookies of a
   session that is good.

Seen while modelling and not made into runs:

*Sessions and sign-in.* A straggler whose token has been rotated twice within its
grace window is taken for theft (`sessions.service.ts:132`, `env.ts:26-28`).
Absolute expiry moves with each rotation (`sessions.service.ts:161`,
`sessions-and-errors.md:24`). A sign-in checked before the lock can succeed after it
and lifts it (`sessions-and-errors.md:63`). Two registrations of one address under
way at once both succeed, and the index keeps the later
(`accounts.service.ts:98-102`). `ensureSeeded` sets its flag before it awaits the
hash, so a second sign-in finds no demo account (`accounts.service.ts:291`).

*Posts, queue, slots.* Two writes in one millisecond share a token, and the first is
lost (`posts.service.ts:182`, `composer-and-search.md:55-57`). Cancelling leaves
queued jobs queued (`workflow.service.ts:68`, `system-architecture.md:196-197`).
`processJob` takes a job before its time, where `system-architecture.md:190` has it
leased when due; a failed job that is processed directly goes past `maxAttempts`,
which only `retry` compares. The comment above `PostsService.archive` says published
posts are refused, the code refuses publishing ones. `reserveSlot` and
`PostsService.archive` leave no event on the timeline. An approved post may be
edited and stays approved.

*Permissions.* The matrix of `authz-rbac.md` and the code differ: API keys may
manage content templates (through `posts.create`) and may not manage API keys;
creators submit, cancel and, through slots, queue jobs. The bulk route asks for
`posts.review` alone and submits, cancels and archives. A key with `posts.create`
alone schedules by creating with a time; a creator may create a post as approved.

*Composer and panels.* What is typed while a save is under way is dropped by its
answer, and the form counts as clean (`post-composer.tsx:106`, `composer.ts:14-15`).
Clearing the schedule is not saved. A lost answer to the first save makes a second
post on retry, a lost answer to a later one a 409. `beforeunload` does not guard
navigation inside the application. An Instagram draft without media is refused by
the page and allowed by the API (`posts.service.ts:291-295`). The page always sends
the schedule, so a post whose time has passed cannot be edited, although an
untouched schedule is exempt (`posts.service.ts:202-204`). A new post with a time is
created scheduled and cannot then be sent for review. No panel reads its tables
again; after a lost revocation it still offers to trust the device, and trusting
revives it; edits made while saving are overwritten by the answer; a retry after a
lost creation makes a duplicate. The onboarding panel has buttons for four of
seven steps.

*The other services.* Billing compares against the fixtures, so an allowance never
runs out (`system-architecture.md:264-266`). Choosing Arabic sets right-to-left, and
nothing sets it back. Testing a disabled SSO connection activates it, beside another
of the same domain. Quiet hours ignore their time zone and include both ends. A
generation blocked by a brand's banned words, or by a risk of 75, leaves no
moderation item. `fallbackUsed` is false when a pinned provider was skipped. Share
links can outlive their exports and cannot be revoked; the expiry of exports,
intents and invitations is never read. A new consent never takes permissions away,
and a callback that names no platform user makes a new account each time. A media
job that completed can be failed and keeps its output. The last owner can be
demoted or suspended. Closed moderation items can be resolved again. A brand voice
is changed in place while a generation awaits its provider. A connector panel may
complete a consent under another platform's name.

## 7. What is not modelled

*In the modelled components*: comments, timeline events and audit records, which
nothing reads back; texts and their length rules; workspace membership checks,
which refuse a call without a step; the rules of smart scheduling and the
planner's arithmetic; publish times that `@IsISO8601` accepts and `Date` cannot parse, and
spellings that differ and sort alike (the spelling is otherwise modelled); failing connectors, of which
the repository has none; `validateScopes` of the social accounts; the feedback on
a generation; reading, writing and CSRF checking of cookies; rendering.

*Components left out*, each with its reason in `PROJECT.json`: the audit log, which
nothing reads; search, analytics, dashboard, workspaces and health, which only read
fixtures; the pure algorithms of the domain package; web pages other than the
panels and the composer; the database schema, which no service reaches; filters,
the throttler and configuration, but for the values and the 429 the models use;
infrastructure.

## 8. Plan

Written in this order, the most important behaviour first: sessions (the security
of every request hangs on them), posts and workflow, the composer's token,
publishing, scheduling; then sign-in, web renewal, the guards in front of the
posts, the services, the panels and the composer page. Left:

1. `SlotPlanner`: `recommendSlots` and `nextWindowStart` as a function over bounded
   weeks, against a reference definition of non-overlapping slots.
2. Domain algorithms: search ranking, post counting and insights as functions,
   against reference definitions.
3. Liveness of `WebRenewal`: with a network that answers, every request of the
   browser gets its response.

What the functions of the first two return can be proved by the induction over indices of
`ServicesProofs` (`Inductively`), once TLC agrees.
