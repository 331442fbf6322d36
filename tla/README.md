# TLA+ specifications of Meridian (post-scheduler)

Meridian publishes one post to several social accounts. An API process takes
requests, worker processes run cron ticks and publish jobs (graphile-worker),
and everything they share is in one PostgreSQL database. What makes it hard is
not any single function but what happens between them: jobs delivered more than
once, leases that run out under slow workers, answers that never arrive, and
requests made of several transactions.

Paths below are relative to the repository root (`src/` is its TypeScript).
Run a configuration with `tlc -config X.cfg M`, a proof with `tlapm M.tla`.

- [Inventory](#inventory)
- [Modules](#modules)
- [Runs](#runs)
- [Fairness](#fairness)
- [What is proved](#what-is-proved)
- [What only TLC checks](#what-only-tlc-checks)
- [Where code and text disagree](#where-code-and-text-disagree)
- [Limits of what holds](#limits-of-what-holds)
- [Not modelled](#not-modelled)
- [Plan](#plan)

## Inventory

| part | state | operations | correct if |
|---|---|---|---|
| **publishing pipeline** `src/publishing/pipeline.ts`, `src/worker.ts` | `post_targets` (state, version, lease, attempt), `publish_attempts`, `dead_letters`, `usage_counters`, queued jobs | due scan, publish job, reconcile, four outcome writers, lease sweeper, requeue of a dead letter | each post goes out at most once per request of a person, nothing stays in flight for ever, late writers change nothing |
| **circuit breaker and budgets** `src/publishing/circuit.ts`, `ratelimit.ts`, `src/auth/rate-limit.ts`, `src/analytics/ratelimit.ts` | `provider_circuits`, `rate_limits` | admit a publisher, admit a reader, report success or failure, consume a budget | state and count agree, readers never take the probe, a provider that is back is used again |
| **connected accounts, vault** `src/accounts/`, `src/vault/`, `web` networks pages | `connected_accounts` (status, notify latch), `oauth_states`, `oauth_tokens`, advisory locks, keyring | begin and complete a handshake, connect with credentials, disconnect, refresh, re-encrypt, mark unhealthy | a handshake connects once and its page says so, one refresh per expiry, no account goes bad unannounced, no token is lost |
| **providers** `src/providers/` | the provider's posts and tokens (external) | publish, upload, delete, revoke, refresh, metrics | what an adapter reports is what happened |
| **posts, scheduling** `src/posts/`, `src/scheduling/`, `web` composer, queue, calendar | `posts` (status, content), overrides, `post_targets`, `queue_slots`; drafts and timers of a page | edit, retarget, delete, validate, materialize, cancel, retry, reschedule, reflow, list | what goes out is what is on the screen; status follows the targets; a queued post has a slot of its own; lists are complete |
| **approvals** `src/approvals/`, `src/authz/` | `approval_requests`, `approval_decisions` | submit, approve, request changes, inbox | no post of an author who needs review goes out unreviewed; no post waits unseen |
| **events, webhooks** `src/events/`, `src/webhooks/` | `events` with cursors, `webhook_endpoints`, `webhook_deliveries` | emit, fan out, deliver, replay, delete | no event lost between cursor and deliveries, at-least-once with excuses only, every delivery settles |
| **notifications** `src/notifications/`, `src/comments/` | `events.notified_at`, `notifications` with dedupe keys, preferences | route an event, deliver per channel, weekly summary, queue-low tick, read | everybody concerned is told of each thing, and mailed once |
| **public API** `src/api/` | `api_idempotency_keys`, `api_keys`, cursors | claim a key, run, store, replay, release, expire; list page by page | a retried request acts once; paging skips and repeats nothing |
| **sessions** `src/auth/`, `web/src/api/client.ts`, `web/src/auth/` | `sessions` with current and previous token hash; cookie and access token of a browser | sign in, rotate, detect reuse, revoke, reset | an honest client keeps its session and acts for the user it shows |
| **workspaces** `src/workspaces/` | `memberships`, invitations | invite, accept, change role, remove, leave, transfer, delete | there is always an owner |
| **media** `src/media/` | `media_assets`, variants, upload sessions, objects in storage | upload, finalize, delete and scrub, clean up, resumable upload | what a scheduled post publishes is in storage; no upload is finalized with a hole |
| **analytics** `src/analytics/` | `metric_snapshots`, cursors on published targets, exports | pull, back-fill, export | a milestone is pulled once, an export built once |
| summary, audit, tenancy, logs, metrics, other pages | appended rows, queries, views | | |

**How they interact.** Cron starts the ticks (`src/worker.ts:109-132`). The due
scan claims rows of `post_targets` and queues a job for each; a publish job asks
the breaker, the budget and `ensureFreshToken`, calls the provider and writes an
outcome; each outcome recomputes `posts.status` and emits events in the same
transaction; the outbox is read by two cursors, notifications and webhooks.
People change the same rows through the API: scheduling creates the rows the
scan takes, canceling and disconnecting take them back, a retry returns them.
There are no callbacks. All sharing is through rows, guarded by compare-and-set
on `(state, version)`, `for update skip locked`, unique indexes, one advisory
lock per account, and row locks. The web application is a second concurrent
system of its own: timers, requests in flight and several openings of one page
around one cookie and a cache.

**What is hard**: the step between two transactions (a crash, or another actor,
there), leases and cursors (time passes under the holder), answers that are lost
or late, read-then-write without lock, several transactions behind one request,
limits and counters at their edge. `PROJECT.json` lists each under `hazards`,
with its line and the property that would catch it.

## Modules

One step of a module is one transaction, one autocommitted statement or one call
to a provider; everything between two steps is an interleaving. Time is a guard
that becomes true (`LeaseExpires`, `CooldownEnds`, `ComesDue`, `Ages`), never a
clock. Ids, texts and payloads are model values or numbers. Operators named as
mutants (`... Mutant: ...` in the comment) are plausible bugs, used only to see
that each property can fail.

### Publishing (with PublishedOnce, EffectivelyOnce, MCPublishing, PublishingProofs, PublishingContractProofs)

The rows of `post_targets` of one account, `n` worker slots, the job queue, and
the provider.

| code | model |
|---|---|
| `claimDueTargets`, `dueScan` | `ClaimDueTargets` (one transaction for a batch), then `AddJob` per claim |
| `publishClaimed` up to the call | `Deliver` (with `stillOurs`), `ClaimAttemptSlot`, `GateRefuses`, `GatesPass` |
| `adapter.publish` and the catch | `PublishOk`, `PublishAmbiguous`, `PublishError` |
| `reconcile`, `lookupOutcome`, `markFailedWithReconcile` | `LookupAfterAmbiguous`, `LookupBeforeFailing` |
| `markPublished`, `requeueScheduled`, `markFailed`, `markNeedsReview` | actions of those names; `WriteLost` when the compare-and-set finds another version |
| `leaseSweeperTick` | `LeaseSweeperTick` (claim of the batch), `ReconcileSwept` |
| `retryTarget`, `requeueDeadLetter`, `cancelTargets`, `rescheduleTargets`, disconnect, reconnect | actions of those names |

A job stays queued until its worker has finished it, and several workers may
hold it at once: graphile-worker promises at-least-once delivery. `Crash` loses a
worker's locals and nothing else. `posts` is what the provider holds, in order
of creation, so that "created at or after the claim" is a comparison of indexes.
A job that is stale is dropped by `Deliver`. `GateRefuses` abstracts
`ProviderGates` and the refresh of `ConnectedAccount`: either answer, and it may
mark the account. `Lookup` and `IdemKey` are the two capabilities the code
branches on. `Faults` admits what no code can exclude, each separately: a lease
that ends while the work goes on, a provider clock that is behind, an outage
longer than the lookup window. `LateCodes` are the error codes a provider may
answer with although it created the post.

`PublishedOnce` holds the promises that any provider gets and the variables they
speak of, so that models with several instances of `Publishing` share them.
`EffectivelyOnce` says what the pipeline promises where nothing goes wrong that no
code can exclude: a target is posted only in flight, no more often than people
asked, shown as done only if posted, and then left alone. `ImplementsContract`
is `EffectivelyOnce!Spec` under the mapping of states to phases. `MCPublishing`
runs the provider of its configuration and, beside it, one that honours the
idempotency key and cannot be looked up, under every fault.

### ProviderGates (ProviderGatesProofs)

One `provider_circuits` row and the fixed-window counters of the publish and the
metric budget. Publishers run `circuitAllows` as two statements (`FlipOpen`,
then `ReadCircuit`), readers run `circuitClosed`; after them budget, token, call,
and the report, each a step that may be overtaken. `count` stops one above the limit,
where every further request is refused as well; `failures` stops at `Threshold`, above
which `circuit.ts` does not tell values apart.

### ConnectedAccount (ConnectedAccountProofs)

One account with its latch (`health_notified_status`), its vault row, the
advisory lock, any number of tasks in `ensureFreshToken`, the re-encryption, and
people who disconnect and reconnect. The provider rotates: a refresh token works
once. `FindStale` is the first read, `LockAndRecheck` the read under the lock;
`RefreshGranted` and `StoreTokens` are separate, so a crash between them loses the token the
provider has just issued, as in the code. `SetAccountUnhealthy` runs after the
lock is released and overwrites any status, as `health.ts:43` does.
`ReadOldKey` and `WriteNewKey` are the two statements of `reencryptTokens`.

### PostLifecycle (MCPostLifecycle, PostLifecycleProofs)

One post, its targets, the approval request and decisions, and people. A request
that spans transactions (`approve`: validate, decide, schedule, close; the read
that precedes an edit) keeps what it has read in `desk`; `was`, `seen` and
`drafts` are the reads a later transaction acts on. An outcome transaction has
three steps, `WriteOutcome`, `RecomputeRollup` (which takes the lock on the post
row) and `CommitOutcome`, because what `recomputeRollup` counts is what has
been committed by then (READ COMMITTED). `frozen[t]` is the content version in
`rendered_payload`. `paid` never changes: no code under `src/` sets
`is_paid_promotion`, only a test does (`test/approvals.test.ts:49`).

`Overlap` lets requests of several people run side by side. `LateReflow` lets a
queue slot be removed when a target of the post has already left the plan.

### Webhooks (WebhooksProofs)

The outbox cursor, deliveries per endpoint and event, and ticks that may overlap
(the cron starts one a minute, and a minute may be too short). `due` is the
order of `next_attempt_at`; `ClaimDue` applies the batch limit before the cap per
endpoint, as the query does. `RecordFailure` of a delivery older than the window
and `DisableEndpoint` are two statements and two steps. `LeaseOverruns` is a
lease of 60 s ending under a tick that sends up to 50 rows one by one.

### Abilities, Workspaces (AccessProofs)

`Abilities` is the role matrix of `src/authz/abilities.ts` with its rules on
ownership, and the web application's copy of it. `Workspaces` has the members,
the invitations and the requests that change them. A request resolves its role
on arrival (`Arrive`, `api/routes.ts:52`), then its transaction waits for the
rows of the owners. PostgreSQL's rule is in `LockOwners` and `GrantOwners`: a
lock that is waited for returns the rows of the old snapshot that still match,
and is granted before anything else happens (`NobodyGrantable` guards the other
actions). `Commit` and `Abort` end the transaction, with the two updates of
`transferOwnership` in their order. `Transfers` says whom ownership may go to.

### Sessions (AccessProofs)

The server's `sessions` with the current and the previous generation of the
refresh token, and the browser: one cookie, tabs with an access token, the
shared refresh of `client.ts` (`JoinRefresh`), calls that are refused, wait and
are sent again, the overlay that asks for the password again, logout, reloads,
the Security tab, password reset. An answer may be late, or never arrive
(`MaxDrops`). `tally.crossed` records that somebody signed in over a session that
was not signed out of: with a sign-out still under way, or with the cookie of a
live session in the browser. `ActsAsShown` is of histories without that.

### PublicApi (AccessProofs)

The arrivals of one call under one `Idempotency-Key`: authentication, scope and
budget, `ClaimKey` (insert or find), `LookUp`, `RunHandler`, `StoreResponse` or
`StoreFails`, `Release`, `Die` anywhere, and the hourly deletion of keys a day old.

### Alerts (ServicesProofs)

The notification cursor over the outbox. `StartTick` reads the rows that are not
marked, `Deliver` inserts one row per recipient in the routing transaction and
mails it at once, `CommitRoute` or `RouteFails` ends it, `MarkNotified` is a
transaction of its own. An insert waits for another tick's uncommitted row of the
same dedupe key (`HeldByOther`). Two producers are cron ticks, the others a
choice of business changes; preferences, queue levels and crashes disturb.

### Media, ChunkedUpload (ServicesProofs)

`Media` has assets, their objects, renditions and the posts that name them.
Objects leave the storage when they are deleted, also in a transaction that
rolls back. `Jobs` are the operations of several transactions (finalize,
schedule, delete, clean up). `ChunkedUpload` is `resumableUpload`: initiate,
insert the session, send a chunk, commit the offset, finalize, with breaks
between any two.

### Analytics (ServicesProofs)

Two halves without shared variables: cursors of published targets, claimed by
ticks that push them ten minutes ahead and keep the clock they started with; and
exports, claimed by compare-and-set. Time is the number of milestones passed.
A pull more than the milestones and back-fills call for must be paid for by a
slip: a tick slower than its lease, or the write of the breaker that fails after
the pull. A crash gives up the pull and costs nothing.

### WallClock, Slots (ServicesProofs)

`WallClock` asks for every wall-clock time around one change of a zone's offset
and answers as `resolveWallClockToUTC` does. `Slots` is one market's weekly
queue: occurrences, next open slots, the pick in the composer, `ReflowInTx` at
every change of the slots, and the board's moves, cancellations and retries. What
the code sorts and cuts the model says by rank: the first n of a set of days are
those with fewer than n before them, and a reflow gives a post the day with as
many days before it as there are posts in front of the post.

### Providers, Content (ConnectedAccountProofs)

`Providers` has the calls of the three adapters; a network acts or not and
answers or not, and the adapter makes one result of the status, the body and the
silence. `Content` follows a draft to the payload of one target: merge with the
override, rendering, the findings of `validatePost` and of the adapter's own
rules, the split into a thread, the crop. A word is its length, a text its
sentences and trailing hashtags; an image whose size the probe did not tell has
width or height 0 and passes every check of its shape, as it does in the code. The
loops of the split are recursive functions on the positions of their sequences,
so that the loop invariants can be proved.

### Composer (AccessProofs), Connect, Board, Calendar (ServicesProofs)

Pages with the services behind them. `Composer`: local drafts, one text timer,
one schedule timer, saves as requests that arrive in any order, buttons that
push the schedule first. `Hurries` are things an author may do without waiting
for an answer. `Connect`: single-use handshakes, callback pages that are opened
several times, the lock on the state's row while the network is asked, the
modal with fields. `Board`: groups of the queue and collections of the public
API read by cursors while rows move; a page is the set of the first rows beyond the
cursor, by their rank in the list. `Calendar`: cells of a month or a week, the
range that is asked for, placement in the viewing zone, drag, confirm, conflict.

### MCPosts, MCServices

`MCPosts` checks, as parts of one run, a post's life (`PostLifecycle`) and an
instance of `Publishing` with two targets of the same text on one account.
`MCServices` checks sixteen parts side by side (the modules above, `Analytics` as
two); a behaviour is of one part and the others stay as they are, so every
property is of its part alone.

### How the modules meet

They share rows, not variables. `Publishing` sees the gates and the token as a
choice of answers; `ProviderGates` and `ConnectedAccount` see the pipeline as
callers. `PostLifecycle` abstracts a publication to "claimed, requeued or
settled, with any outcome", close to the phases of `EffectivelyOnce`; `Slots`,
`Media` and `Board` abstract it to one or two steps of the row they look at.
`Webhooks` and `Alerts` see every other part as an emitted event. `Workspaces`
builds on `Abilities`. Each abstraction is meant to allow every answer that the
part it stands for can give; none of them is checked yet (see the plan).

## Runs

| run | instance | what it shows |
|---|---|---|
| Publishing | given: 1 target, 2 workers, lookup only, 2 claims, 2 crashes, 1 human retry; keyed: the same with a key and no lookup, every fault, every late code, 1 crash | given: `FailedWasNotPosted`, `ImplementsContract` (with it, at most one post per request) and, under fairness, `NeverStranded`, provided leases outlast the work; both: `OneCallPerAttempt`, `UsageCountsPublished`, `PublishedIsFinal`, in the keyed part with stale workers and stale jobs everywhere |
| Posts | life: 2 targets, author, 2 approvers, 2 contents, 1 reflow, one request at a time; twins: 2 targets of equal text, 2 workers, lookup only | `ReviewedAsScheduled`, `RollupIsProjection`, `InboxShowsPending`, `ScheduledIsCurrent`, `InFlightNeverDeleted`; `NoDoublePost` |
| ProviderGates | 2 publishers, 1 reader, threshold 2, 1 crash | `ClosedBelowThreshold`, and `Recovers`: a provider that stays up ends with a closed circuit |
| ConnectedAccount | 2 refreshers, 2 expiries, 1 reconnect, 1 crash | `OneRefreshPerExpiry`, `UnhealthyIsAnnounced`, `StaleIsResolved`, `OldKeyDrains` |
| Webhooks | 2 events, 1 endpoint, 2 ticks, batch 2, cap 1, 1 disturbance | `FanOutLosesNothing`, `AcceptedOnce`, `DeliverySettles` |
| Services | sixteen parts, below | nineteen properties |
| PublishingSlowWorker | as given, slow workers | violated: `NoDoublePost` |
| PublishingDeadLetter | 3 claims, 1 retry | violated: `ExhaustionOpensDeadLetter` |
| ProviderProbe | 2 publishers | violated: `SingleProbe` |
| TokenReencrypt | 2 refreshers, 1 expiry | violated: `StoredTokenWorks` |
| ApprovalVoid | 1 target, 1 approver, overlapping requests | violated: `ReviewedAsScheduled` |
| Ownerless | 2 users, 2 requests, transfers | violated: `OwnerExists` |

The parts of **Services**:

| part | instance | property |
|---|---|---|
| members | 3 users, 2 overlapping requests, invitations, no transfer | `OwnerExists` |
| sessions | 2 people, 1 tab, 1 call besides logout, 2 sessions, 2 rotations, 1 reset, 1 lost answer | `NoFalseAlarm`, `ActsAsShown` |
| public api | 3 arrivals, 2 bodies, budget 2, 1 failing request | `EffectOnce` |
| alerts | owner and editor, 2 overlapping ticks, 2 events, 1 disturbance | `AlertsArrive`, `MailedOnce` |
| media | 1 asset, 2 posts, 1 operation of several transactions at a time | `LiveMediaKept` |
| upload | 2 overlapping calls, 3 chunks, 2 provider uploads | `UploadWhole` |
| metrics, exports | 2 targets, one without metrics, 2 milestones, 2 ticks, 1 slip, 1 back-fill; 1 export, 2 ticks | `PulledPerMilestone` |
| wall clock | 8 zones, every half hour within 30 h of the change | `WallClockResolved` |
| queue | 2 posts, week of 3 days, horizon 5, 3 days, 1 change of slots | `OnOwnSlot`, `QueueKeepsOrder` |
| adapters | Bluesky, LINE and the fake, 3 calls, every answer | `ReportedTruthfully` |
| content | texts of up to 2 sentences of up to 2 words of length up to 4 against a limit of 5, 0 to 2 hashtags, images and videos on both sides of each limit | `ThreadKeepsText`, `FrozenIsPreviewed` |
| composer | 2 targets, 3 texts, 1 file, 3 modes, 4 edits | `ScheduledAsShown` |
| connect | 2 handshakes, 2 openings, 1 profile, 1 fault | `HandshakeOnce` |
| pages | 3 rows (the third absent or scheduled at first), 3 instants, pages of 1, 2 changes | `PagesComplete` |
| calendar | February 2026 and its weeks, zones UTC-12, UTC, UTC+14, an entry at each edge of the grid, 3 turns | `CalendarShowsAll` |

**Bounds.** Every constant called `Max...`, and `LastDay`, `Reach` and
`SlotHorizon`, is in the guard of the actions it limits. Two of everything is
where each mechanism starts to matter: two workers hold one job, two attempts of
one target differ, two targets finish together, two refreshers meet at the lock,
two ticks overlap, two owners step down, two pages of one callback are open, two
rows share an instant. `MaxAttempt = 2` equals `AmbiguousCap`, so both sides of
that limit are reached, and one of the two retryable codes has its limit at 2,
the other one above the claims of most runs; higher limits only repeat the step.
A threshold of 2 instead of 5 has the same three cases: below, at, above. A week
of three days has a free day, a day with a slot and a day that gets one. What
these bounds leave open the proofs close, for the properties they cover.

Five constants restrict what people do, because the property is false without
the restriction. For `Transfers` the run Ownerless shows it; for the others
nothing in the repository promises more, and the failing histories are listed
under [Limits of what holds](#limits-of-what-holds):
`Transfers` of `Workspaces`, `Jobs` and `Habits` of `Media`, `Hurries` of
`Composer`, `QueueHabits` of `Slots`.

`CHECK_DEADLOCK FALSE` is set where a system may stop: all targets settled, the
post published or deleted, no event left, every bound reached. `ProviderGates`
never stops and is checked for deadlock.

## Fairness

- **Cron.** Every minute a due scan, a sweep, a fan-out and a delivery tick are
  started, every five minutes the refresh tick, every hour the re-encryption
  (`src/worker.ts:114-131`). A tick that is started again and again but may find
  its row locked or its slot taken gets strong fairness (`LeaseSweeperTick`,
  `StartFanOut`, `ClaimDue`); one whose condition persists gets weak fairness
  (`FindStale`, `ReadOldKey`).
- **A running task goes on** unless it crashes (`WF` on its next step).
  The number of crashes is bounded; with a crash in every attempt nothing
  would ever be finished.
- **The queue delivers** what it holds (`WF` on `Deliver`).
- **Time passes** (`WF` on `LeaseExpires`, `CooldownEnds`, `WindowRolls`,
  `ComesDue`, `Ages`).
- **The environment** in `ProviderGates`: a publisher that asks for a token again
  and again is sometimes given one, and its calls to a provider that is up are
  sometimes answered with success (`SF` on `TokenFresh` and `AnswerOk`).
  Without new posts no circuit can close; the code has no other probe.

No fairness is assumed of people, of the due scan, or of anything a proof or a
safety property uses. In `MCPublishing` the fairness is of the given part, and
`NeverStranded` asks nothing of the other. The services of `MCServices` have no
liveness property: their ticks are started again every minute or hour, and
what a later tick finds is in their safety properties.

## What is proved

Each theorem holds for every value of the constants that satisfies the named
`ASSUME` of the module (sets of any size, any limits and bounds).

| theorem | property | along |
|---|---|---|
| `TypeCorrect` | Publishing `TypeOK` | `TypeInv`: the types, what the label of a worker says about its locals (past the entry check it holds a claim, at "write" a verdict), and that a row in flight has been claimed, because the sweeper rebuilds a claim from the row |
| `OneCall` | `OneCallPerAttempt` | `CallInv`: a worker between slot and call holds the slot of an attempt nobody has called, no two stand there for the same attempt, and an attempt whose slot is free has not been called |
| `LeasesMatch`, `PublishedStays` | `LeaseMatchesFlight` (which no run checks), `PublishedIsFinal` | `RowMoves`, an action formula: a step leaves a row as it is, claims, settles or sweeps it, lets its lease lapse, or moves it between states that are neither in flight nor published |
| `KeyPreventsDoublePost` | `NoDoublePost` if `IdemKey` | `KeyedPosts`: a key names at most one post, and a post of a target bears its key |
| `LeasesPreventDoublePost` | `NoDoublePost` if `LeasesHold`, `Dependable`, `~IdemKey` | `LeaseInv`: of the workers and waiting jobs that may still act on a row exactly one does, and its claim is that of the row as it is; `PostInv`: the target may be posted once more (`Spare`) wherever a call can still come from: a waiting claim, a worker before the call, a verdict to requeue, a scheduled row; in flight the only post too many is one made after the claim, which the lookup finds |
| `FailedMeansUnposted` | `FailedWasNotPosted` if `LeasesHold`, `RetriesAreSafe`, `LookupsFind`, `~IdemKey` | `PostInv`: where posts can be looked up, a verdict "failed" and a failed row are spare |
| `CoreImplementsContract` | `ImplementsContract` if `LeasesHold`, `Dependable`, `~SameText` | the two invariants, and one lemma per group of actions: each maps to the action of `EffectivelyOnce` its phase says or to a stutter |
| `UsageExact` | `UsageCountsPublished` | `MeterInv`: the published rows can be counted, and only `MarkPublished` makes one |
| `GatesTypeCorrect`, `CircuitMatchesCount`, `ProbeIsPublishers` | `TypeOK`, `ClosedBelowThreshold`, `ReadersNeverProbe` (which no run checks) | inductive as stated, with the types |
| `AccountTypeCorrect`, `BadStatusAnnounced` | `TypeOK`, `UnhealthyIsAnnounced` | `AnnounceInv`: what the latch names has been announced |
| `SingleFlight` | `OneRefreshPerExpiry` | `FlightInv` with `LockHeld`: the lock is held exactly inside the refreshing transaction, and the refreshes granted, plus one still owed to a stale token, are paid for by expiries and crashes |
| `AdaptersReportTruthfully` | `ReportedTruthfully` if `NamesAreNames` | `ReportInv`: what the network did is still what the answer on the wire tells; by cases of the adapter, the call and the answer |
| `LifecycleTypeCorrect` | PostLifecycle `TypeOK` | `TypeInv`, without hypothesis |
| `ScheduledStaysCurrent`, `FlightsAreKept` | `ScheduledIsCurrent`, `InFlightNeverDeleted` if `~Overlap /\ ~LateReflow` | `PlanInv`: while the post is being planned none of its targets is queued or in flight, a request about to write has read a post that is still so, and one about to schedule has read the current content |
| `RollupFollowsTargets` | `RollupIsProjection`, same hypotheses | `RollupInv`: who has counted holds the row lock, and if all other targets are settled what it will write is their projection |
| `ReviewCannotBeBypassed` | `ReviewedAsScheduled`, same hypotheses | `ReviewInv`: until a reflow, decisions on record are signatures under the current content and there are none while the post is editable; a request past the decision has as many as it needs |
| `PendingIsListed` | `InboxShowsPending`, same hypotheses | `InboxInv` (who is about to close a request has scheduled the post, so a pending post has an open request) and `ReviewInv` for the approvals the inbox counts |
| `FanOutKeepsAll` | `FanOutLosesNothing` | `FanOutInv`: the event a tick is about to mark is covered, and so is every marked one |
| `WebhooksStayTyped`, `AcceptedOnceOnly` | `AcceptedOnce` | `Ledger(d)`: the acceptances of a delivery, the ticks that hold it and the chance its row still gives are at most one more than the disturbances; what a tick will still send it holds |
| `MembersTyped`, `OwnerStays` | `OwnerExists` without transfers, at most two requests at a time | `OwnerInv`: an owner exists (`OwnerExists`); one request holds the locks and its rows keep an owner after what it writes (`OneReads`); the snapshot of one that waits holds every owner the holder has locked (`OneWaits`) |
| `SessionsTyped`, `AlarmsAreEarned` | `NoFalseAlarm` if `OneTab` | `AlarmAt(t)`: a stale token in the cookie is the one a request under way presents or the one its answer will replace; a stale one about to be presented (`Risk`) has been paid for by an answer that was lost |
| `TabsActAsShown` | `ActsAsShown` if `OneTab` | `ShownAt(t)`: a live cookie is of the session the tab is in, which is of the user it shows; a refresh under way was sent with it, and a sign-out under way ends it |
| `PublicApiTyped`, `TakesEffectOnce` | `EffectOnce` | `ApiInv`: while no request has failed, the row of the key stands between the handler's run and every later arrival |
| `WholeUploads` | `UploadWhole` | `UploadInv`: what the saved progress or a call takes for sent has been received |
| `ConnectsOnce` | `HandshakeOnce` | `HandshakeInv`: a page past the state's update holds its row; a state is consumed by declining, or by the one page that shows success |
| `AlertsReach`, `MailsOnce` | `AlertsArrive`, `MailedOnce` | `AlertsInv`: what a tick has read, written and not committed (`RouteSound`); a marked event has reached its recipients unless its routing failed (`Marked`); every mail but those a fault undid has its row (`MailSound`) |
| `CalendarIsComplete` | `CalendarShowsAll` | `CalendarInv`: what the page holds was listed for the range it asks for; the arithmetic of cells, zones and ranges, for zones of -12 to +14 hours |
| `WallClocksResolve` | `WallClockResolved` | no invariant but the types: the bisection of `findTransition`, as a recursive function, keeps the change between its ends, by well-founded descent on their distance; then the four cases of the two offsets |
| `MediaAreKept` | `LiveMediaKept` if `OneJob`, `Habits = {}` | `MediaInv`: a ready asset and a rendition with a row have their objects (`StoredSound`), what is frozen was ready and is of the post's media (`FrozenSound`), and no deletion under way is of what a post is about to publish (`DeletionSound`) |
| `PullsAreAccountedFor` | `PulledPerMilestone` | `PaidFor(t)`: pulls made plus pulls owed (ticks with the target in hand, those whose clock is behind, a cursor that is due) are at most milestones, slips and back-fills; an export past its claim belongs to one tick |
| `QueuedOnOwnSlots` | `OnOwnSlot` if no stale pick | inductive with the types; a reflow keeps it because ranks of different posts differ (`FrontGrows`) and days of different ranks differ (`BeforeGrows`) |
| `QueuesKeepTheirOrder` | `QueueKeepsOrder` | the same two lemmas, and `PlaceExists`: a post that finds a day leaves one for each post in front of it |
| `PagesAreComplete` | `PagesComplete` | `ReadSound`: a row that keeps its place is in a page read so far exactly if the cursor is past it, and an earlier page holds no later row; for a page, that the first n of some rows leave none out before the cursor (finite sets have a first and a last row, and earlier rows have lower rank) |
| `ThreadsKeepTheText` | `ThreadKeepsText` if `NoneGlued` | `ContentSound`: the verdict is that of the draft asked about; then the loop invariant of the packing (`Held`): the parts so far, followed by the part being filled, are the words so far, and each fits or is one word. It is carried over words and over sentences by induction on the position, put as a set of numbers that holds 0 and every next one (`UpTo`) |
| `FrozenAsPreviewed` | `FrozenIsPreviewed` if `PixelsAreFine` | `ContentSound`; what is frozen is built from the same assets as the preview (`FindingsAre`, `ReadyTyped`); among finitely many shapes one is the closest (`ClosestIn`), rounding is off by half a pixel at most (`RoundedNear`), so a crop stays within the tolerance and inside the picture (`CutWidth`, `CutHeight`, `VariantFits`) |
| `ComposerKeepsThePage` | `ScheduledAsShown` if `Hurries = {}` | `ComposerInv`: at most one save is under way and carries what the page shows (`OneSave`, `SaveSound`); what the row lacks of the page, a timer or that save will bring (`PageAgrees`); a commit under way waits for it and carries the rest (`CommitSound`) |

Few of the properties are inductive as they stand in the module: most say
nothing of the local variables of workers and requests, where the next violation
would be prepared. The strengthenings say what a worker or a request may rely on
between its transactions, which is the argument the code's comments make in
prose.

The hypotheses are real restrictions, and each is one the runs make as well.

- *Publishing.* `LeasesHold` ("slow_worker" is not among the faults): a lease does
  not run out under a worker that is still at it; without it `NoDoublePost` is false
  (run PublishingSlowWorker). `Dependable`: no code the provider may answer with
  after it posted is one that is retried (`RetriesAreSafe`), and where posts can
  be looked up, the lookup finds what was posted (`LookupsFind`: neither a clock
  that is behind nor an outage longer than the window); or the key is honoured. `~SameText`:
  the lookup cannot tell two targets of one text apart, and the contract speaks of
  the posts of each; that nobody is posted twice holds for equal texts as well.
  `~IdemKey`: with a key a target keeps its posts across attempts, and
  `FailedWasNotPosted` is false where the provider has both capabilities (see
  [Limits of what holds](#limits-of-what-holds)).
- *Posts.* Without `~Overlap`, `ReviewedAsScheduled` is false (run ApprovalVoid).
  So are `RollupIsProjection`, `InboxShowsPending`, `ScheduledIsCurrent` and
  `InFlightNeverDeleted`, each with a history TLC finds: `LateReflow` makes a post
  with a target in flight a draft again, which anybody may then edit or delete, and
  an edit between the two transactions of `approve()` leaves status, targets and
  request apart. Nothing weaker of the invariant is kept there.
- *Content.* `NoneGlued`: no text has a word that runs into its hashtags
  ("foo#bar"); such a word is torn, and `ThreadKeepsText` is false (see
  [Where code and text disagree](#where-code-and-text-disagree)). `PixelsAreFine`:
  no image that has to be cropped is so small that half a pixel is more than the
  tolerance; it says nothing of images that already have a permitted shape. The run's
  drafts satisfy both, and some of its images are cropped.
- *Members.* With transfers `OwnerExists` is false (run Ownerless), and with a third
  request that waits with an old snapshot the argument fails as well.
- *Public API.* `EffectOnce` itself speaks only of windows in which no request
  fails after its handler has committed.
- *Sessions.* `OneTab`: two tabs share the cookie and can present one generation
  twice, or hold the tokens of two people. The number of sessions is not
  limited: the run opens two, the theorems hold for any number.
- *Media, Composer, Slots.* `OneJob`, `Habits = {}`, `Hurries = {}` and no stale pick: the
  histories that break the properties are listed under the limits.
- *Providers.* `NamesAreNames`: no name of an error holds the words "could not",
  which `publish` of Bluesky takes for a post that is there already.

The assumptions on constants are what the configurations have: sets of ids are
finite where the code counts them, placeholders (`None`, `Nothing`, `Absent`) are
not among the values they stand beside, bounds are natural numbers, the months
of `Calendar` follow one another, the offsets of `WallClock` are within half a
day of UTC, and the drafts and assets of `Content` are of their types, with finitely
many shapes per network.

## What only TLC checks

All liveness properties (`NeverStranded`, `Recovers`, `StaleIsResolved`,
`OldKeyDrains`, `DeliverySettles`): fairness and `ENABLED` are beyond the prover.
Every invariant and every action property of a passing run is the conclusion of
a theorem.

What a recursive definition computes is proved for two kinds of them only: the
bisection of `WallClock`, which descends on a distance, and the loops of
`Content`, whose positions are numbers. The library's induction rules take an
operator as parameter and cannot be used; in their place stand statements about
a set of numbers (`UpTo`) that each proof instantiates with the set of positions
at which its invariant holds, and `RecursionExists`, that such functions
exist.

## Where code and text disagree

Each has a run whose counterexample is the history described.

1. **PublishingSlowWorker**, `pipeline.ts:84`. The lease starts at the claim and
   includes the wait in the queue. With a queue longer than the lease the
   sweeper looks up a post that does not exist yet, requeues the target, and both
   jobs post. The documents promise that adding workers never double-publishes.
2. **PublishingDeadLetter**, `pipeline.ts:220`. A dead letter that was requeued
   once is never open again.
3. **ProviderProbe**, `circuit.ts:26`. Half-open admits every caller after the
   first, and not a single probe.
4. **TokenReencrypt**, `vault/tokens.ts:88`. Re-encryption writes back what it read; a
   refresh in between is lost, and the stored token no longer works.
5. **ApprovalVoid**, `approvals/service.ts:73`. An edit between the decision and
   the scheduling transaction of `approve()` is published unreviewed.
6. **Ownerless**, `workspaces/service.ts:242`. `lockOwners` (line 97) locks the
   owners it finds, not the member who is to become one. While a transfer waits,
   another request removes that member; the transfer promotes nobody, steps its
   initiator down and leaves a workspace without an owner, where line 238
   says that the order keeps one.

Smaller ones, without a run of their own:

- `scheduling/time.ts:4-6` promises the first occurrence in an overlap and the
  next valid time in a gap. For zones beyond twelve hours from UTC the second
  occurrence is taken and a gap fires about twelve hours late (lines 41-42, 50);
  the run has the zones where the promise is kept.
- `notifications/summary.ts:33-34` says the day label lets a low queue alert again
  on later days. The key of `notifications/dispatcher.ts:97` has no day: it alerts once
  for ever.
- "Publish now" (`ScheduleRow.tsx:42`) is refused when the chosen instant equals the
  server's (`posts/validate.ts:117` compares with `<=`).
- `posts/validate.ts:154` announces a split into several posts; scheduling freezes
  the text unsplit, and nothing splits it later (`ThreadKeepsText` is of the
  preview that validation computes).
- `posts/threads.ts:2` says that a split is never in the middle of a word. The
  expression that takes trailing hashtags off (lines 18-22) asks for no space
  before the sign: "#bar" is taken off "foo#bar" and a blank is put between them
  (`Words` has the text as it stands; the run's texts have no such word).
- The badge "Was updated" of the approvals inbox (`approvals/service.ts:102-103`,
  `approvalsLogic.ts:30-34`) never shows: an edit returns the post to draft and a
  resubmission opens a new request.
- `Queue.tsx:58-65` says that nothing was moved when the answer of a bulk move was
  lost, though the server may have moved it all.

## Limits of what holds

What the models admit or leave out because the property would be false, with the
history; nothing in the repository promises it there.

- **Publishing.** A *retryable* error after the post was created is requeued
  without a lookup (`pipeline.ts:268`), although terminal errors are looked up
  first (`pipeline.ts:243-248`); lookup instances therefore allow late errors with
  permanent codes only. Where a provider has a key and a lookup
  (`bluesky/index.ts:45-46`), an ambiguous answer whose lookup fails is requeued
  with the key (`pipeline.ts:336`); a terminal error of the next attempt looks for a
  post since that attempt's claim only, finds none, and the target is failed though the
  post of the first attempt exists, against the comment above
  `markFailedWithReconcile` (`pipeline.ts:243-247`). Hence the instances have one
  capability each, and the theorem `~IdemKey`. The lookup compares the provider's clock with ours in a
  window of 45 minutes (`pipeline.ts:294`). `resolveAdapter` of a network that
  was removed throws and rolls the whole sweep back (`pipeline.ts:362`).
- **Posts.** Claim, requeue, cancel, skip and retry leave `posts.status` as it was
  (`pipeline.ts:408`), so `RollupIsProjection` speaks of settled posts. After a
  reflow the decisions stay and count when the edited draft is resubmitted.
  `approve` carries no version (`ApprovalCard.tsx:44`), so a card that is out of date
  approves what its reviewer has not seen.
- **Accounts.** A late `setAccountUnhealthy` overwrites an account that was
  reconnected meanwhile (`health.ts:43`); `StaleIsResolved` and `UnhealthyIsAnnounced`
  allow it.
- **Webhooks.** The query limits the batch before it caps an endpoint
  (`dispatcher.ts:77-91`): 50 due rows of one endpoint delay all others. A crash
  between `exhausted` and the disabling of the endpoint leaves it active
  (`dispatcher.ts:128-131`). `post.scheduled` can be subscribed and is never emitted
  (`webhooks/service.ts:20`).
- **Alerts.** Dedupe keys carry no occurrence (`dispatcher.ts:51,60,68`): the second
  reconnection of an account, or the second request for the same post, is not
  announced. `connected_account.needs_review` (`health.ts:58`) is not routed
  (`dispatcher.ts:49`). `AlertsArrive` is of the first occurrence.
- **Public API.** A handler that commits and then fails to store its answer runs
  again on the retry (`idempotency.ts:82`). `api_keys.expires_at` is never set.
- **Sessions.** One tab: two tabs with one cookie can each hold the token of
  another person (`AuthProvider.tsx:49`). In one tab too, an answer to a refresh
  that arrives after somebody has signed in over the overlay, or after a sign-out
  that failed, installs the token of whoever was there before
  (`client.ts:38-50`): `ActsAsShown` excludes histories that cross in that way.
- **Workspaces.** `Transfers = "nobody"`: a transfer to a member without a lock,
  or to oneself, strands the workspace.
- **Media.** `Jobs` has one member and `Habits` none: two operations of several
  transactions that overlap, an image that only an override names, and a late
  retry do lose an object (`schedule.ts:89`, `media/service.ts:102`).
- **Analytics.** A crash while an export is being built leaves it in
  `processing` (`export.ts:99`).
- **Slots.** `QueueHabits` is empty: who takes an open slot from a list that is out
  of date may take one that is gone or that another post has by now.
- **Composer.** `Hurries` is empty: an author who types on, switches targets, adds
  several files or clicks before a save has been answered, or whose save fails,
  can schedule something else than the screen shows.
- **Providers.** The Bluesky adapter takes every error whose name contains "could
  not" for success (`bluesky/index.ts:183`); the run has no such body.
- **Content.** The crop rounds to whole pixels (`variants.ts:44-48`): of a very
  small image the result may be outside the tolerance that it is checked
  against. `PixelsAreFine` leaves those out.
- **Board, Calendar.** Paging relies on timestamps that keep their microseconds on
  the way through the cursor (`pagination.ts:13`, `board.ts:106`). From the 31st,
  "next month" may skip one (`ShiftAnchor`).

## Not modelled

`PROJECT.json` gives the reason for each component. In short:

- HTTP, rendering, signing, the filter of webhook addresses and encryption are
  functions of one request; row-level security, isolation and locks are
  PostgreSQL's and are assumed; probing and rendering of media are other
  programs.
- The network catalogue, the workspace summary, the audit log, read models,
  glossaries and exports' columns are queries or appended rows without protocol.
- Sign-up, e-mail verification and the identity providers; `updateWorkspace`;
  `duplicatePost`: one transaction each, that nothing else interleaves with in a way the
  modelled ones do not.
- Of the web application: the pages without a protocol of their own (settings,
  analytics, landing), the calendar's list view, styling and components.
- Logs, metrics and health endpoints, scripts, end-to-end tests, deployment.

## Plan

Done, in this order: `Publishing` with `EffectivelyOnce`, `ProviderGates`,
`ConnectedAccount`, `PostLifecycle`, `Webhooks` with their proofs; then the
services (`Workspaces`, `Sessions`, `PublicApi`, `Alerts`, `Media`,
`ChunkedUpload`, `Analytics`), the rules (`WallClock`, `Slots`, `Providers`,
`Content`), the pages (`Composer`, `Connect`, `Board`, `Calendar`) with their
proofs; the contract of the publishing core.

Next, by importance:

1. **Proofs**: `FailedWasNotPosted` with a key, once the lookup of a terminal error
   reaches back to the first attempt.
2. **Composition**: `Publishing` with `ProviderGates` in place of `GateRefuses`,
   and `Alerts` with the episodes of `ConnectedAccount` as its source, to show
   that the abstractions are theirs.
3. **Instances**: `Media` with two operations of several transactions and
   `Sessions` with two tabs, with what then still holds stated as properties.
4. **Liveness** of the services whose ticks are repeated: alerts, metrics, exports.

Twelve runs are kept at most, so that all of it is checked in minutes:
components whose instances are small share an MC module and a run.
