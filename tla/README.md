# Verification of eventform

TLA+ specifications of eventform, checked with TLC and proved with TLAPS.
eventform lets a tenant publish forms; each submission of a form is delivered
to the tenant's webhook endpoints. The promise of the product is in that
sentence: every submission reaches every endpoint, or is visibly given up and
can be retried, although processes die, messages are duplicated and receivers
fail. The specifications are about how the code keeps that promise.

Paths below are relative to the repository. Line numbers are in the `map` of
`PROJECT.json`.

## 1. The system

```
browser ──POST /public/forms/:slug/submit──▶ API ─┐ one transaction
dashboard ──POST /deliveries/:id/retry──────▶ API ─┤
                    retry scheduler (worker) ──────┤
                                                   ▼
             Postgres (Neon): submissions, deliveries, outbox,
                              delivery_attempts, processed_events
                                                   │ WAL, slot eventform_outbox
                                                   ▼
                 Debezium ──▶ topic eventform.events ──▶ consumer (worker)
                 └────────── both on the box's disk ──┘       │
                                                              ▼
                                event processor ──HTTP──▶ tenant's endpoint
```

API and worker share nothing but Postgres. They, Debezium and the
Kafka-compatible log are containers on one EC2 instance, "the box", which an
idle check terminates and a wake function starts again; Postgres is on Neon.

### Components

| Component | State it keeps | Operations that change it | What makes it correct |
|---|---|---|---|
| Public submit (`apps/api/src/public`) | rows of `submissions`, `deliveries`, `outbox` | submit: one delivery and one event per active endpoint | row and event appear together; answers fit the published form |
| Event processor (`apps/worker/src/processor`) | `delivery_attempts`, `deliveries`, `processed_events` | one transaction per event: claim id, lock row, send, record, commit | a duplicate event sends nothing; history, counter and status agree; delivered is final |
| Retry scheduler (`apps/worker/src/scheduler`) | `deliveries`, `outbox` | tick: lock due rows (SKIP LOCKED), re-emit, back to pending | a retry is re-emitted exactly once; never while an event is in flight |
| Manual retry (`apps/api/src/deliveries`) | `deliveries`, `outbox` | retry a failed delivery with a fresh budget | two clicks, a tick and an attempt never overlap |
| Consumer (`apps/worker/src/kafka`) | group offset, position | subscribe, eachMessage, commit the offset, die and restart | the offset never passes an unhandled message; a malformed message does not block |
| Debezium, topic (`infra/compose`, external) | slot, offset file, topic | stream, flush, confirm, restart | what is confirmed has been published |
| Outbox cleanup | `outbox` | delete rows older than a week | the channel reads the WAL, not the table |
| Webhook sender | cache of decrypted secrets | send with a 10 s timeout | a rotated secret is never used again once the row says so |
| Endpoints (`apps/api/src/endpoints`) | rows of `endpoints` | create (at most 20), update, rotate, remove | the cap; no delivery for an endpoint that is gone |
| Forms (`apps/api/src/forms`) | `forms`, `form_fields` | create, edit, publish, remove | published forms have fields and never change |
| Tenants (`apps/api/src/auth`) | `tenants` | provision on first request, update | one tenant per subject; a chosen name stays |
| Tenant transactions (`packages/db`) | pooled connections, `app.tenant_id` | begin, set tenant, commit, rollback, release | a query reaches the rows of its tenant and no others; no connection carries a tenant into another request; everybody gets a connection in the end |
| Scale to zero (`infra/prod`, `infra/cdk/lambda/wake`, `activity.ts`, `api-health-gate.tsx`) | desired capacity, activity stamp, gate state | wake, idle check, stamp, poll | a visitor never waits forever; no termination while in use |
| Web sign-in (`apps/web/src/lib`, `auth-callback.tsx`) | tokens in localStorage, PKCE attempt in sessionStorage, React state and query cache of each tab | sign in, callback, refresh after a 401, sign out | one refresh per 401; tokens follow the last sign-in or sign-out; a document never mixes users; a code is sent once |
| Public form page (`public-form.tsx`) | the form as loaded, the answers, the request under way | load, fill in, validate, send, send again after an error | thanks are for what was saved; the page is no laxer than the API |
| Deliveries page (`deliveries.tsx`, `delivery-row.tsx`) | the polled list, the retry under way | poll, click Retry | a retry that was queued is not shown as failed again; the list catches up |
| Endpoints page, dashboard (`endpoints.tsx`, `dashboard.tsx`) | two cached lists, dialogs, a switch per row, the secret shown | create, rotate, reveal, switch, delete | a list that is not stale is true; a secret shown is the one asked for |
| Form builder page (`form-builder.tsx`) | editor list, last saved list, publish dialog, cached copy | edit, save, publish, refetch | what is shown as saved is saved; publish acts on it; refetches take no edit away |
| Signing, encryption (`packages/shared`) | none | sign, verify, seal, open | a signature is accepted only in its window |

### How they interact, and what is hard

* **Shared rows.** Submit, worker, scheduler and manual retry meet in the rows
  of `deliveries`, at READ COMMITTED, with row locks (`FOR UPDATE`, `FOR UPDATE
  SKIP LOCKED`) and one unique key (`processed_events`). Several workers and
  overlapping ticks (`setInterval` does not wait for a tick to end) are the
  normal case.
* **HTTP inside a transaction.** The processor sends the webhook between its row
  lock and its commit. Whatever aborts after the send forgets the attempt.
* **A channel that repeats.** Debezium republishes after a crash, kafkajs
  refetches after an error, and a rebalance gives a partition to a new worker
  while the old one is still handling a message.
* **A box that is thrown away.** Topic, group offset and offset file die with
  it, while WAL and slot stay on Neon.
* **Pages over requests.** The pages keep copies of rows that others change, and what they
  began is answered after a dialog was cancelled, a page left, or another request answered.
* **Stranding.** Nothing polls `pending` rows, and manual retry accepts only
  `failed` ones. A pending delivery whose event is gone is stuck for good.

The full list, each at its line and with the properties that cover it, is
`hazards` in `PROJECT.json`.

## 2. Modules

| Module | Kind | Contents |
|---|---|---|
| `DeliveryLifecycle` | abstract specification | what one submission to one endpoint is promised |
| `Delivery` | detailed specification | the four programs, their transactions, locks, aborts; the channel as an at-least-once, unordered set |
| `DeliveryProofs` | proofs | inductive invariants, all safety properties of `Delivery`, `DeliveriesPage`, `EventLog` and `Pipeline`; `Delivery` implements `DeliveryLifecycle`, `Pipeline` implements `Delivery` and `EventLog` |
| `EventLog` | detailed specification | the channel itself: WAL, slot, Debezium, topic, group, consumers, the box |
| `Pipeline` | composition | `Delivery` over the channel of `EventLog`, instead of the set of events |
| `DeliveriesPage` | composition | `Delivery` with the page that polls its rows and retries them |
| `Forms` | detailed specification | drafts edited, published and deleted by concurrent requests; visitors who read, are validated and submit |
| `FormsProofs` | proofs | inductive invariants, all properties of `Forms` and `PublicPage`, refinement of `Forms` |
| `Answers` | operators | the two validations of answers, the page's and the API's |
| `PublicPage` | composition | `Forms` and `Answers` with the page that a visitor fills in, and with other clients |
| `Endpoints` | detailed specification | endpoints of a tenant: concurrent creates, removal against the fan-out, rotation against the senders' caches |
| `EndpointsProofs` | proofs | inductive invariant, all properties of `Endpoints` |
| `Tenancy` | detailed specification | the guard, provisioning, `withTenant` on pooled connections, the policies of row-level security |
| `TenancyProofs` | proofs | inductive invariant, all safety properties of `Tenancy` |
| `Console` | detailed specification | the endpoints page and the dashboard: lists, dialogs, switches, secrets, late answers |
| `ConsoleProofs` | proofs | inductive invariant, all properties of `Console` |
| `ScaleToZero` | detailed specification | activity stamp, idle check, wake function, health gate, the box |
| `ScaleToZeroProofs` | proofs | types; every switching off is justified |
| `WebAuth` | detailed specification | the tabs of one browser: signing in with PKCE, the stored tokens, refresh and repeat, signing out |
| `WebAuthProofs` | proofs | inductive invariant, all safety properties of `WebAuth` |
| `FormBuilder` | detailed specification | the page that edits a draft: editor, saves, publish dialog, cached copy and refetches, answers late or lost |
| `FormBuilderProofs` | proofs | inductive invariant, all safety properties of `FormBuilder` |
| `MCDelivery`, `MCDeliveriesPage`, `MCPipeline`, `MCPublicPage`, `MCEndpoints`, `MCTenancy`, `MCScaleToZero`, `MCWebAuth`, `MCFormBuilder`, `MCConsole` | TLC instances | symmetry sets, the lists and bodies of `PublicPage` |

The modules meet where the components do. `DeliveriesPage` extends `Delivery` and `PublicPage` extends
`Forms`: their actions are those of the core, each with what it does to the page, and one of the core's
operators (visitors) is the page's. `Delivery` implements `DeliveryLifecycle` under an `INSTANCE` that maps the three
abstract variables. The others meet in what one shows and another takes for granted. A submission is
validated in `Forms`, fanned out in `Endpoints`, and its deliveries live in `Delivery`; `Endpoints` shows what
`Delivery` takes for granted about endpoints; `Tenancy` shows that a transaction of any of them reaches its own tenant's
rows and ends; `EventLog` is what `Delivery` abstracts as a set of
events, and `Pipeline` is the two together; the box that `EventLog` replaces is switched off in `ScaleToZero`. `FormBuilder` and `Console` are the other
ends of the requests that `Forms` and `Endpoints` interleave, and a tab that `WebAuth` let in shows them.

Operators whose name begins with `Faulty` stand before the definition they
distort (a dropped guard, an off-by-one, a swallowed error). No specification
refers to them; substituting one for its original shows that a property notices.

### Delivery

State and code:

| Variable | In the code |
|---|---|
| `status`, `attemptCount`, `eventNo`, `nextRetryAt` | columns of `deliveries`; `eventNo` numbers the successive random `event_id`s, `nextRetryAt` is null, in the future, or reached |
| `outbox` | committed inserts into `outbox`, hence what the channel may deliver |
| `attempts`, `processed` | `delivery_attempts`, `processed_events` |
| `lock` | the holder of the row lock |
| `stage`, `ev`, `attemptNo`, `result` | a worker's place in `eachMessage`/`run()` and its local variables |
| `acked` | events whose offset was committed |
| `batch`, `retrying` | rows that an open tick or an open manual retry has read |
| `sends`, `lostSends`, `aborts` | history: requests made, those whose transaction then aborted, failures so far |

A transaction is cut where another one can get between: each **lock** is an
action (`Claim` for the key of `processed_events`, `LockRow`, `ClaimDue`,
`LockFailed`), the HTTP request is one (`Send`), and all **writes** appear in the
commit (`Commit`, `CommitTick`, `CommitRetry`), because READ COMMITTED hides
them until then. `WorkerAborts`, `TickAborts` and `RetryAborts` are every query
error and process death: the rows stay as they were and the locks go.
`PublicService.submit` is one action: nobody can see or lock rows that are not
committed.

`Claim` waits while another worker has inserted the same id and not ended, as an
`INSERT ... ON CONFLICT DO NOTHING` does, and then finds a duplicate or not.
That wait, and not the row lock, is what stops the second of two workers that
received the same event.

Left out, and why it does not matter to the properties: the order in which a
tick takes due rows (any order is allowed, the code's among them); the two
"orphan" branches of `run()` (a delivery is never deleted before its event and its
endpoint is held by a foreign key, so no state reaches them: `Endpoints!NoOrphanDelivery`); what the payload
holds.

Assumed: when a worker dies, its transaction ends. A half-open connection that
keeps a lock on the server after the process has gone is not modelled.

### DeliveryLifecycle and the refinement

The abstract module has three variables (status, attempts counted, attempts
recorded) and four actions: `Create`, `Attempt`, `Reschedule`, `Retry`. `Delivery`
implements it with the identity mapping on the three variables. Every step of
`Delivery` that moves an event, takes a lock, sends or aborts is a stutter there;
`Commit` is `Attempt`, `CommitTick` is `Reschedule`, `CommitRetry` is `Retry`. The
point is that `Attempt` is enabled only on a pending row and counts from
what the row says *at that moment*, while `Commit` uses what the worker
read before the HTTP request.

### DeliveriesPage

| Variable | In the code |
|---|---|
| `cache`, `invalid`, `fetch` | the query `["deliveries", ...]`: its rows, whether it was invalidated, and its fetch: not answered yet (`Pending`) or answered and on its way |
| `request` | the retry the page waits for, on the way or answered |
| `confirmed` | history: the event that a delivery had when "Retry queued" was shown |

`ServeList` reads the rows of all deliveries at one moment, as the one SELECT of `list` does. `ServeRetry` is
`LockFailed` and `CommitRetry` of the core, taken by the operator `Ours`; `RefuseRetry` is the 409, after waiting for the row
lock; `LoseRetry` is an abort, or a lost request or answer. `Poll` may come at any time: 5 s are nothing that the
other programs wait for. `Invalidate` is what TanStack Query makes of `invalidateQueries`: a poll that is under way is
cancelled, and its answer ignored, which is what `QueuedRetryIsShown` hangs on.

Left out: the filters (another query each), the limit of 200 rows, a page that is hidden (polls pause), the
timeline of attempts of an expanded row, which is cached for 30 s and not fetched again while it is open.

### EventLog

Events are numbered in commit order, so the WAL is `1..produced`. `slot` is the
confirmed position of `eventform_outbox`, `offsetFile` Debezium's `offsets.dat`,
`reader` the running connector, `topic` the single partition, `committed` the
group's offset, `owner`, `position` and `consumer` the consumers, `handled` the events `process()` has returned for. What
handling an event does is left to `Pipeline`.

`StartConnector` follows `snapshot.mode: no_data` and the two places a position
can come from. `Assign` follows `fromBeginning: false`: without a committed
offset a consumer starts at the end of the topic. `CommitOffset` of a worker that
has lost the partition is refused. `BoxReplaced` deletes everything on the disk.
These actions are what the configuration asks of programs that are not in the
repository. `Handle`, `HandlingFails`, `StartConsumer` and `CommitOffset` are
`kafka-consumer.service.ts`.

Three history variables name the only ways an event may be given up:
`unseen` (committed before the slot was first created), `skipped` (published before
the first consumer of a fresh box looked up its offset) and `lost` (published, confirmed
to the slot, not processed, and gone with the box). `NothingElseIsLost` says there
is no fourth.

Not modelled: the topic's 24 h retention, and what Neon does with WAL of a slot that
is never confirmed.

### Pipeline

The joint state is that of `Delivery` and of `EventLog`, and `wal`: which event each number of the log stands for.

| Step of the pipeline | Core | Channel |
|---|---|---|
| `Emit` | `Submit`, `CommitTick`, `CommitRetry` | `Produce`: one transaction, one stretch of the WAL, its events in any order |
| `TakeEntry` | `Receive` of the entry's event | `Fetch`; a malformed entry concerns the channel only |
| `Proceed` | `Claim`, `LockRow`, `Send` | |
| `Return` | `Commit`, or `Claim` of a duplicate | `Handle`: `process()` returns |
| `Acknowledge` | `Ack` | `CommitOffset` |
| `Break` | `WorkerAborts`, if in a transaction or about to acknowledge | `HandlingFails`, `ConsumerDies` |
| `Join`, `Channel` | | a consumer starts or gets the partition; Debezium; malformed messages |
| `Prepare` | `RetryFallsDue`, `ClaimDue`, `LockFailed`, aborts of ticks and retries | |
| `ReplaceBox` | | `BoxReplaced`, once the processes on the box have ended |

What `Delivery` takes for granted, that an event may come again, in any order, to any worker, is here what
the consumers do: an entry comes again after a failure, after the death of a worker, or because a rebalance gave the
partition away while its handler was running; entries come out of order after a box was replaced. And what it assumes by its
strong fairness, that an event is received in the end, is here what may fail: `SettledUnlessGivenUp` names when.

A box that is terminated takes a transaction in progress with it: here the processes die first (`Break`, `TickAborts`,
`RetryAborts`), each death counted by the bounds, and then `ReplaceBox` may come, with steps of others in between.

### Forms

| Variable | In the code |
|---|---|
| `status`, `fields` | rows of `forms` and `form_fields`; a field row is the number of the request that inserted it, so two numbers in one form are a mixture of two lists |
| `lock` | holder of the row lock taken by `findByIdForUpdate` |
| `step`, `target`, `seen`, `save` | an open transaction of `replaceFields`, `publish` or `remove`, what its DELETE found, what it will insert |
| `stage`, `form`, `shown`, `validated` | a visitor: between the two queries of `findPublishedFormBySlug` when the page loads, the same when it posts, then with valid answers |
| `submissions` | committed rows, with what was shown and validated |

`LockDraft` is the first query of the three services, with both early returns; the other
queries of a transaction are actions, its writes appear with its last one. The DELETE
and the INSERT of `replaceFields` are kept apart because the DELETE removes what it *sees*: without
the lock two saves would both survive, which is what `FieldsAreOneList` is about. Anonymous
reads see what the policies in `0001_rls.sql` let them see at the moment of each query.
`InsertSubmission` waits for the row lock, as the foreign key's KEY SHARE lock does.

What makes answers valid is left open (`Validate` may accept or refuse); `PublicPage` decides it. `PostFails` is a
failing query or a dying process, after which nothing is inserted; `Leave` is a visitor who goes away, or a page that
answers "Form not found" to whatever went wrong.

Left out: `updateTitle` (one UPDATE of a column nothing else reads, at any time).

### Answers and PublicPage

`Answers` has a text as what the rules tell apart: empty, white space only, an option, too long, any other. `Fits` is
`validateAnswers` (`answers.ts`), `PageAccepts` is `validate` of `public-form.tsx`. They are not the same: the page refuses
white space where the API does not, and the API refuses texts that the page does not count (section 6).

| Variable | In the code |
|---|---|
| `page`, `submitting` | what `PublicFormPage` shows; `submitting` of `FormView` |
| `body`, `reply`, `posts` | the request under way: its answers, whether it is awaited, given up by the page (`unheard`), or answered |
| `saved`, `made`, `thanked`, `unheard` | history: answers that were saved; per visitor, rows inserted, thanks shown, rows whose answer never came |

The page (`Submit`) sends answers that it accepts for the fields it was loaded with; other clients (`PostByHand`) send what
they like. Every step of the API is the one of `Forms` for that visitor, with what it does to the request. `Refuse` is the
throttler (429) or a request lost on its way. Lists of fields are named by what is in them (`Content`), since this
module looks inside.

Left out: which message is shown next to which field; how the throttler counts.

### Endpoints

| Variable | In the code |
|---|---|
| `live`, `removed`, `active`, `secret` | rows of `endpoints`, their `active`, which secret is in `secret_ciphertext` |
| `creating` | creates that have counted and not inserted |
| `open`, `listed`, `todo`, `made` | transactions of `PublicService.submit` in their loop |
| `submissions` | committed fan-outs |
| `stage`, `endpoint`, `cipher`, `used`, `cache` | a worker between `SELECT ... FROM endpoints` and the end of `send()`, and `WebhookSender.cache` |

`Count` and `Insert` are two queries of one READ COMMITTED transaction that locks
nothing, so others get between. `InsertDelivery` fails when the endpoint is gone and takes
the whole submission with it; `Remove` waits for uncommitted deliveries and is refused by
committed ones. `Switch` and `Rotate` are single UPDATEs.

Left out: names and urls (one UPDATE, read by nothing but the sender's next query); what the receiver did when the answer was lost.

### Tenancy

| Variable | In the code |
|---|---|
| `subject`, `name` | rows of `tenants`; a name is the subject's, or one that the user chose |
| `owner`, `published` | rows of `forms`, which stand for those of every table with a `tenant_id` |
| `holder`, `inTx`, `setting` | a slot of the pool: who has checked it out, whether a transaction is open, `app.tenant_id` (unset, `''`, or a tenant) |
| `stage`, `caller`, `tenant`, `write` | a request: its place in the guard and in `withTenant`, its subject, `req.tenant`, what it wrote and has not committed |

Every query is an action. The guard's two go through `pool.query`, which takes any free connection and gives it back; a
transaction keeps one from `Connect` to `Commit`, `Rollback` or `RollbackFails`. `set_config(..., true)` ends with the transaction
and leaves `''` behind, not "unset": the policies of `0001_rls.sql` compare after `NULLIF(..., '')`, and `Anonymous` is that
comparison. `Readable` and `Writable` are the policies; no query of the handlers names a tenant, so these are all that
keeps tenants apart. `Provision` is `INSERT ... ON CONFLICT (cognito_sub) DO UPDATE`, which writes the subject again and
leaves the name.

`StepFails` is any throwing query, `CommitUnanswered` a commit whose answer is lost, `RollbackFails` the `release(err)` that
destroys a connection, `ProcessDies` everything else; an idle connection that the server closes is enough for that, since
nobody listens to the pool's `error` event.

Left out: that a token is verified; other tables with a `tenant_id`, whose policies are the same without the public
one; the worker and the migrations, whose role bypasses the policies.

### ScaleToZero

| Variable | In the code |
|---|---|
| `desired` | `DesiredCapacity` of the auto scaling group |
| `box` | the instance: gone, booting, or `/health` answers |
| `stamp`, `writing` | the activity file as `idle-check.sh` sees it; `writeFile` that nobody waits for |
| `check` | `idle-check.sh` between reading the stamp and `set-desired-capacity` |
| `gate` | `status` of `ApiHealthGate` in a visitor's tab |
| `retry` | the await of `handleRetry` ("Retry now"): its probe is asked, or has missed the API and is not handled yet |
| `token` | the stored access token |
| `wake` | how many calls of the wake function a browser has on their way, and how many of them have read a capacity of 0 |
| `quiet`, `excused`, `failures` | history and bounds |

Time is abstract. `QuietTime` is half an hour without a real request; the health checks of
docker compose go on meanwhile, and would keep the stamp fresh if the interceptor counted
them. `excused` remembers a request that the check could not see: it came after the stamp
was read, or its stamp was not (yet) written. The gate is as in the code: one probe on
mount, one wake on entering "down", and polls that never wake again. "Retry now" is another matter: `handleRetry` sets the
status after its await whatever it is by then (`api-health-gate.tsx:74`), so when a poll has opened the gate meanwhile, a late
failed answer (`RetryFails`) puts it back to "down": the page the visitor was on is gone and the wake function is called again.
That is why a browser may have several calls on their way. `WakeRecovers` says that the visitor gets in all the same.

Left out: `QuietTime` does not pass while a tab waits for a poll that is due or for the answer to a probe (8 s and 5 s
against 30 min), so a suspended laptop is not modelled; an instance that is still answering while
the group is already terminating it (`Terminate` is one step); instances that the deploy workflow refreshes.

### WebAuth

| Variable | In the code |
|---|---|
| `access`, `refresh` | `eventform.accessToken`, `eventform.refreshToken` in localStorage, as the user they are of |
| `begun`, `attempts` | the states and verifiers that `signIn` has drawn, and for each who consented at Cognito and how often its code was sent to the token endpoint |
| `stored` | `eventform.oauthState` and `eventform.pkceVerifier` in a tab's sessionStorage |
| `place` | "app" (behind `RequireAuth`), "login" (a page that needs no session), "cognito", "exchanging" and "naming" (the two awaits of `handleCallback`), "leaving" (after `signOut`, before the document is unloaded) |
| `exchange` | the code a callback page waits for tokens for |
| `sub`, `cache` | `AuthProvider`'s state; whose data is in the tab's query cache |
| `req` | calls of `request()`: sent, refreshing after a 401, sent again |
| `disturbed`, `session`, `overtaken` | history: the tabs whose document has met tokens of two users; who signed in last; whether a refresh for somebody else was under way at that moment |

The four `await`s of the code are where others get between: `exchangeCode`, `updateMe`, the fetch and
`refreshTokens`. What happens between two of them (store the tokens, `completeSignIn`, navigate) is one
step. localStorage is shared, so a sign-out or sign-in in one tab happens between any two steps of another, which
nothing tells it of. A document change (`Unload`) forgets React state, query cache and calls under way; a
navigation by the router (`Navigate`) forgets nothing. `Revisit` is a callback address loaded again, from
the history or in another tab. Access tokens expire at any time, so any call may be answered with 401.

`OneUserPerDocument` compares whose data a document has and whose it has asked for (`Holds`), wherever the document came from: a
callback page that was refused or whose exchange failed can go on to the application and is held to it too. Two things come
upon a document from outside, and `disturbed` remembers which documents they reach. Another tab signs in as somebody else while
this document has something of the user before. Or a refresh for a session that is over is answered and `storeTokens` keeps its access token
(`api.ts:83`); if somebody else has signed in by then, the next call of every document is made with the former user's token (`api.ts:44`),
also in the new user's own tab, until a refresh or a sign-in makes the tokens one user's again. The code does mix users then; the property names these cases and says there is no other.

Left out: the development mode, where a handle stands for the tokens; the stored e-mail address;
duplicating a tab, which copies sessionStorage; that Cognito remembers a session and may not ask again.

### FormBuilder

| Variable | In the code |
|---|---|
| `form` | the server's row and list of fields, as `Forms` keeps them |
| `cache`, `fetch` | the query `["form", id]` and its fetch: begun, between the two queries of `getWithFields`, read |
| `page`, `fields`, `lastSaved`, `dialog`, `publicUrl` | the page's state; `page` is "away", "loading" (no copy yet) or "open" (`initialized`) |
| `requests` | saves and publications: on the way, applied or refused, and who still listens to the answer (the page, the cache only, nobody) |
| `sent`, `failures`, `misled` | bounds; history: has something happened that makes the page take for saved what the server does not have |

A list is a model value, and `Tidy` is what a save sends of it, `Valid` what the page accepts; the API may refuse
a list that the page accepts (`Verdicts`). A request is handled in one step, since `Forms` shows that
its transaction is atomic. `Fetched`, `SaveAnswered`, `PublishAnswered`, `Refused` and `Breaks` are the callbacks,
in whatever order answers come. `ChangeElsewhere` is another tab or device.

`misled` is set for exactly the reasons that the code cannot know of: the copy the page was initialized with was
old, somebody else changed the form, a request of an earlier visit was applied later, or a save was applied and
its answer lost. `SavedIsWhatTheServerHas` says there is no fifth.

What the model makes visible and no document contradicts: edits typed while a save is in flight
are overwritten by its `onSuccess`; a page opened again on a stale cached copy shows an
old list as saved, and its Publish publishes what the server has; options stay editable on a published form, and go nowhere.

Left out: the title editor (`form-builder.tsx:383-455`), which has its own state and request.

### Console

| Variable | In the code |
|---|---|
| `live`, `gone`, `active`, `version` | the server's rows, their switches, and how often a secret was rotated |
| `route`, `dialog`, `secret` | the page shown, its open dialog, what the secret dialog shows |
| `cache`, `stale`, `fetch` | the queries `["endpoints"]` and `["forms"]`, as in `DeliveriesPage` |
| `req` | mutations under way: what was asked, whether it was answered, and whether the dialog or the page it came from is still there |
| `asked`, `clicked`, `excused` | history: the endpoints whose secrets were asked for since none was awaited, or created for such an ask; how a switch was clicked last; what the page cannot know of which row, and why |

The callbacks of a mutation run when its answer comes, whether or not its dialog is still open: `Close` closes the dialog of
that kind, whichever row it is for by then and whichever request was sent from it, and `FormCreated` navigates away from wherever the user is. What they set on a page
that was left has no effect; what they invalidate has. `Refetch` and `Overtaken` are TanStack Query's: an invalidation cancels
a fetch under way, except one that loads the list for the first time or one of a page that is not shown. `Refocus` is its
refetch when the user comes back to the window, which `App.tsx:24-28` leaves on.

The secret dialog does not say whose secret it shows. If two are asked for at once (reveal one, reveal another) the one
answered last is shown, and nothing tells the user which. So `ShownIsWhatWasAsked` cannot promise the one asked for last: it says that the
secret shown is of one of the endpoints asked for since none was awaited, which is the last one if no two asks overlap, and that it is the secret in
use. The second half has three exceptions (`excused`): another tab changed the endpoint; a rotation of it was under way when its page
was left; a rotation overlapped another ask for the same endpoint.

Left out: the texts typed, messages, the endpoint's name and url.

## 3. Runs

| Run | Instance | Shows |
|---|---|---|
| `delivery_pair` | 2 deliveries, 2 workers, 2 ticks, 2 operators, budget 2, LIMIT 1, 4 events each (two full budgets), 1 abort; 1.7 M states | events and rows stay in step; attempt, tick and manual retry exclude each other; requests are accounted for; history explains the row; delivered is final; the life cycle |
| `deliveries_page` | 1 delivery, 1 worker, 1 tick, this page and another operator, budget 2, 1 failure, fairness; 0.1 M states | every delivery settles and the fair life cycle, with the page in the loop; a queued retry is not shown as failed again; a retry is answered; what is delivered comes to be shown |
| `pipeline` | 1 delivery, 2 workers, 1 tick, budget 2 (so 2 events), 1 failure, 1 abort, 1 new box, 1 malformed message, fairness; 1.2 M states | no delivery is stranded in a fourth way; the offset never overtakes the ledger; every delivery settles whose event is not given up |
| `pipeline_at_least_once` | 1 delivery, 1 worker, no failure at all | **violated**, see 6 |
| `public_page` | 1 form, 2 owners' requests at once, a page and another client, 2 lists (a required text; an optional choice and a required text), 2 posts each, 1 abort, 1 loss; 5.8 M states | saves never mix, published forms are frozen, submissions fit what they were validated against and the form as it is, thanks are for what was saved, the page is no laxer than the API |
| `endpoints` | 4 ids, cap 2, 2 creates and 2 fan-outs at once, 1 worker, 1 rotation per secret; 0.8 M states | no orphans, whole fan-outs, no rotated secret comes back, how far the cap is passed |
| `tenancy` | 2 subjects, 2 ids, 2 requests at once, 2 connections, 1 form, 1 failure, fairness; 0.3 M states | one tenant per subject, connections come back clean, rows are scoped, a chosen name stays, every request ends |
| `scale` | 2 visitors with 2 calls of the wake function each, 2 failures of any kind, fairness; 0.5 M states | stops are justified, an idle box stops, a wake recovers |
| `scale_polling` | 1 visitor, no failure | **violated**, see 6 |
| `web_auth` | 2 tabs, 2 users, 2 calls under way, 2 attempts to sign in, fairness; 0.3 M states | tokens follow the session, no document mixes users but in two named ways, codes are sent once, nothing hangs |
| `form_builder` | 1 tab, 2 lists, 2 requests, 1 failure, any changes elsewhere, fairness; 1.6 M states | what is shown as saved is saved, refetches take no edit away, a publication comes to be shown |
| `console` | 2 endpoints, 1 form that cannot be deleted, 2 requests at once, 1 rotation, 3 links followed or returns to the window, 1 loss or change elsewhere; 9.1 M states | a list that is not stale is true, the secret shown is one that was asked for and in use, the last click wins |

Why these bounds are enough. Two workers are what a duplicate needs, two ticks
what an overlap needs; a third agent of a kind only waits for the same lock. Two
deliveries with LIMIT 1 make a tick leave a due row to the other one. The budget is
3 in the code; with 2 there is a first attempt, a last one and a retry between them, and the theorems
of section 5 hold for every budget. `MaxEvents` stops manual retries once
a second full budget would not fit: with 4 and a budget of 2 one manual
retry and the whole second round are explored. One abort may hit any point of any
transaction.
For `Pipeline`, two events are needed for an offset to pass one while another waits, and two workers for one to be inside
`eachMessage` while the other has its partition; the death of a worker and an aborted transaction are two failures. Manual
retries do not fit under two events; to the channel they are one more transaction that inserts one, as a tick is.

For `PublicPage`, two saves and a publish (or a removal) of one draft at once are the largest race the lock of a form
has to order, and the two lists differ in label, type and requiredness, so that answers to one fit the other only by chance; two
posts are a first and one sent again. One loss may be any request or answer. For `Endpoints`, a cap of 2 with two creates is reached, passed by one, and not by two, which
needs four ids to be seen. One rotation makes the cached secret, the ciphertext read and the
row differ; workers share no cache, so one is enough. For `ScaleToZero`, a second visitor wakes or uses the box
while the first is somewhere else; a third would only repeat one of them. Two calls of the wake function a browser (`MaxCalls`) are that of the
first time down and that of a late "Retry now". For `WebAuth`, two tabs are
what it takes for one not to know what the other did, two users what it takes to mix them, two calls for one refresh
to meet another, and two attempts for a callback page to be an old one. For `FormBuilder`, two requests
in flight are a save and what follows it before its answer. For `Tenancy`, two requests on two connections meet in every order, one waits when
the other has both a connection and a query to make, and the second to use a connection finds what the first left; with one form, tenants
are owner and stranger in turn. For `Console`, two requests are what it takes for answers to overtake each other, and three moves (`MaxMoves`) for a page to be left, reopened and its list fetched again. For `DeliveriesPage`, one delivery is
enough since a row is polled with all others and nothing relates two; the second operator is another tab.

The theorems of section 5 remove the bounds for everything they cover. Their inductive invariants
hold on these instances too; being proved, they are not among the properties of the runs.

Deadlock is checked in every run but those of `Pipeline`, `PublicPage` and `Console`. For `Delivery` there is always another duplicate to receive,
or a submission to come, so what the check finds is that no lock cycle stops everyone. `Pipeline`
comes to rest when all events are produced and handled, and `PublicPage` and `Console` when the bounds on what people do are used up; their runs say so.

Symmetry is used only in runs without liveness properties.

## 4. Fairness

`Delivery!FairSpec`:

* weak fairness on `Claim`, `LockRow`, `Send`, `Commit`, `Ack`, `CommitTick`,
  `CommitRetry`: a running transaction goes on; each query returns and `send`
  ends after 10 s at the latest (`AbortSignal.timeout`);
* weak fairness on `ClaimDue`: `setInterval` keeps calling `tick`;
* weak fairness on `RetryFallsDue`: time passes;
* strong fairness on receiving each unacknowledged event: the group resumes at the
  committed offset, so an event not acknowledged is fetched again, however many
  duplicates of others come first. `Pipeline` shows where the deployment does *not* give this
  (section 6), so `EverySubmissionSettles` is a statement about a box that has
  started and stays.

Nothing is owed for `Submit`, `LockFailed` (a person decides) or aborts, which are
bounded: a transaction that fails for ever settles nothing, in the code too.

`Pipeline!PipeFairSpec`: the same for transactions, ticks and time. In place of the strong fairness on receiving: the containers restart
(`restart: unless-stopped`), the connector streams, the coordinator assigns a free partition, kafkajs hands on the next entry, a handler that runs
returns and its offset is committed; all weak. Failures are bounded and not owed. Flushing and confirming are not owed either, nor is
anything of the box.

`ScaleToZero!FairSpec`: AWS launches, boots and terminates what the desired capacity asks for;
`writeFile` ends; the timer runs the check every five minutes (`eventform-idle.timer`) and a check that has
decided goes on; in an open tab the probe is answered and polls go on; a call that has reached the
wake function runs to its end. Nothing is owed by visitors, nor how or when a click on "Retry now" is answered, and time need not pass. Failures are bounded.
`WakeRecovers` needs the bound on crashes only in the sense that a box that
crashes for ever never answers.

`WebAuth!FairSpec`: a call and an exchange of a code get an answer or fail, as a fetch does in a browser. Whether
the answer is 200 or 401 is open, as are people and tabs.

`FormBuilder!FairSpec`: a fetch that has begun is read and answered, and fails when the form is gone. Requests, people
and other devices owe nothing; `PublishedIsShown` asks only for fetches.

`DeliveriesPage!FairPageSpec` adds to `Delivery`'s: the page goes on polling, its requests are answered and the answers handled.
`ServeRetry` is owed strongly, because the row lock it waits for is taken again and again by ticks and workers, and Postgres
serves those who wait for a row in their order.

`Tenancy!FairSpec`: the queries of a transaction return (weak fairness), and whoever waits for a connection gets one although
others take it in between (strong fairness): node-postgres keeps those who wait in a queue. Nobody is owed a request.

`Forms`, `PublicPage`, `Endpoints` and `Console` state safety only: their transactions end or
abort, and nothing in them waits for anything but a lock.

## 5. What is proved

### Delivery

`DeliveryProofs` proves, for every set of deliveries, workers, ticks and operators
and every value of the bounds:

| Theorem | Statement |
|---|---|
| `InductiveInvariant` | `Spec => []IInv` |
| `TypeCorrectness` | `Spec => []TypeOK` |
| `EventsAreAwaited` | `Spec => []UnprocessedEventIsAwaited` |
| `PendingIsCarried` | `Spec => []PendingDeliveryIsCarried` |
| `AckAfterProcessing` | `Spec => []AckedIsProcessed` |
| `MutualExclusion` | `Spec => []OneActorPerDelivery` |
| `DeliveredStaysDelivered` | `Spec => DeliveredIsFinal` |
| `HistoryExplains` | `Spec => []HistoryExplainsRow` |
| `RequestsAreExplained` | `Spec => []SendsAreAccountedFor` |
| `Refinement` | `Spec => ImplementsLifecycle` |
| `PageRefinement` | `PageSpec => ImplementsLifecycle` |
| `PageKeepsUp` | `PageSpec => []QueuedRetryIsShown` |

Assumptions: the three `ASSUME`s of `Delivery` (a budget of at least one,
natural bounds, agents of different kinds are different); for the page that its operator is one of them.

Why an invariant of its own. `UnprocessedEventIsAwaited` is not inductive:
nothing in it says that a worker about to commit holds the lock, or that the row is still
what it read before the request. `IInv` adds

* `WorkersAreConsistent`: what each stage guarantees (the event is in the outbox; from
  the claim on it is unprocessed; from the row lock on the lock is held and `attemptNo`
  is still the row's counter plus one);
* `ClaimsAreExclusive`: two workers never both hold a claim on one event;
* `ReadRowsAreLocked`: rows that a tick or a manual retry has read are locked by it and
  unchanged;
* `RowsAreConsistent`: a row not yet created has its defaults, attempts left are within
  the budget, events are numbered up to the row's own.

The argument. An unprocessed event implies a pending row, and a tick or a manual retry
holds a lock on a row that is not pending, so neither can create a second
event. A worker's `Commit` marks its event processed and takes the row out of pending
in one step, so the event and the state it stands for go together. A result
"stale" never occurs (`WorkersAreConsistent` has only "ok" and "failed" in stage
"write"): the check in `run()` is a second line of defence that the other guards make
unreachable.

The proof has one lemma per action (`SubmitInv` ... `RetryAbortsInv`) with one step per
conjunct that the action can disturb. Three lemmas are shared: `RowFactsKept` (an action that leaves
rows, outbox and ledger alone keeps what is said of them), `EventIdentity` (two
unprocessed events of a delivery are the same) and `WriterFacts` (what a worker about to
commit knows).

Three theorems need something more than `IInv`.

* `HistoryExplains` is proved of the *abstract* steps (`HistoryStep`), which are all that changes a row's status, counter or history
  (`LifecycleStep`, the heart of the refinement). `HistoryExplainsRow` is too weak by itself: it does not say where the history of a
  *pending* row goes on. `HistoryIsOpen` says it: after a failure, at the number that follows, or at one once a budget is used up.
* `RequestsAreExplained` counts. The lock of a row leaves room for one open send (`OneOpenSend`), so `Send`, `Commit` and `WorkerAborts`
  move a request from one account to the next; that `processed` is finite (`ProcessedIsFinite`) makes its cardinality a number.
* `PageKeepsUp` rests on `ConfirmedInv`: event numbers only grow (`EventNumbersGrow`), so a list read after a retry was committed is
  new enough, and one read before it is thrown away by `Invalidate`. To the core a page is one more operator whose requests may
  fail before they reach it (`PageStep`).

### EventLog

`DeliveryProofs`, for any members of the group, any number of events, failures and boxes: `LogInductiveInvariant`, `LogTypeCorrectness`,
`OffsetPassesNothing` and `NoFourthLoss`, the last two for `CommittedIsHandled` and `NothingElseIsLost`.

Neither property is inductive. `NothingElseIsLost` speaks of the outcome; what keeps it true is where everybody stands.
`PositionsAreOrdered`: the slot is never ahead of the offset file, nor that of the reader. A new box, which has neither file nor topic,
therefore resumes where nothing unconfirmed has been passed. `PassedIsPublished`: what the connector has passed is in the topic or was given up with a topic.
`OffsetsAreHandled`: the committed offset, and the place of the member that holds the partition, have passed only entries that are processed or
counted as skipped. A member that has lost the partition commits nothing.
Assumptions: nobody's name is not a worker's, bounds are natural.

### Pipeline

`DeliveryProofs`, for all constants of both: `PipelineImplementsDelivery`, `PipelineImplementsEventLog`, `PipelineInvariant`,
`NoneIsStrandedOtherwise` and `OffsetIsBehindLedger`. Assumption: the members of the group are the workers.

`PipelineImplementsDelivery` is what justifies the set of events in `Delivery`: over the real channel the core takes no step
that `Delivery` does not have, so each of its safety properties, and the life cycle, hold of the whole. With
`PipelineImplementsEventLog` the invariants of both are at hand, and what is left is to tie them together:

* `WalIsOutbox`: the WAL has the events of the outbox, each once, so that numbers and events are the same thing;
* `HandledIsProcessed`: `process()` has returned for exactly the events in `processed_events`;
* `WorkersAreConsumers`: a worker is in a transaction for the entry its consumer is at, and has one to acknowledge when `process()` has returned.

`NoneIsStrandedOtherwise` then joins two theorems that say nothing of each other: a pending delivery has an unprocessed event in the outbox
(`PendingIsCarried`), and an event that was not handled is still to come or one of three kinds (`NoFourthLoss`).

### Forms

`FormsProofs`, for any sets of forms, requests and visitors and any bounds: `InductiveInvariant`,
`TypeCorrectness`, `OneList`, `PublishedWithFields`, `SubmissionsFit` and `PublishedStaysFrozen`, i.e. every
property of the module; and of the public page over it `PageImplementsForms`, `PageInvariant`, `ThanksAreForSaved`, `AnswersFit`
and `PageIsAsStrict`. Assumptions: `Free` is nobody's name, bounds are natural; for the page,
no list that is saved is empty or has a label twice, and those who post past the page are among the visitors.

`IInv` adds what the readers know. `EditorsHoldDrafts`: whoever is between its
lock and its commit holds the lock of a *draft*, and what it has read of the
fields is still so. `VisitorsAreCurrent`: what a visitor has read of a published form is still
so. The first needs no argument beyond the lock. The second is where the lock is not:
a visitor's five queries are safe because the only steps that change a form require
a draft, and nothing leads back from published (lemma `PublicFactsKept`). So if unpublishing
were added, the two-query reads and the validation outside the transaction would no longer
be safe, and this is the invariant that would break.

The page. `PageImplementsForms` is the refinement: whatever the page, its requests and other clients do is a step of `Forms` or
none of the forms' business; so everything proved of `Forms` holds with the page. `PageIInv` adds how a request gets its answers
to the row: what was sent was accepted by the page's rules (`SentAnswersAreAccepted`), what the API let through fits the fields
read (`ValidAnswersFit`), which are the fields there are (`VisitorsAreCurrent`), and a saved row is of a published form (`SavedAreToPublished`).
`RequestsAreConsistent` ties the page's request to the visitor that serves it, which is where `ThanksAreAccountedFor` comes from.

### Endpoints

`EndpointsProofs`, for any ids, workers and submitters, any finite set of creators and any cap:
`InductiveInvariant`, `OvershootIsBounded`, `NoOrphans`, `WholeFanOut`, `SignaturesAreCurrent`.
Assumptions: the cap is at least one, `Creators` is finite, bounds are natural.

`RoomIsLeft` is the idea behind the bound on the overshoot: rows plus open creates never exceed the
cap less one plus the number of creators, because a count can succeed only below the cap.
`LoopsAreConsistent` ties what a fan-out listed to what it has made and has still to make. A
removal is refused by what is in `made` or committed, so neither ever refers to a row that is gone.

### Tenancy

`TenancyProofs`, for any subjects, ids, requests, connections and forms and any number of failures: `InductiveInvariant`,
`TypeCorrectness`, `SubjectsHaveOneTenant`, `PoolIsClean`, `TenantsAreIsolated` and `NamesAreKept`. Assumptions: the marks for
nobody and for "unset" and `''` are not names of anything; the bound is natural.

`TenantsAreIsolated` is about queries, and is not inductive: what a query reaches is what its connection's setting allows.
`ConnectionsAreConsistent` ties them together: a connection that is checked out is its request's only one, and
when the handler's queries run its setting is that request's tenant. `FreeConnectionsAreClean` has the other half, that whatever
comes back to the pool has lost its setting, on each of the ways back: commit, rollback, destroyed after a failed
rollback, closed while idle, process gone. `RequestsAreConsistent` says when a request has a tenant at all.
`RowsAreConsistent` is needed for `NamesAreKept`: only a row that exists has a chosen name, so that the INSERT of another first request meets
a conflict there and keeps it.

### ScaleToZero

`ScaleToZeroProofs`, for any visitors, calls of the wake function and failures: `InductiveInvariant`,
`TypeCorrectness` and `StopsAreAlwaysJustified`. `IInv` adds that an old stamp has a reason (nobody came, a write was lost, a
write is under way) and that a check that has decided had one.

### WebAuth

`WebAuthProofs`, for any tabs, users, calls under way and attempts: `InductiveInvariant`, `TokensFollowTheSession`,
`DocumentsDoNotMixUsers` and `NoCodeIsSentTwice`. Assumptions: `None` is nobody's name, the bound is natural.

`IInv` adds what the code relies on without saying it. `RefreshesAreOfSession`: a refresh under way is for the
session, unless it was overtaken; this is why the stored access token follows the session although `storeTokens` asks
nobody. `TokensFitDocuments`: what a document has that nothing disturbed is of the user the tokens are of, if there are any, so that the
token read for a new call, which is whatever is in storage then, is its user's. `SplitDisturbs`: while the two tokens are of two users, every
document is disturbed. `ExchangingIsFresh`: a callback page has no data and no calls, so it may become anybody's. `StoredIsUnspent`: an attempt is kept by one tab, and no longer once its code
was sent. The lemmas `MountInv`, `CallInv`, `EndInv`, `NewSessionInv` and `ReturnInv` each serve several actions.

### FormBuilder

`FormBuilderProofs`, for any lists and any bounds: `InductiveInvariant`, `TypeCorrectness`, `SavedListIsTrue`,
`DialogShowsSavedFields` and `NoFetchTakesAnEdit`.

`SavedIsWhatTheServerHas` speaks of moments when no answer is awaited, and is not inductive. `ServerListIsKnown` says at every moment
what the server's list can be: the one last saved, or that of a save the page still waits for. `PageWaitsForOneSave` is
why that is one list only: `canSave` is false while a save is pending. `SavesAreComplete` has what the answer will say.

### Console

`ConsoleProofs`, for any endpoints, forms, switched values and requests, and any bounds: `InductiveInvariant`,
`TypeCorrectness`, `ListsAreTrue`, `SecretsAreThoseAsked` and `LastClicksWin`, i.e. every property of the module.
Assumptions (`RowsAssumption`, `BoundAssumption`): no row is both an endpoint and a form; the null of the page is no
row, request or truth value, what cannot be deleted are rows; bounds are natural.

The properties compare what the page shows with what the server has. What makes them true is where every request stands:

* `IdsAreFresh`: an id that the server has not given out is in no list. `RowsAreKnown`: dialogs and requests are for ids it has given out, so
  none is for a row created later. `PageIsConsistent`, `RequestsAreConsistent`: a dialog is for a
  row of the page that is open; a request the page has not left was sent from it; for those it has left there is an excuse.
* `ListsAreExplained`: whatever a list says of a row is so, or will be put right by a request that is still under way and whose answer changes or
  refetches the list (`Owed`), or is excused by one of the events that `ListIsTrue` names. This is the invariant that `ListIsTrue`
  is the quiet case of, and most of the proof: every action that ends a request must hand on what the request owed.
* `SecretsAreExplained`: every secret that is awaited or shown was asked for, and is the one in use from the moment the server has read it.
  That holds because a rotation under way that has no excuse has its endpoint to itself (`AskExplained`): no other ask for it is awaited,
  and its secret is not the one shown.
* `SwitchesAreExplained`: a switch is disabled while its own change is under way, so there is one watched change of a row at most, to the
  value last clicked.

Shared lemmas: `RequestsCarried` (an action that only takes a free request, or moves one on, keeps what is said of the others) and `ExcusesStay`
(an excuse is not taken back).

### Only model-checked

Every liveness property and the fair refinement, which are out of the prover's reach. Every invariant and every action property
that a passing run checks is also a theorem.

## 6. Where code and documents disagree

1. **The first events of a fresh box** (`pipeline_at_least_once`). README.md:76 says
   "Delivery guarantee: at-least-once" and `kafka-consumer.service.ts:74-75` calls the
   uncommitted offset "the at-least-once contract". The consumer subscribes with
   `fromBeginning: false` (line 54), so in a group without a committed offset, which
   every fresh box has, it starts at the end of the topic. Debezium
   and the worker start independently; what Debezium publishes before the consumer
   has looked up its offset is never handed to `process()`. The delivery stays
   `pending`, the scheduler looks only at `retrying` rows, and manual retry
   answers 409.
2. **Recovery by polling** (`scale_polling`). `api.ts:57-58` and `api-health-gate.tsx:55` say
   a failed wake never blocks recovery, the poll loop drives it regardless. An access token that has
   expired, which is what a visitor has who comes back after the box went idle, is refused at the gateway;
   `requestWake` does not refresh it and ignores the 401; the gate does not call again, and
   polling `/health` starts nothing. The same follows from a wake that fails, or from a probe that times
   out while the box is still up and about to be switched off (which is why `WakeRecovers` excepts an idle
   check that has just then found the box idle, or is about to). Signing in again from that page, or a reload with a
   fresh token, does recover.

Two that no run of their own shows, since a property that holds says the same:

* **Termination.** The scale-to-zero design
  (`docs/superpowers/specs/2026-06-13-eventform-scale-to-zero-design.md:16-17`) and
  `idle-check.sh:4-5` say terminating the instance loses nothing. An event that Debezium
  has published and confirmed, and that no worker has processed (the worker
  is down, or `process()` keeps failing while the box is idle), exists only in the
  topic on that disk. `NothingElseIsLost` counts such events as `lost`, and `StrandedIsGivenUp` their deliveries as stranded.
* **The cap on endpoints.** `endpoints.service.ts:27` says "Cap endpoints at 20 per
  tenant." Creates that overlap all count fewer than 20 and all insert. The overshoot is
  less than the number of overlapping creates (`CapOvershootIsBounded`, theorem `OvershootIsBounded`).

Smaller ones:

* `wake/index.mjs:33-34` promises one e-mail per cold start, and two calls
  that both describe the group before either sets it both notify.
* A refresh that is answered after a sign-out
  (in another tab, or while a call of this one is under way) stores its access token again, so that the browser
  is signed in until that token expires (`WebAuth!SessionIsWhole` names the case). Answered after somebody else's sign-in it gives the
  new user's pages the former user's data (`WebAuth!OneUserPerDocument` names it).
* A failed "Retry now" that is answered after a poll has opened the gate closes it again, over whatever the visitor has
  begun to type (`ScaleToZero!RetryFails`).
* The page and the API disagree about answers (`Answers`): a required answer of white space only is refused by the page
  and accepted by the API, so it can be in `submissions`; a text of more than the maximum length passes the
  page and is refused by the API (`PageIsNoLaxer` names the case).
* An attempt whose answer is lost or later than 10 s counts as failed although the receiver may have accepted it, and the
  retry is a new event with a new id (`webhook-sender.service.ts:73`): a receiver that tells duplicates by the event id takes it for another.
* The title editor (`form-builder.tsx:383-455`) takes its value from the form once. A rename made elsewhere is undone by opening and leaving
  it, since its old value differs from the cached title; a title changed back before the refetch arrives is not sent,
  since it equals the cached one; what is typed after Enter, while the rename is awaited, stays on the screen unsaved.
  `updateTitle` in the API does not ask whether the form is still a draft.
* The design document lists three waiting times (5 s,
  30 s, 2 min) where `backoff.ts` has two (5 s, 30 s) for three attempts; README.md:77-78 says the consumer
  uses `SKIP LOCKED`, which only the scheduler does.

## 7. What is not modelled

Everything with status `not_modelled` or `partly` in `PROJECT.json`:

* Pages that show the answer of one query and change nothing: landing, submissions, responses, layout. Rendering, wording, logging.
* Outbox cleanup: one DELETE of rows that nothing reads any more, as Debezium reads the WAL.
* AES-GCM, HMAC and JWT verification, which are libraries; that the right secret is used is in `Endpoints`.
* Infrastructure declarations beyond what `EventLog` and `ScaleToZero` take from them.
* `updateTitle` and the change of an endpoint's name and url: single UPDATEs of columns on which nothing else depends, and the
  title editor, whose behaviour is described in section 6.
* The development mode of sign-in; the filters and the timeline of the deliveries page; list queries that a page does not poll.

## 8. Plan

1. The title editor, with `updateTitle` and the cached copy of `FormBuilder`.
