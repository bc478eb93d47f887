# A verification project for svid

svid is a download manager for desktop systems: a Flutter application
(`src/lib`), a Rust library that does the transfers (`src/native`), and a Go
backend that sells and checks premium licences and serves the console of its
administrators (`src/backend`). This directory holds TLA+ models of the parts
of it in which several actors change the same state, a model of the HTTP
interface of the backend, the TLC configurations that check them, and proofs
of their main invariants for TLAPS. Paths below are relative to `src/`.

Contents: 1 inventory, 2 modules, 3 runs, 4 what the code does differently from
what it says, 5 proofs, 6 assumptions, 7 not modelled, 8 what could come next.

## 1. Inventory

### Native library (`native/src`, 7.8k lines of Rust)

| Part | State | Operations | Called by |
|---|---|---|---|
| Download manager, `download/manager.rs` | map of tasks (status, `terminal_at`, engine), semaphore | start, pause, resume, cancel, get_progress, get_all, cleanup, TTL sweep; a spawned runner per start | `api.rs`, behind the process-wide mutex of `context.rs` |
| Segmented engine, `download/segmented_engine.rs` | `.part` files, output file, pause and cancel flags, byte counter | HEAD, split, one task per segment, join, concatenate, remove | the runner |
| Single-stream engine, `download/engine.rs` | output file, flags, counter | GET with Range, stream retries, 429 waits | the runner |
| HLS engine, `download/hls_engine.rs` | output file, flags | playlist, segments in order | the runner |
| yt-dlp driver, `ytdlp/`, `filesystem/` | child processes | run, parse progress, kill | Dart |

Hard: two levels of mutexes held across awaits; a cancel or pause while the
runner waits for a permit, a lock or the network; the same UUID started again;
files that outlive a failed call, the process and the engine object. Correct
means: no deadlock, permits come back, an outcome does not replace a cancel,
success means the whole file, a cancel ends the transfer.

### Application (`lib`, 209k lines of Dart)

| Part | State | Hard |
|---|---|---|
| Download queue, `features/downloads/presentation/providers/downloads_notifier.dart` | the list a stream of the database delivers, a debounce timer, a pass under way, retry timers | decisions on an old list, awaits in the middle of a pass, automatic retries against user actions |
| Download repository, `features/downloads/data` | rows of the local database, monitors of yt-dlp processes, a poller per native download | backoff without a second look at the row, late writes of monitors, recovery after a crash |
| Premium client, `features/premium` | cached licence | polls the backend for the payment |
| Converter, player, browser, home, settings, assistant, support | user interface, wrappers of ffmpeg and other programs | the converter's queue |
| Core, `core` | database, network, binaries | infrastructure |

Correct means: the queue does not get stuck, a slot comes back, a download that
waits is served.

### Backend (`backend/internal`, 37k lines of Go)

| Part | State | Operations |
|---|---|---|
| Webhook inbox, `premium/repository/webhook_event_repository.go`, `premium/handler/webhook_handler.go` | a row per Stripe event | claim, reclaim, complete, fail; a handler per event type |
| Stripe checkout, `premium/service/stripe_service.go`, `premium_service.go` | `payment_transactions`, `premium_licenses` | create session, verify (polled), create the licence, refund, revoke |
| Crypto checkout, `premium/service/crypto_service.go` | the same tables | create invoice, check status (polled), create the licence |
| Licence life cycle, `premium_service.go`, `license_repository.go` | tier, expiry, renewal flag, devices, invoice rows | renew, cancel, revoke, restore, register a device, import a legacy licence, audit the invoices |
| Magic links, `premium/service/magiclink_service.go` | keys in Redis | issue, redeem |
| Jobs, `jobs/scheduler.go` | the same tables | licence expiry, warnings, abandoned payments, idle keys, alerts, deletions by age |
| Identity, `identity/`, `middleware/auth.go` | devices, API keys, copies of keys in Redis | register, rotate, revoke, heartbeat |
| Crash reports, `bugs/` | reports, groups with two counters | submit, match, count, merge |
| Alerts, `alerts/`; streams, `pkg/sse/hub.go` | configurations; subscribers with buffered channels | check, mail, edit; subscribe, publish, leave |
| HTTP interface, `server/router.go`, `middleware/`, the handlers | the rows of the above | 168 routes, rate limits, authentication, audit log |

Hard: Stripe repeats and reorders events; the client polls while webhooks
arrive; `repository.Update` saves all columns of a row read earlier; crashes
between an effect at Stripe and the row that records it; counters kept beside
the rows they count; caches that outlive what they copy. Correct means: one
licence for one payment, none without it, a refund is final and revokes, an
event is processed once and never lost, nobody is premium longer than paid, a
plan's device limit holds, counters agree with rows, a revoked key dies, an
error answer means nothing happened.

`PROJECT.json` lists every part with its sources, and under `hazards` the lines
at which these difficulties bite, with the properties that cover them.

## 2. Modules

| Module | Models | Abstracted |
|---|---|---|
| `DownloadManager` | the manager, its runners, locks, permits and flags | bytes are counted, contents are the engines' concern; speed limits, progress channel |
| `SegmentRanges`, `SegmentTiling` | `compute_segments`: the closed form, and the loop step by step | nothing |
| `SegmentedEngine` | `download_segmented` and its tasks, over the disk | a file is the sequence of source offsets written to it |
| `SingleStreamEngine` | `download_with_offset` | the same |
| `HlsEngine` | `download_hls` | a file is the sequence of segments written to it; how a playlist is parsed |
| `DownloadQueue` | notifier and repository for yt-dlp downloads | what a process does between its start and its outcome |
| `AtLeastOnce` | what the inbox promises: acknowledged implies handled | |
| `WebhookInbox` | `MarkProcessing`, `MarkCompleted`, `MarkFailed` and the frame of `StripeWebhook` | one event; a handler is one step that succeeds or fails |
| `LicenseGrant` | what a checkout promises: one licence for a payment, none before it | |
| `StripeCheckout` | one session of a one-time plan: poll, two webhook handlers, administrator, cleanup | columns other than status and licence; a licence is its tier |
| `CryptoCheckout` | one BTCPay invoice: polls, administrator, cleanup | the same |
| `Subscription` | one licence paid by a subscription: the handlers of its eight kinds of events, cancellation, edits, warnings, the expiry job | ticks for days; columns other than tier, expiry, renewal, subscription |
| `InvoiceRecords` | the row of one invoice under its events, and the audit that deletes foreign rows | other columns |
| `DeviceSlots` | the device rows of one licence: registration with the limit, removal, sync, expiry | one licence |
| `MagicLink` | the mail limit and the single use of links | signatures, the text of the mail |
| `LegacyImport` | the import of one legacy key against revocations | other columns |
| `AuthKeys` | the keys of one device, their copies in Redis, registration, revocation | hashes |
| `CrashGroups` | submissions and merges of crash reports | titles and fingerprints are two values |
| `Alerts` | the alert job against the console | metrics: above the threshold or not |
| `SseHub` | one topic of the hub | bodies of events |
| `HttpRoute`, `...Service`, `...Handlers`, `HttpRoutes`, `HttpApi` | the HTTP interface, see below | request and response bodies |

`...Proofs` modules extend a module with its theorems, those of a composition with
the theorems about its parts; `SegmentTiling` holds its own. Three `MC...` modules
put components that share no state into one state space: the initial state chooses
the subject, only that subject takes steps, and the others stay at their initial
state, so that the reachable states are the sum of those of the parts and every
property speaks of its own part. `MCTransfers` holds the three engines, `MCCheckouts`
the two checkouts, `MCParts` the cutter, `DeviceSlots`, `MagicLink`, `InvoiceRecords`,
`LegacyImport`, `CrashGroups`, `AuthKeys`, `Alerts`, `SseHub` and `HttpApi`. A
variable of `MCParts` has the name it has in its component, and several components
may use one, such as `pc`; of the other two modules the variables of the second and
third part have a prefix. Every constant of a part is a constant of the composition,
so that theorems about the composition hold for all of them.

How they fit: `SegmentedEngine` uses the ranges of `SegmentRanges`, and
`SegmentTiling` shows that the loop of the code computes these. `DownloadManager`
runs an engine as a transfer that receives chunks and ends; that a transfer
ends, and leaves what it should, is the subject of the engine modules.
`WebhookInbox` implements `AtLeastOnce`; the weak fairness of the handlers in
`StripeCheckout` is what `EveryDeliveryAcked` gives, and the repetition and delay
of events in `Subscription` and `InvoiceRecords` is what it allows. `StripeCheckout`
implements `LicenseGrant` with `paid <- session = "paid"` and `issued <- Issued`.
A refund of a subscription resolves its licence through the row of
`InvoiceRecords`; `Subscription` takes for granted that this row was written, and then
what `RefundFindsLicense` says.
`HttpRoutes` gives `HttpApi` its constant, and `HttpApiAssumption` is what the
proofs need of that table, route by route; TLC evaluates it on the 168 routes.

### State and code

`DownloadManager`. `status`, `terminalAt`, `engineOf` are an entry of the
HashMap; `tasksLock` and `owner` hold its mutex and the mutex of each engine.
`op` is the API call inside the manager: `api.rs` locks the manager for the
whole call, so there is at most one. A call that awaits an engine keeps
`tasksLock`, as its guard does. `pc[n]` is the await the n-th runner stands at:
permit, map, map, engine, transfer, map, engine. A step is what the code does
between two awaits. `Swept` is the effect of `sweep_expired_tasks`.

`SegmentedEngine`. `part` and `output` are on disk and survive `Crash` and a
failed call; `phase` and `cursor` say which of the three loops of the call
runs; `taskPc`, `rangeStart`, `written`, `retries` are the locals of each
`download_segment`. `Begin` is the code before the first join. The double count
of a resumed offset (`rangeStart` and `written` both include it) is the code's.

`SingleStreamEngine`. `position` is the offset of the next byte of the response,
which is not `downloaded` when the server ignores Range. `saved` is `downloadedBytes`
in the row of the application, which a poller copies from the engine at times
(`SaveProgress`) and from which a later call resumes, whatever the file holds by then;
`inFlight` says that the last chunk was handed to tokio's background write, whose error
appears only at the next one (`WriteFails`). `aligned` and `unremoved` are not in the
code: they record that the call began at 0 or where the file ended, and that a removal
failed. `HlsEngine`: "Turn" is
the top of the loop over the segments and its wait for a pause to end, "Fetch"
the loop of `download_segment` with the write that follows.

`DownloadQueue`. `status` and `retries` are columns; `view` is the list the notifier
last received; `slots` the limit of the setting and the plan; `debounce`, `pass` (what
a pass under way has still to start), `planned` (its head was read as queued and waits
for its retry plan), `calls` (retries in their backoff, by who asked), `timers`,
`demoted` and `created` (writes that are on their way) are the fields and pending
futures of the notifier and the use case; `monitors` counts the subscriptions to
processes: first starts, later starts, and processes that were killed. `overlooked` is
not in the code: it records that, since the last pass began, a wake-up was refused or
a failed access made the pass leave a queued download behind.

`InvoiceRecords`. `read` is the row a handler has read and is about to save; reads and
writes may fail, which the code only logs. `recorded` and `raced` are not in the code:
that a write of the paid event succeeded, and that a save replaced a row other than
the one it had read.

`WebhookInbox`. `status` and `fresh` are the row (its age is above or below five
minutes), `holder` the delivery that claimed it last, `pc` each delivery.
`handled` and `overrun` are not in the code: they count successful handler runs
and record that a handler ran longer than the threshold.

`StripeCheckout`, `CryptoCheckout`. `status` and `license` are two columns of the
row; `pollCopy`, `refundCopy`, `adminCopy` (and `pollStatus`, `pollLicense`,
`adminLicense`) are the copies that processes hold between their read and their
full-row Save. The transactions that lock the row are one step. `linkLost` is not
in the code: it records that a Save removed the link to a licence.

`Subscription`. `license` is the row, `copy` the row each process has read and the
one it is about to write; `paid`, `agreement` and `charge` are Stripe's; `event` is
the state of each event (unsent, queued, two steps of its handler, done, lost),
`aged` the events that are a tick old; `recorded` are the invoice rows; `jobPc` and
`jobDue` are the phase of the expiry job and the ids it has collected. `stale` is not in the code:
it records that a Save replaced a row newer than the copy.

`DeviceSlots`, `AuthKeys`, `Alerts`, `CrashGroups` and `LegacyImport` have one `pc`
per request at the granularity of SQL and Redis statements; what a transaction holds
(`lock`, `locked`, `merge[m].moved`) blocks the others as row locks do. `revived`,
`lastValid`, `stale`, `early`, `crossed`, `dirty`, `drifted`, `missed` are not in the
code: they remember what their properties are about.

HTTP. A `Call` of an operation has its refusals, its failure and whether it
writes; an operation is a sequence of calls (`...Service`); a `Handler` is the
statuses of its own checks, the operation, the status of each named error and
the one of the rest (`...Handlers`); a `Route` adds method, path and the
middleware of its group (`HttpRoutes`, 168 routes). `HttpApi` runs one request:
`stage` and `pos` say where it is, `error` what the operation returned, `failed`
that this was because something did not answer, `ignored` that something did not answer
and the operation went on, `changed` that something was written; `row` is the audit row,
which the middleware writes in the same request, once the handler has answered.

Definitions with a comment that describes something the code does not do
(`...Unguarded`, `...Late`, `...Lax` and the like) are the mutated forms that
`PROJECT.json` names under `mutants`: each breaks the property it is listed with.

## 3. Runs

| Run | Bounds; distinct states | Shows |
|---|---|---|
| `dm_manager` | 2 ids, 2 starts, 1 permit, 1 chunk; 156 245 | lock order, permits, cancel kept, every runner and call ends, no deadlock |
| `dm_cancel`, `dm_poll` | the same | two disagreements, section 4 |
| `transfers` | segmented: 4 bytes, 3 segments, 1 retry, 2 calls, 1 pause; single stream: 3 bytes, 2 retries, 2 waits, 3 calls, 1 pause; HLS: 3 segments, 2 retries, 3 calls, 2 pauses; 182 479 | joins, bytes on disk, resume points, whole files, cancels, termination |
| `se_resume` | 4 bytes, 2 segments, 2 calls | a disagreement |
| `ss_norange` | 3 bytes, 1 call, server without Range | a disagreement |
| `wi_inbox` | 3 deliveries, 2 failures; 43 108 | one handler, permanence, at least once |
| `checkouts` | 3 licence rows, 2 polls, 1 failure; 69 422 | one licence, refunds, no licence before the money, liveness |
| `cc_duplicate` | 3 licence rows, 2 polls | a disagreement |
| `sub_license` | periods of 3 ticks, grace, dunning and warning 1, 2 invoices, clock to 7, 2 incidents; 917 506 | what is granted at least and at most, expiry |
| `parts` | two of each kind of actor and row, one foreign invoice, see `MCParts`; 706 857 up to symmetry | one property per component |
| `dq_queue` | 2 downloads, 1 or 2 slots, 1 retry, 1 action of a user, the network, a fault or a restart; 991 668 | a download is left in the queue in two ways only |

Why the bounds are enough. One permit and two downloads are the smallest
instance in which a runner waits for a permit while another transfers; two
starts of one id meet in the same run because an entry can be cleaned up. Four
bytes in three segments have one segment longer than the others, so that a
resume in its middle, a finished part and an untouched one exist together; one
retry leaves both outcomes of a broken stream reachable. The third call of the
single stream resumes one that was itself resumed, also from a count that no longer
agrees with the file. Three deliveries are needed
for a claim, a reclaim and a late worker; two failures for a crash followed by a
failed update. Two licence rows suffice to create a second licence by mistake,
and the third lets it happen twice. In `sub_license` the clock reaches the end of
the second period and its grace, so that both events of a period can be late,
repeated and swapped, and an expired licence can be renewed; a period of three is
the shortest in which an event that is late by dunning and a day is still handled
in its period. In `parts`, two requests and one free slot make a race for the
last slot; two merges and two groups a merge in both directions; a third stream
a subscriber above the limit; two keys a rotation; the cutter gets every size up
to 20 with every count up to 16. In `dq_queue` the second download is the one
that waits while the first is started, fails, is retried and ends; the one fault is
enough for each of the two ways out, and a wake-up is lost without any.

Deadlock is checked for `DownloadManager`, in which polls are always possible
when nothing is stuck. The other systems stop when a transfer, an event, a
payment or a request is done, and their runs say `CHECK_DEADLOCK FALSE`.

Symmetry is used in `parts` only, which checks no liveness.

Fairness. `DownloadManager`: tokio's mutex and semaphore are fair, so a runner
that can move again and again moves (strong fairness per runner), and a call
that was admitted goes on; transfers end because the engines' retries are
bounded, which `EveryCallReturns` and `CancelledStreamEnds` are about. Engines:
the runtime polls every task, and the network delivers or fails within the
limits of the client (`config.rs:80`). Nobody is assumed to resume a pause.
`WebhookInbox`: Stripe repeats a refused delivery for three days, requests run to
their end, five minutes pass. `StripeCheckout`: only the two webhook handlers are
fair; no client has to poll, no administrator to act. `CryptoCheckout` has no
webhook: the client has to go on polling, or no licence is promised.
`Subscription`: the expiry job runs every day, after a panic and a restart too.
`DownloadQueue`: timers fire, reads and writes return, processes end; one whose
monitor could not write its outcome is a fault. Users, administrators and failures are never fair.

## 4. Where the code and its comments disagree

| Run | What the code says | What happens |
|---|---|---|
| `dm_cancel` | `manager.rs:286` "User-visible cancel beats a lucky in-flight completion" | cancelled while waiting for a permit: `run_download` sets Downloading without a look (`:256`), the engine clears the flag (`engine.rs:173`), the entry ends Completed |
| `dm_poll` | `api.rs:720` progress is "accessible via get_progress() calls" | the poll waits for the engine mutex (`manager.rs:383`), which the transfer holds to its end (`:271`), with the map and the manager locked |
| `se_resume` | `segmented_engine.rs:205` "resume support" | the offset of a resumed segment is counted twice; bytes are skipped and the call reports success |
| `ss_norange` | `engine.rs:162` "Supports resume from offset via HTTP Range requests" | a 200 is accepted for a Range request and appended |
| `cc_duplicate` | `premium_service.go:400` the lock is there "to prevent duplicate license creation from concurrent polling calls" | the Save of a stale copy (`crypto_service.go:249`) takes the link out of the row; the next call creates a second licence |

Others were met while modelling, follow from the same models and have no run of
their own.

- Manager. `terminal_at` stays set on an entry that `Announce` or `ResumeReturns`
  made active again, against `manager.rs:98`. No running transfer ever sees a
  raised flag (`FlagsClearWhileRunning`), so that pause and cancel have no effect
  during a transfer, against `manager.rs:1`.
- Single stream. A call resumes from `downloadedBytes` of the row
  (`download_repository_impl.dart:516-517`), which is written at most every 250 ms and
  not when a call fails, and the engine does not compare it with the file. After a kill
  the file is longer, or, when a buffered write is lost, shorter; the response is
  appended all the same, bytes are there twice or missing, and the call reports success,
  against the same `engine.rs:162`. `WholeIfAligned` states when this cannot happen.
  `remove_file` after a cancel may fail unseen (`engine.rs:314, 323, 432`).
- Inbox. A late `MarkFailed` opens a fresh claim of another worker, against the
  comment of `webhook_event_repository.go:94`; `overrun` stands for this.
- Checkouts. A crypto poll sets `refund_pending` back to `completed`. A
  `charge.refunded` that arrives before the licence exists is dropped.
- Subscription. A repeated or late `invoice.paid` revives a refunded licence,
  against `webhook_handler.go:284-287`. The expiry job downgrades a licence that is
  renewed between its phases, against `scheduler.go:102-104`.
- Invoices. The comment at `webhook_handler.go:653` says that the licence is linked
  later; the update branch of `persistInvoiceRecord` never sets it, and a refund
  finds the licence by the subscription instead. An event that lost the race for
  the row can leave it without the payment intent (`raced`); a failed write is logged and
  the event acknowledged (`webhook_handler.go:765-772`), and so is a paid event that came
  before its licence (`:245-246`): without the row a refund does not find the licence.
- Devices. `DeviceLimit` is violated: the verification of a licence saves the device
  row it has read (`premium_service.go:188`) and inserts it again if it was removed
  meanwhile, although `license_repository.go:245-246` counts under a lock "to prevent
  concurrent requests from exceeding the limit". `LimitButForRevived` is what holds.
- Import. After a conflict the transaction is aborted and the second read fails,
  where `premium_service.go:1390` says "no error" and "the canonical row".
- Magic links. A redemption that fails after the key is set has used up the link.
- HTTP. The annotations of `@Failure 400` on requests that do not validate are
  answered 422. `Masked` lists the routes on which a database, Redis or payment
  service that does not answer is reported as a mistake of the caller, `ShownAsZero` and
  `DoneWithout` those that answer 200 with zeros or without a part of what was asked,
  `Partial` those that can answer an error after they have changed something; every other
  route is shown to do none of this. `middleware/auth.go:72` tells a device with a good
  key 401 when the lookup fails; the client then registers again.
- Queue. A wake-up that comes while a pass is under way is dropped
  (`downloads_notifier.dart:545`), not repeated after it; when nothing changes any more,
  a queued download waits until the next launch. A pass that cannot read a row leaves
  its download in the queue likewise (`:581-583`), and the row of a retry that ended in
  an exception stays downloading and keeps its slot
  (`download_repository_impl.dart:840`). `QueuedIsServed` says that there is no other
  way. `OneProcess` is violated, which the comment at `downloads_notifier.dart:339-342`
  sets out to keep ("duplicate processes"): the start of a new download overtakes the
  write that queues it (`:371`, not awaited), a pause leaves yt-dlp running and a resume
  queues the row, a manual retry does not cancel the timer of an automatic one. When the
  network returns, a waiting row becomes pending, which nothing starts before the next
  launch, against `download_status.dart:65`. A completed or cancelled row can be started
  again by a timer or the end of a backoff. Retries do not count against the limit.

## 5. Proofs

All theorems hold for every value of the constants that satisfies the ASSUME of
the module. Each was checked by TLC on the instance of section 3 first.

`SegmentTiling` (`RangesTileFile`, `RangesClosedForm`). Tiling is not inductive: the
loop knows its offset only. `IInv` adds that the offset is the start the closed form
gives to the next range (`OffsetInv`) and that what was pushed has the closed form.
The facts about division it needs are lemmas. Tiling follows from the closed form.

`DownloadManagerProofs`. `TypeCorrect` gives types. The central invariant is that
an engine's mutex is held exactly by a runner at `Running` that uses it
(`EngineLock`), and the map's mutex by the API call in progress or by a runner at
`Report`, whose entries are still there (`MapLock`); it is proved with `References`
and the flags as `LockInv`. `LockOrder` follows from it. `RequestsNeverReachTransfer`
needs it, because flags are raised only under the mutex, which the transfer holds,
and `BeginTransfer` clears both. `OutcomeKeepsCancelled` is an action property that
follows from the two guards alone. `Permits` counts the runners that own one, by
cardinality lemmas for one element more or less.

`TransfersProofs`. Segmented engine. `JoinsLeaveNoWriter`: a task that can write
belongs to a segment that is not joined yet (`Unjoined`), and the call leaves its joins
only when there is none. `BytesKept`: a request creates its part, and so empties it,
only when its task believes to have written nothing; `Believes` says that the belief,
`bytes_written`, is the length of the part whenever a task is alive. The double count
of a resumed offset does not disturb it, because the count that goes wrong is the
start of the range. `SegmentsMakeWholeFile` (of `WholeUnlessResumed`) needs `WInv`
beside it. A task whose range starts where its segment does has written a beginning of
the segment, and all of it when it ends well (`Tasks`, with `Prefixed`); a part that is
as long as its segment is the segment, because a task that resumed in the middle skips
bytes and ends short (`PartsFit`), so a part the call skips is complete (`Skipped`); a
failed task keeps the call from copying (`Failures`); and the copy is the first segments
in order (`Copied`), which make the file by the closed form of the ranges, taken from
`SegmentTiling`. Single stream (`OneInv`): in a call
that began at a count which agreed with the file (`aligned`), the file of an open stream
is the beginning of the resource that the count names, and the stream stands there; at a
request this is so, or the count is 0 and the file will be created. A failed write ends
the call, so a count that it makes wrong is only met by the next one, which is then not
aligned or starts at 0. HLS (`HlsInv`): the file is the first segments of the playlist.
`StreamsDeliverWholeFile`, `CountResumes` and `CancelCleansUp` follow; the last needs
only that each way to `Cancelled` removes the file or records that it could not.
`EnginesAsSpecified` says that every engine of the composition behaves as its own
`Spec`, which carries what is proved of the segmented engine over to it.

`WebhookInboxProofs`. As long as no handler overran, the row is `processing` and
held by the only delivery past its claim, and a delivery about to mark it is that
holder. `OneHandler` and `Permanence` follow. `InboxKeepsPromise` needs less, and
holds with overruns: `processed`, and a delivery about to acknowledge, imply that a
handler succeeded.

`CheckoutsProofs`. Stripe: `LinkInv` explains why full-row Saves of stale copies are
harmless here and not in the crypto checkout. The poll saves only when the session
expired (`FollowsStripe`), and a session that is not paid never had a licence, in the
row or in a copy (`BareUntilPaid`); both refunds save a copy that was read when the row
had its licence, and the link is never changed once made (`CopiesLinked`). So the
row is linked to exactly the licences that were issued (`LinkedIfIssued`, hence
`LinkKept`); a refunded row belongs to a paid session with a licence, so nothing
reopens it (`RefundFinal`); and every step is `Pay`, `Issue` or a stutter of
`LicenseGrant` (`CheckoutGrants`). Crypto: no row and no copy of a poll says
`completed` before BTCPay settles the invoice (`UnpaidClean`), hence `InvoicePaidFirst`.
As long as no Save took the link out of the row, every copy holds the link of the row
or none (`InvoiceLinked`), hence `InvoiceLinkKept`: `linkLost` is the only way to a
second licence. That there is one licence cannot be proved, because `cc_duplicate` shows
two. `CheckoutsAsSpecified`: the composition implements both specifications.

`SubscriptionProofs` (`NoExtraPeriod`). The expiry is set in three ways: to a date
counted from now, to itself and a period, or from a copy. An event of invoice k is
handled at most `Dunning + 1` ticks into period k (`Timely`), so a date counted from
now lies before the end of period k + 1; a row that already covers invoice k is not
extended for it (`Covers`), so its own expiry and a period lies there too; and every
copy that may still be saved was computed that way (`CopiesBounded`).

`PeriodGranted` is the other direction, by `GInv` on top of the above. No writer
shortens the expiry it has read (`CopiesLengthen`); an invoice is not paid before its
period starts (`Started`), so a renewal counted from now covers it, and the row a
handler of `invoice.paid` is about to save covers its invoice (`RenewalsCover`). So only
a Save over a row that changed since it was read takes a period away, which `stale`
records.

`LicenseProofs`. `LimitHolds`: the request that counts and inserts holds the row of the
licence (`LockHeld`), so that no other request registers in between and the room it has
counted is still there (`RoomKept`) but for rows that a Save brought back, which
`revived` counts. `OneGrant`: the key that marks a link is set for as long as a whole
link lives, so it outlives the signature (`KeyOutlives`): a link is closed by its key,
then by its age (`GrantedClosed`), and the one redemption between the key and the answer
is alone (`SpentOnce`). `RefundFinds`: the event of the payment is handled only for a
licence that exists (`PaidHasLicense`), its write gives the row the payment intent, later
handlers add to the row they have read or, when the read failed, cannot create a second
one, and an audit does not take the row for a foreign one (`OursIsKept`). It starts from
a write that succeeded: the code acknowledges the event without one too. `ImportsUndoNothing`
is an action property: an import that updates has kept the row locked since it read it
(`UpdateHoldsRow`), and what a revocation has read is of the product of the row
(`ReadsSameProduct`), so both leave a revocation as it is.

`ServiceProofs`. `CopiesEnd`: a copy of a key is written in the tick in which its key
was last good in the database (`FillIsFresh`) and ends `KeyTtl` later (`CopyBounded`).
`AlertsCool`: unless a check and an edit have crossed, what the job and the console
have read has the time of the last mail, but for the mail that is being sent
(`FiredIsSent`). `HubDelivers`: a publication under way holds the lock, so its streams
are open (`WalkIsLocked`), and an event stands once in what a stream was given, or was
dropped or missed (`EventsGiven`); `WithinLimit` bounds the subscribers.
`GroupsCount`: of each device one report at a time is counted in a group, unless the
group has drifted, as it does when the devices of a report cannot be counted
(`OneCounts`), so that what it is about to add to the devices is right (`AddsIsNew`);
a merge that nothing disturbed holds the reports it found, and their numbers
(`UndisturbedMerge`); cardinality lemmas for one report more, and for the union of the
groups, keep `CountsHold`. `OutagesOwnedUp`, `RefusedUnchanged` and `ChangesAudited`
use of the table of routes only `HttpApiAssumption`, which TLC evaluates on it: a
route outside `Masked` answers a failed call with 500 or more, one outside
`ShownAsZero` and `DoneWithout` has no call whose failure it passes over
(`HeedsOutages`), one outside `Partial` changes something only after all that may
refuse or fail, and one of an administrator that changes something is behind the audit
and not a GET. `HttpInv` shows that the pipeline keeps it so: nothing has failed or
changed before the operation (`Unanswered`), what failed is what it returned
(`FailureReturned`), an error was returned before a change (`ChangedBefore`,
`ReturnedUnchanged`), and the audit is noted before the operation (`AuditNoted`).
`TypesKept` is the type invariant of all parts of `MCParts`.

In these theorems a property has the form `subject = ... => ...`: it is about the
behaviours of the composition in which that component takes the steps, and its
invariant is proved of its own `Init` and `Next`.

Every invariant and action property of a passing run is stated by a theorem. Only
model-checked is liveness, which is out of the prover's reach: `EveryStartEnds`,
`CallsReturn`, `EveryCallReturns`, `CancelledStreamEnds`, `EveryDeliveryAcked`,
`PaidGetsLicense`, `RefundRevokes`, `SettledGetsLicense`, `DueIsDowngraded`,
`QueuedIsServed`; and the five disagreements of section 4, which are counterexamples.

## 6. Assumptions about what is outside

- A server that sent `Accept-Ranges: bytes` honours Range; a body ends without an
  error only after its last byte (reqwest checks `Content-Length`).
- The code does not record the segment count beside the parts. `WholeUnlessResumed`
  is about a call whose segments began at their starts; where it skipped one because
  its part was there, it asks that all calls cut the file the same way (`OneCount`).
- PostgreSQL row locks make the locking transactions atomic where a module makes
  them one step; a Save is atomic; merges run at READ COMMITTED.
- A Checkout session does not change once paid or expired; Stripe refuses a second
  refund; the payment intent of a one-time plan is known when its licence is created.
- A BTCPay invoice that is settled, expired or invalid stays so.
- An unpaid session or invoice is closed when its row is 48 hours old.
- Rows of old webhook events are deleted after 30 days, long after the redelivery.
- Subscriptions: `invoice.PeriodEnd` is the end of the period the invoice bills; an
  event is handled within the three days Stripe repeats it, or lost; dunning and
  redelivery together are shorter than a period; a request or a job run is shorter
  than a tick; a subscription checkout carries no payment intent, so that a refund
  resolves through the invoice row; an administrator edits one field and not the
  expiry; lifetime plans do not renew.
- Redis: a redemption sets its key within the second in which it verified the link;
  keys do not disappear before they expire; a request is shorter than the life of a
  cached key.
- Queue: the folder check of a retry is shorter than the 100 ms of the debounce; the
  writes of users, of the demotion and of the recovery do not fail; whether an error may
  be retried is a choice; users act on the list, which may be older than the row.
- Single stream: a chunk is written whole or not at all; a kill loses any end of the
  file, because a flush does not sync, but nothing in its middle.
- One instance of the server runs the jobs.

## 7. Not modelled

`PROJECT.json` lists every part; these have the status `not_modelled` or are the
missing half of a part that is `partly` modelled.

- The yt-dlp driver and file metadata: wrappers of processes and of the file system;
  `DownloadQueue` takes their outcomes as choices.
- Downloads of the Rust engine in the Dart repository: the poller reads the native
  map and writes rows, and a native cancel with cleanup lets it turn a cancelled row
  into a failed one. Deletion, priorities, batches, the refresh of expired addresses.
- The converter queue, the premium client, the screens, and the generated bridge:
  single-threaded user interface state, or code written by a generator.
- The counters of the rate limiter (a refusal is a choice), deletions by age, the
  daily statistics, vote counters, version comparison and the answers of the
  assistant; construction and configuration of the server. Its end is the crash of
  the modules that have one.
- Within the modelled parts: speed limits, progress reporting, request headers and
  proxies; the fallback of the segmented engine to one plain GET; how a playlist is
  parsed; the backfill of a missing e-mail address into an older licence; partial
  refunds; keys and prices of plans; the devices table's copy of the tier, but for
  its synchronisation in `DeviceSlots`.

Hazards that were seen and are left out of the list because no module holds the
state they need: part files cut for another segment count
(`segmented_engine.rs:208`); a mail counter whose expiry a crash prevents
(`magiclink_service.go:362`), which locks the address out and is a behaviour of
`MagicLink`; the cooldown of registrations that is looked up and then set
(`device_service.go:107`); the last administrator's check before a demotion
(`admin_device_handler.go:533`); a crypto poll after a refund.

## 8. What could come next

1. `NativeDownloadClient`: the repository's start, poll, retry and cancel of native
   downloads over the interface of `DownloadManager`, composed with it.
2. A composition of `Subscription` with `InvoiceRecords` and of `StripeCheckout` with
   `WebhookInbox`, in place of the interface assumptions between them.
3. Theorems that no run checks yet as properties: that `DownloadQueue` is safe up to
   the disagreements of section 4, and that the Stripe checkout and the inbox together
   implement `LicenseGrant`.
4. `CryptoCheckout` with a Save of the status column only, which would make
   `OneLicensePerInvoice` a theorem.

## Running

    tlc -config dm_manager.cfg DownloadManager.tla
    tlapm DownloadManagerProofs.tla

`PROJECT.json` names the module and configuration of each run.
