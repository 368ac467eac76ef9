# Verification of the streaming service

TLA+ modules, TLC configurations and TLAPS proofs about the code of this
repository: a NestJS API and worker (`backend/`) and a Next.js frontend
(`frontend/`) for a video-on-demand service paid by M-Pesa or by card and bank
transfer. Paths below are relative to the repository's root.

To check it: `tlc -config <cfg> <module>` for each run of `PROJECT.json`, and
`tlapm <module>.tla` for each of the proof modules `PaymentsProofs`, `LifeProofs`,
`CheckoutProofs`, `AuthProofs`, `PipelineProofs`, `MediaProofs`, `CatalogProofs` and
`TitleDeskProofs`.

## 1. The system

```
 browser ──> API (controllers > services) ──> PostgreSQL (Prisma)
    │          ^            │    │
    │ PUT      │ webhooks   │    └── jobs ──> Redis/BullMQ ──> worker (ffmpeg)
    v          │            v                                     │
 object store  Daraja, Flutterwave                          object store
```

Each API handler runs as a chain of `await`s on one Node process; between two
of them every other handler, the sweep's interval, the worker's process and the
customers go on. No statement locks anything: the database's protection is its
unique columns and one READ COMMITTED transaction, in `activateFromTransaction`.

### Components

| Component | State | Operations | What makes it correct |
|---|---|---|---|
| Payments (`payments/payments.service.ts`, `transactions.service.ts`) | table `transactions`, the rows a sweep has in hand | initiate (M-Pesa, bank), callback, webhook, sweep every 30 s | a payment is granted once, to its payer; nothing is reported SUCCEEDED and not granted; what is not paid does not block its user |
| Payment providers (`payments/providers/`) | at Daraja and Flutterwave | initiate, handleWebhook | a charge is attributed to the row it was made for |
| Subscriptions, entitlement (`subscriptions/`, `auth.service.ts` getMe) | table `subscriptions` | activate; three queries for "is subscribed" | a subscription is paid for and kept; the queries agree |
| Auth (`auth/`) | tables `users`, `refresh_tokens`; the browsers' cookies | register, login, refresh, logout | one account per address; rotation leaves one usable token; an ended session is over; an alarm has a cause |
| Access tokens, role guards | none (signed tokens) | checks on requests | not modelled |
| Session client (`frontend/src/lib/api-client.ts`) | the access token of a tab | refresh on 401 | does not raise the reuse alarm by itself |
| Media upload (`media/admin/`, upload page) | table `media_assets`; raw objects | register, PUT, complete | READY means playable |
| Transcode queue and worker (`worker/`, BullMQ) | Redis queue; `hls/<asset>/` objects | take, download, upload object by object, set READY or FAILED | a READY video is complete and of one piece; a queued job ends |
| Catalog administration (`catalog/admin/`) | `titles`, `seasons`, `episodes` | create, update, publish, unpublish | what is published was playable |
| Public catalog (`catalog/`) | none | list, title page | a page offers what exists |
| Playback URLs (`media/media.service.ts`) | none | sign a URL of a READY asset | the asset of the right kind, for the right people |
| Title page (`frontend/.../titles/[titleId]`) | what it was told | play trailer, play full | the buttons play what they say |
| Payment pages (`frontend/.../subscribe`, `subscribe/return`, `billing`) | what each shows, its timers and requests in flight | start a payment, watch it, load the billing data | what a page says of a payment is true, and how it ended is shown |
| Admin title page (`frontend/.../admin/titles/[titleId]`) | a copy of the title, half-typed forms, requests in flight | load, type, add season or episode, publish | shows what is stored; files an episode where it was typed |
| Player, lists of titles, configuration, logging, DTOs, bootstrap | none | | not modelled |

`PROJECT.json` lists them with their sources and status, and lists under
`hazards` each place where this code is hard to test, with the property that
would catch it going wrong.

### What is hard

* Check, then act: `createPending`, `register`, `refresh`, `completeUpload`,
  `canPublish` read in one statement and write in another.
* Updates by primary key alone: `markFailed`, `markTimedOut`, the revocation in
  `refresh`, the worker's READY; they overwrite whatever happened in between.
* Redelivery: providers repeat an outcome until it is answered 200, and may
  deliver it twice at once; a callback may precede the response that carries its
  reference; a customer may pay after the row was given up.
* Crashes: of the API between statements, of the worker between objects;
  BullMQ runs a stalled job a second time, ahead of later ones.
* Partial uploads: a video replaces another object by object, under the same keys
  and the playlist first, while the other one may be READY.
* Lost answers: of a refresh whose token is already revoked; of a push; of a poll.
* Overlapping requests of one page: an interval asks again before it is answered,
  a button is pressed again, and answers come in another order than they were made.

## 2. The modules

| Module | Models | Extends |
|---|---|---|
| `Entitlement` | the three queries that decide who is subscribed | |
| `Payments` | initiation, webhooks, activation, sweep, faults | `Entitlement` |
| `Ledger` | what paying promises, with no handler in sight (abstract) | |
| `TransactionLife` | what the table `transactions` promises to those who read a status (abstract) | |
| `PaymentsProofs` | theorems about `Payments` | `Payments`, `TLAPS` |
| `LifeProofs` | that `Payments` implements `TransactionLife`, and what a granted row reads | `PaymentsProofs` |
| `Checkout` | the subscribe, return and billing pages, over the life of a row | `TransactionLife` |
| `CheckoutProofs` | theorems about `Checkout` | `Checkout`, `TLAPS` |
| `AuthSessions` | accounts, refresh tokens, cookies | |
| `AuthProofs` | theorems about `AuthSessions` | `AuthSessions`, `TLAPS` |
| `MediaPipeline` | upload page, admin media API, queue, worker, objects | |
| `PipelineProofs` | lemmas on each step of the pipeline, whatever it is composed with | `MediaPipeline`, `TLAPS` |
| `Media` | `MediaPipeline` alone, where every owner exists | `MediaPipeline` |
| `MediaProofs` | theorems about `Media` | `Media`, `PipelineProofs` |
| `Catalog` | titles, publishing, title page and playback, over the pipeline | `MediaPipeline` |
| `CatalogProofs` | theorems about `Catalog` with the pipeline in it | `Catalog`, `PipelineProofs` |
| `TitleDesk` | the admin's page of a series and the endpoints it calls | |
| `TitleDeskProofs` | theorems about `TitleDesk` | `TitleDesk`, `TLAPS` |
| `MCMedia`, `MCCatalog` | instances for TLC: how long each upload is, and symmetry | `Media`, `Catalog` |
| `MCPayments`, `MCAuthSessions`, `MCTitleDesk` | symmetry sets for TLC | the module they are named after |

All follow one scheme: a handler in flight is a record whose `pc` names the
`await` it has reached and whose other fields are what it has read. An action
is the code between two awaits. A call that changes nothing (a 401, a 409) is no
step; reading a status changes nothing in the backend and is modelled where the
answer matters, in `Checkout`. Slots for handlers, primary keys, object keys and
references are constants; a slot is reused, a key never is.

### Payments

| Action | Code |
|---|---|
| `FindExistingPending`, `CreateTransaction` | `createPending`'s two statements |
| `PushAccepted`, `StoreReference` | `MpesaProvider.initiate`, `setProviderReference` |
| `ReturnLink` | `BankGatewayProvider.initiate`; no reference is known yet |
| `InitiateFails`, `MarkInitiateFailed` | the catch blocks of the initiators |
| `CustomerAnswersPush`, `CustomerUsesLink` | the customer, at any time; a link may be tried again after a declined attempt |
| `Receive`, `ReceiveIgnored` | `findForWebhook`, and the check that the row is PENDING |
| `LinkReference` | `setProviderReference` in `applyOutcome` |
| `ActivationFound`, `ActivationRead`, `CommitActivation`, `CommitConflict` | `activateFromTransaction`: its read, and the commit or the violation of the unique column |
| `MarkDeclined` | `markFailed` in `applyOutcome` |
| `SweepRead`, `MarkTimedOut` | one tick of `startTimeoutSweep`, one update after another; ticks may overlap, so their rows are one set `stale` |
| `DeliveryFails`, `Restart` | a statement throws (500, redelivered); the process ends |

Left out: amounts, phone numbers, `resolvedAt`, `failureReason`, `startAt`, and
the column `status` of subscriptions, which is written once. `findForWebhook`'s
two queries are one step: no row gains the reference of another charge in
between. A webhook that fails verification changes nothing.

`charge`, `links` and `acked` are the providers' side: what customers were
asked and answered, who holds a link, which outcomes got their 200.

`Ledger` is the abstract specification: payments, each made once, and periods,
each granted once for a payment to its payer. `RefinesLedger` is the claim that
charges collected and rows of `subscriptions` behave as it says.

`TransactionLife` is the other one: a row begins PENDING, never returns to it,
and turns SUCCEEDED in the step that buys a subscription; between the other
statuses it may move more than once. `RefinesLife` maps the column `status` and
the rows with a subscription to it. It is the interface between the backend and
the pages: `Checkout` is built on `TransactionLife` alone, so what it shows holds
over `Payments` with all its interleavings and faults.

### Checkout

| Action | Code |
|---|---|
| `Submit`, `Started`, `SubmitFails` | the two forms of `/subscribe`, the row their request creates, the catch blocks |
| `MpesaAccepted`, `BankRedirect` | the answers: watch the payment, or leave for the gateway |
| `Return` | `/subscribe/return?tx_ref=`, at any time after a link was handed out |
| `PollSend` with `MaySend` | `setInterval` of `usePolling`, against the chain of `setTimeout`s of the return page |
| `PollRead`, `PollAnswer`, `PollLost` | `getStatus`; the answer is shown; the catch blocks that ask on |
| `OpenBilling`, `ReadSubscription`, `ReadHistory`, `BillingFails` | `Promise.all` of the billing page and the two queries behind it |
| `Close` | the page is left; its answers are dropped |

`RowStep` is any step of the backend on the rows (`LifeNext`), the creation of a row
whose page has given up waiting included: together with `LifeRefinement` this is
what lets `Checkout` be read as the pages over `Payments`. Two history fields say what a page once
showed (`told`) and which payments had been called successful when the billing
page was opened (`due`). Phone numbers, amounts and dates are left out.

### TitleDesk

`AskLoad`, `LoadRead`, `LoadAnswer` and `LoadLost` are `load()`; `Type` is a
keystroke in the form under a season; `PressAddEpisode`, `PressAddSeason` and
`PressPublish` send a call; `CreateSeason`, `CreateEpisode` and `UpdatePublished`
are the endpoints with the unique numbers of seasons and episodes; `Refuse`,
`AnswerLost` and `Answered` end a call. There is one form for all seasons
(`episodeForm`), and the press of "Add episode" sets its season *after* the
handler has captured it: the call carries the form as it was before. `excused`
is history: another admin was at work, an answer was lost, or two loads
overlapped. Names and descriptions are part of what is typed; whether a title
may be published is `Catalog`'s affair, here a call may be refused.

### AuthSessions

`register` is `RegisterFind`, `CreateUser` or `CreateConflict`; `login` is
`LoginFind`; both go on with `Issue` and `Answer`. `refresh` is `SendRefresh`,
one of `RefreshFind`, `RefreshFindRevoked` and `RefreshFindExpired`, then
`Rotate`, `Issue`, `Answer` or `Alarm`; `logout` is `SendLogout` and `Logout`. The
browser's cookie outlives a logout: it was set with the path `/api/auth`
(`auth.controller.ts:96`), and `clearCookie` without a path (line 76) expires another
one, at `/`. So a later login replaces it, or a later refresh presents the revoked
token. The chain of tokens that begins with a login is a *family*, which
the code does not store. A token may expire at any time after its issue
(`Expire`), which covers every setting of the lifetimes. `Abandon` loses an
answer, `CallFails` a handler. Five history variables say which families had
overlapping calls (`raced`), lost one (`cut`), were ended (`ended`), were refreshed
after they had ended (`reused`), and which users had an alarm: the properties say what holds *because* a client behaved, and where the
code's promise stops. Passwords and access tokens are left out.

### MediaPipeline and Catalog

`Register`, `Put`, `CompleteRead`, `CompletePend` and `Enqueue` or
`FinishTrailer` are the upload page with `registerMediaAsset` and the statements
of `completeUpload`. `TakeJob`, `Download`, `UploadFile`, `MarkReady` and
`MarkFailed` are the worker. An upload `s` is cut into `Segments[s]` segments, so two
videos of one asset may have different objects (`Objects(s)`); `UploadFile` is one
PUT, in the order of `readdir`'s names (`Precedes`): of each rendition the playlist
and then the segments it lists, and the master playlist last. `hls[a][o]` records
*from which upload* an object was made, which is what the properties are about.
`PutRefused`, `UploadFails`, `TranscodeFails`, `DownloadHangs`, `ReadyThrows`,
`JobThrows` and `WorkerDies` are what goes wrong. After `DownloadHangs` the job is
neither resolved nor rejected (`transcode.processor.ts:98-103` listens to the file
that is written, not to the body that is read), and only the end of the process
frees the worker. A hung worker keeps its job, so BullMQ does not see it stalled.
`RecoverStalled` models BullMQ's default for stalled jobs (external): first in the
queue once, then given up (`dropped`). There is one worker with one job at a
time, as `docker-compose.yml` and the processor's default concurrency have it.

`Catalog` adds titles, seasons and episodes: publishing with its separate
statements (`BeginPublish`, `ListEpisodes`, `CheckUnit`, `CheckListed`,
`Publish`), and the visitor's page (`OpenPage`, `ReadTrailer`, `ReadFull`,
`AskTrailer`, `AskFull`, `GetUrl`). Descriptive fields, genres and the paging of
the list are left out. Two pieces of history carry properties: `abandoned`, the
assets an upload of which broke off, and the field `touched` of an edit, which is set
when a full video or an episode that it has looked at is registered anew or
unpublished before its update. The two queries behind the title page run side by
side in the code; they are one after the other here, and nothing either answers
depends on the other.

## 3. The runs

| Run | Asks | States |
|---|---|---|
| `payments_safety` | the safety properties, the inductive invariant, both refinements; two users, two rows, two of each handler, a fault | 434,474 |
| `payments_live` | a push is always resolved; a bank payment is granted | 34,770 |
| `auth_safety` | accounts and sessions: one account, two browsers, two calls, three tokens, a fault | 954,692 |
| `media` | complete, whole and exact videos; every job ends unless the worker hangs; PENDING is at work | 825,541 |
| `catalog` | what is published and offered is backed by objects, and READY when it is published | 469,082 |
| `checkout` | what the payment pages say is true, and is said sooner or later | 190,882 |
| `title_desk` | the admin's page shows what is stored and files where it was typed | 3,194,994 |
| `payments_ack`, `payments_resolves`, `auth_ended`, `play_full`, `checkout_moves_on` | statements of the documents that the code breaks | |

Type invariants are checked as part of the inductive invariants: `IInv`, and
`MediaInv` for the pipeline. TLC checks each of these beside the properties that
follow from it, so that a part the proofs rely on is known to hold on the instance.

### What they show

Payments. `OneSubscriptionPerPayment`, `SubscriptionIsPaidFor`,
and `SucceededIsSubscribed` hold under every interleaving of
deliveries, sweep and restarts: the unique column `transactionId` and the one
database transaction carry the weight. `SuccessOverwritten` says how far the handlers
that act on a row they read earlier can take a success back: a granted push may
read TIMED_OUT afterwards, a granted checkout with a declined first attempt FAILED,
and no other granted row reads anything but SUCCEEDED. `TimedOutIsOverdue` and
`LinkFailsOnlyIfDeclined` say that no payment is closed under a customer without
a reason; `BankAckIsSubscribed` that a collected bank charge is not answered 200
and forgotten; `PushIsResolved` and `BankPaymentActivates` say the same of the
future, through faults and restarts. `PendingBounded` says that a user never has
more payments pending than requests overlap in `createPending`.

Auth. `OneAccountPerEmail` holds by the unique column. `OneLivePerFamily` and
`EndedIsOver` hold for sessions whose calls do not overlap: rotation is sound for a
sequential client. `NoFalseAlarm` lists all that can raise the reuse alarm on a user:
calls that overlapped, a call that was cut short, and a refresh of a session that
had ended, with the cookie its logout left in the browser. `HonestSession` says
that no other user loses a session, by the logout or the refresh of another device.
`DeadStaysDead` holds without exception: no order of calls revives a session,
the kept cookie included.

Media. `ReadyIsComplete` holds through crashes of the worker, failed statements,
refused uploads, hung downloads and concurrent replacements: a READY video has every
object of some video, and if a playlist lists segments that are not there, a job
begun since is still at work on them or BullMQ gave it up. `SettledIsWhole` says
mixtures of two videos do not outlast the jobs, unless BullMQ gave one up.
`UndisturbedIsExact` says that replacing a video while nothing is at work on it is
never served half done. `TranscodeSettles` says a queued job reaches its row unless
the worker hangs, and `PendingIsAtWork` that nothing but a completion that broke off,
or a job BullMQ gave up, leaves an asset PENDING with nothing at work on it.

Catalog. `PublishedIsBacked` and `OfferIsBacked` say that what is published or
offered was complete once: its objects are in the bucket, though it may be in
processing again by the time it is played. `PublishedWhenReady` is about the check of
`canPublish`, several statements old when `Publish` runs: what is about to be published
is READY, a series by an episode that is itself published, except in the ways it
names. A full video was registered anew after its status was read; an episode was
unpublished after the episodes were listed; or the video had been replaced while an
earlier one was in the pipeline. The last is a limit of the media half
(`disturbed`): a job of the replaced video may set READY, and the next one take it back.

Checkout. `SuccessIsBought`: a page says "Your subscription is now active" of no
payment that bought nothing, though a row may later be overwritten, the browser
comes back before the webhook, and answers are late. `FailureFreesUser`: "You can
try again" is not followed by the 409 of the same payment. `ReturnNeverStuck`: the
chain of timeouts neither breaks nor doubles. `BillingFollowsCheckout`: two reads
at two moments agree with what was said before. `PageHears`: through any number of
lost answers the ending is shown at some time; that it *stays* is true of the return
page only, see `SubscribePageMovesOn` below.

Title desk. `DeskIsCurrent`: once at rest, the page shows what is stored, whatever
overlapped, with the exceptions `excused` names. `FiledWhereTouched`: an episode
goes to the season whose button is pressed, if that season's form was the last one
touched. The precondition is the code's limit: pressing the button under another
season than the one typed under files the episode where it was typed, because
`setEpisodeForm` in the handler comes too late for `addEpisode` (lines 134-137).

### Findings

Each is a `violation` run, with the documents' words in `PROJECT.json`.

1. `AckIsSubscribed`: a successful callback that precedes the storing of its
   reference, or follows the timeout, is answered 200 and dropped (`spec.md:43`).
2. `EveryPaymentResolves`: a bank checkout that is abandoned stays PENDING and
   blocks its user for ever (`spec.md:88`).
3. `EndedForGood`: a refresh that is past its check issues a live token after the
   reuse alarm revoked all (`auth.service.ts:83-85`).
4. `PlayFullPlays`: "Play full" asks for the trailer's asset and is answered 404
   (a bug of the title page, `page.tsx:93`).
5. `SubscribePageMovesOn`: a poll that was read PENDING and is answered after the
   final one puts "Check your phone" back, and the interval is already cleared
   (`spec.md:134`, SC-006).

More statements of the documents do not hold, and the runs check what does instead.

* `data-model.md:72-73` says that terminal states are final; the sweep's stale rows
  and `markFailed` overwrite resolved rows. `SuccessOverwritten` and `RefinesLife` say
  how far that goes.
* `transactions.service.ts:7-8` says that a user has one PENDING row at a time; two
  overlapping initiations both create one, and `PendingBounded` says how many there
  can be.
* `contracts/admin-api.md:16-17` says that a title cannot be published with no READY
  content beneath it. An admin unpublishes the last episode of a series between the
  listing and the update of another's `canPublish`, and an empty series is published;
  or the checked video is registered anew in between. `PublishedWhenReady` names
  these ways (`touched`), and shows that there are no others for an asset that was
  not replaced under way.

Three limits of the code have no document against them, and the models have them as
they are.

* Logout leaves the refresh cookie in the browser (`auth.controller.ts:76` and 96), and
  the next request that is answered 401 refreshes with it. That counts as the second
  use of a token and ends every session of the user, with no two calls overlapping and
  none cut short. `NoFalseAlarm` and `HonestSession` name this cause, `reused`.
* A download whose body breaks off or stalls leaves the one worker on its job for
  good, and everything queued behind it PENDING (`transcode.processor.ts:98-103`).
  `TranscodeSettles` exempts it.
* A video that replaces a READY one overwrites it object by object, the playlist
  before the segments. In between the READY asset has a playlist that lists segments
  not yet there, and keeps it if BullMQ gives the job up. `ReadyIsComplete` says
  that nothing else leads to it.

The exclusions in the properties mark two more. A job whose asset was registered
anew meanwhile sets it READY with the old video (`disturbed` in
`UndisturbedIsExact`); and an asset whose job could not be queued stays PENDING,
since nothing sweeps media assets (`abandoned` in `PendingIsAtWork`).

### Bounds

* Payments: `StkTimeout = 1`, `Period = 1`, and `MaxTime = 2` in the safety run: a
  push is fresh, at its timeout and overdue, and a subscription active and expired.
  A row is created only while `now + StkTimeout < MaxTime`: otherwise the stopped
  clock, not the code, would leave it pending; the other runs have `MaxTime = 3`. `MaxFaults` bounds faults to 1 (2 in `payments_live`). Two
  handlers of a kind are enough for a race between them, two rows and references
  for a mix-up, two users for a wrong beneficiary. The proofs remove all of these
  bounds from the safety results.
* `payments_live` has one row and no symmetry, which is unsound for liveness.
* Auth: two calls overlap in every pair of awaits; three tokens give a login and
  two refreshes, or two sessions; `MaxFaults = 1`. One address, for which two ids race:
  one account, in two browsers; and the lifetime of one token ends (`OneExpires`, a
  constraint of `MCAuthSessions`). A second account, or more expired tokens, do not fit
  in the time of a run; the proofs have any number of them.
* Media: two renditions (a mixture needs two), two uploads by two pages, of one and of
  two segments, so that the longer one replaces the shorter and the other way round;
  three faults: enough to hang, or to lose a job twice after that.
* Catalog: a movie and a series with two episodes, both of which can be READY; two raw
  uploads by two pages, two edits and one visitor, each of which runs against the
  others. One rendition of one segment and no faults: the faults belong to `media`. Only movies and
  episodes own media: trailers of a series play no part in the properties.

* Checkout: one page of each kind, two payments, two requests of a page in flight:
  two answers can arrive in the wrong order, and the billing page runs against a
  subscribe page and a return page. The proofs remove the bounds from the safety
  results. `checkout_moves_on` has one page. No symmetry, which is unsound for
  liveness.
* Title desk: two seasons (one form between them), one episode number in each, two
  calls and two loads in flight.

Deadlock is not checked: every run stops once its keys are used up and its
clock has stopped. That a handler does not get stuck is what the liveness
properties say.

### Fairness

`Payments!FairSpec`: the clock moves, the interval fires, the sweep and the
handlers run on (weak fairness). The outcome of a charge that was not answered
200 is delivered again (strong fairness: whether a slot for the handler is free is
an artefact of the model). Both gateways repeat failed deliveries; faults are
bounded, so deliveries do not fail for ever. Nothing is assumed of customers.
`MediaFairness`: the worker runs on and BullMQ's timer finds stalled jobs;
nothing is assumed of admins, and nothing of a worker whose download hangs: no step
of it is in `WorkerStep`, and `TranscodeSettles` does not speak of it. `Checkout!Fairness`: the timers of a watching page
fire (weak fairness of `PollSend`), and of the requests asked again and again some
are read and some answered (strong fairness of `PollRead` and `PollAnswer`: a lost
request disables them until the next one). Nothing is assumed of the backend's
resolving, the customer or the billing page. The safety-only components have no
fairness.

## 4. The proofs

Every safety property that a passing run checks, invariant or action property, with
the one exception of `PublishedWhenReady`, and both refinements, is a theorem about its specification, proved for every value of
the constants. Liveness is model-checked only. Each proof has one shape: an
inductive invariant that says what a handler still knows when it acts on what it
read earlier, one lemma per action with a step for each conjunct the action can
disturb, and the property as a consequence. The assumptions on constants are named
and are all that is assumed.

### Payments

`PaymentsProofs` proves, for any finite or infinite number of users, rows,
references and webhook handlers, any finite number of overlapping requests, any
timeout and period and any number of faults:

| Theorem | Property |
|---|---|
| `Invariance`, `TypeCorrect` | `IInv`, `TypeOK` |
| `NoDoubleActivation` | `OneSubscriptionPerPayment` |
| `NoFreeSubscription` | `SubscriptionIsPaidFor` |
| `ActivationIsAtomic` | `SucceededIsSubscribed` |
| `NoEarlyTimeout` | `TimedOutIsOverdue` |
| `NoUndeclinedFailure` | `LinkFailsOnlyIfDeclined` |
| `BankAckIsSafe` | `BankAckIsSubscribed` |
| `OverlapBoundsPending` | `PendingBounded` |
| `ViewsNeverDisagree` | `EntitlementViewsAgree` |
| `Refinement` | `RefinesLedger` |
| `LifeProofs!LifeRefinement` | `RefinesLife` |
| `LifeProofs!GrantedRowsRead` | `SuccessOverwritten` |

Assumptions: `TimesAssumption` (the numbers are naturals, a period is positive),
`NoneAssumption` (NULL is no key) and, for `OverlapBoundsPending` alone,
`RequestsAssumption` (a process has finitely many requests in hand).

The properties are not inductive. A handler acts on what it read earlier, so
`IInv` adds what it still knows when it acts:

* `RequestsOwnRows`: the row of an initiation is its own and its link is not out, so
  its catch block closes nobody's checkout (`LinkFailsOnlyIfDeclined`);
* `RequestsKnowCharges`: the reference it will store is that of its own push;
* `RowsAndChargesMatch`: a row's reference leads to a charge for this row, so
  `findForWebhook` never finds a stranger's (`SubscriptionIsPaidFor`);
* `PaidOnce`: one push per row, one paid attempt per link, so a 200 for one paid
  attempt cannot cover another (`BankAckIsSubscribed`, and `Pay` of the ledger);
* `DeliveriesKnowOutcomes`: a handler that will activate was told of a payment for
  its row, one that will mark FAILED of a declined attempt, whatever the row has
  become;
* `StaleIsOverdue`: what the sweep has in hand may be resolved, but was an overdue
  push (`TimedOutIsOverdue`).

There is one lemma per action (`<Action>Step`), with a step for each conjunct it
can disturb; `Frame` covers the unchanged ones, and `StatusUpdate` and
`SettledKeepAcks` what several actions share. `IInvNext` collects them. The
refinement (`LedgerStep`) maps a customer's payment to `Pay`, `CommitActivation`
to `Grant`, the clock to `Tick`, and all else to stuttering.

`OverlapBoundsPending` counts. `OnlyCreatePendingCounts` says that only the two
statements of `createPending` can add to a user's count. The first finds no pending
row, so what is left to count is the requests; the second puts a row in the place
of its request. `PendingIsFinite` is the strengthening that lets the rows be counted
although the keys may be infinitely many.

`ViewsNeverDisagree` rests on `LatestIsLatest`: `findFirst` by `expiresAt` descending
finds a row that expires last. That such a row exists needs a bound on the
expiries: `PeriodsFromNow`, no period reaches further than one from now, which is
inductive because an activation counts from the moment it is granted and does not
stack. The greatest expiry is then the least distance from the bound, by the
library's theorem that `<` is well-founded on the naturals.

`LifeProofs` rests on `PaymentsProofs`: one lemma per kind of step says which step
of `TransactionLife` it is (`CreateTransaction` is `Begin`, `CommitActivation`
`Succeed`, the three updates by primary key `GiveUp`), from the invariant's
`SucceededIsSubscribed` and from the fact that handlers hold rows that exist.

`GrantedRowsRead` looks at each update by primary key: which handler can still be on
its way to a row that was granted meanwhile? The sweep, with a push; a delivery that
was told of a declined attempt. A push has one attempt, and the delivery that grants
it was found by its reference, hence after it was stored: so it is not the row of an
initiator that goes to its catch block. `FoundByReference` is the strengthening that
says so, inductive beside `IInv`.

### Payment pages

`CheckoutProofs` proves, for any number of pages, payments and requests in flight:

| Theorem | Property |
|---|---|
| `CheckoutInvariance` | `IInv` |
| `NoFalseSuccess` | `SuccessIsBought` |
| `NoFalseFailure` | `FailureFreesUser` |
| `ReturnAsksOn` | `ReturnNeverStuck` |
| `BillingReadsTheWrites` | `BillingFollowsCheckout` |

The only assumption is `PagesAssumption` (the two kinds of page are disjoint, null
is no key). An answer is used long after it was read, so `IInv` adds what it then
still says: `AnswersStayTrue` (an ending read is true for good; PENDING is not, and
is claimed of nothing), `RowsOfPages`, `OnlyWatchersAsk`, `OneAtATime` (the chain
of the return page) and `BillingKnowsDue` (what is due was bought before the first
of the two reads).

### Sessions

`AuthProofs` proves, for any number of users, browsers, calls and tokens and any
number of faults:

| Theorem | Property |
|---|---|
| `Invariant` | `IInv` |
| `AccountsUnique` | `OneAccountPerEmail` |
| `RotationSound` | `OneLivePerFamily` |
| `EndIsFinal` | `EndedIsOver` |
| `DeathIsFinal` | `DeadStaysDead` |
| `AlarmsAreTrue` | `NoFalseAlarm` |
| `SessionsSurvive` | `HonestSession` |

Assumptions: `NoneAssumption` and `FaultsAssumption`. `IInv` has three parts, each of
which rests on the ones before it:

* `SessionInv`: rows, calls and cookies belong to families (`RowsOfFamilies`,
  `CallsHoldRows`, `CookiesHoldRows`, `HistoryIsOfFamilies`), and `SessionsOrderly` says what a call that
  has revoked a token and not yet issued the next one leaves of its session.
  `AccountsUnique`, `RotationSound`, `EndIsFinal` and `DeathIsFinal` follow from this
  part alone;
* `Custody`: a session stays in one browser (`OneHolder`), nobody has seen a token
  that was not answered yet (`FreshUntilAnswered`), and a call that does not overlap
  another carries the cookie its browser still has, if it has one of that session
  (`CallIsOfCookie`);
* `Honesty`: then the token a refresh was sent with is active until it is exchanged,
  and that of a logout unless the session is over (`HonestCall`), so the reuse branch
  of `refresh` is not reached but by a session that had ended. `NoFalseAlarm` and
  `HonestSession` need one another: an alarm for one session of a user revokes the
  tokens of all others.

`DeadStaysDead` is an action property: `DeadStep` goes through the actions and shows
that none issues a token into a family without a live one and without a call past
its check.

### Media and catalog

`PipelineProofs` proves a lemma `<Action>Keeps` for every action of `MediaPipeline`:
it preserves `MediaInv`. `MediaProofs` and `CatalogProofs` use the same lemmas, each in
its own specification. `MediaProofs` proves, for any number of assets, uploads, pages
and renditions and any number of faults:

| Theorem | Property |
|---|---|
| `Invariant` | `MediaInv` |
| `ReadyMeansComplete` | `ReadyIsComplete` |
| `SettledMeansWhole` | `SettledIsWhole` |
| `UndisturbedMeansExact` | `UndisturbedIsExact` |
| `PendingMeansAtWork` | `PendingIsAtWork` |

Assumptions: `MediaAssumption` and `NoneAssumption` (null is neither a key nor a job).
To the properties `MediaInv` adds three parts: `UploadsHaveRows` (a page at work has a
row to come back to), `WorkerIsSound` (the objects that are not in `left` were made from
the worker's source, and are still its own when it sets READY: there is one worker) and
`WorkIsOfTheRow` (what is queued, orphaned, in hand or being uploaded for an
undisturbed video is of the source its row names). The properties speak of one
asset at a time, so the proof does too: `AssetIsSound(a)` collects what `MediaInv` says
of `a`, a step has to be looked at for the asset it touches, and `SoundAssets` puts
the assets together again. `ObjectsStay` says that no step takes an object of the
bucket away.

`CatalogProofs` proves, for any catalog of movies, series, seasons and episodes, over
the whole pipeline:

| Theorem | Property |
|---|---|
| `Invariant` | `IInv` |
| `PublishedCanBePlayed` | `PublishedIsBacked` |
| `OffersAreBacked` | `OfferIsBacked` |

Assumption: `OwnersAssumption` (a title is a movie or a series, and no episode; what
may be played is an owner of media). The check of `canPublish` is stale when `Publish`
runs. `EditIsJustified` says what is left of it for certain: a title or an episode is
never deleted, an episode stays in its series (`EpisodesAreFiled`), an object stays in
the bucket. That it was READY is not among it. The lemmas are about the two halves of the state: a step of the pipeline
keeps the catalog's part, by `ObjectsStay`, and a step of the catalog keeps `MediaInv`.
`CatalogRunsThePipeline` says the same of behaviours: the media half of `Catalog` is a
behaviour of the pipeline on its own, so what is proved of `Media` holds in it.

### The admin's title page

`TitleDeskProofs` proves, for any number of seasons, episode numbers, calls and
loads in flight:

| Theorem | Property |
|---|---|
| `Invariant` | `IInv` |
| `DeskShowsTheTitle` | `DeskIsCurrent` |
| `EpisodesAreFiledWhereTouched` | `FiledWhereTouched` |

Assumption: `NoneAssumption`. `LoadsFollow` is what `DeskIsCurrent` needs: unless one of
the excuses applies, the page shows what is stored, or an applied call is still
unanswered, or a load is in flight; and what a load has read is what is stored, or
another load follows. `FormIsWhereTouched` is what `FiledWhereTouched` needs: the form
names the season of the last keystroke or press.

### Model-checked only

* Liveness, which is out of the prover's reach: `PushIsResolved`,
  `BankPaymentActivates`, `TranscodeSettles`, `PageHears`.
* `PublishedWhenReady`: the proof needs that a READY asset that was not disturbed has no
  job and no page at work on it, which `MediaInv` does not say.
* The violation runs: a counterexample needs no proof.

`PendingIsFinite`, `PeriodsFromNow` and `FoundByReference`, which only the proofs use, hold in
the states of `payments_safety` too; no run keeps checking them.

## 5. The plan

Done: 1. payments with entitlement and their ledger, checked and proved; 2. sessions;
3. the media pipeline; 4. the catalog over it; 5. the life of a transaction, refined
by payments, and the payment pages over it, checked and proved; 6. the admin's
title page with the unique numbers; 7. proofs of the sessions, the media pipeline,
the catalog and the admin's title page, and of the counting properties of payments.

Next, in this order:

1. `PublishedWhenReady` as a theorem: `MediaInv` with the conjunct that a READY asset
   that was not disturbed is `Quiet`.
2. Abstract specifications: of a session (open, then ended) for sequential
   clients, and of a published video; with proofs that `AuthSessions` and `Catalog`
   implement them, step by step.
3. More of the system: the access token of a tab and its refresh, the paging of
   `listTitles`, several workers.

Not modelled, and why: access-token and role guards, configuration, logging, the
error filter and DTO validation keep no state between requests; the player and the
lists of titles show one answer of the API; genres and descriptive fields carry no
rule; the layout of pages is left out; the signing and expiry of URLs is cryptography and
a clock on the client's side; ffmpeg is a step that succeeds or fails.
