# Verification of VYNOR CRM

VYNOR is a CRM for conversations over many channels: an API (`apps/api`), a worker
(`apps/worker`), a web client (`apps/web`), PostgreSQL, Redis with BullMQ, and the providers
(WhatsApp, Telegram, LINE, Messenger, Instagram, e-mail, web chat, custom APIs). This directory
holds TLA+ models of the parts whose correctness depends on order, failure and concurrency, TLC
configurations for small instances, and TLAPS proofs. Paths are relative to the repository.

## The system

| component | state | operations | hard behaviour |
|---|---|---|---|
| transactional outbox (`packages/database/src/outbox.ts`) | `outbox_events`: status, claim, lease, retry count | create in the business transaction, claim with SKIP LOCKED, recover expired leases | several workers, crashes between statements, lost answers |
| outbox dispatcher, reconciliation (`apps/worker/src/outbox`) | batch in memory, `isProcessing`, `isShuttingDown` | poll, send, complete, fail, release, recover; alert about lost jobs | late workers that write by id only; Redis losing what it took |
| job transports (`apps/worker/src/queue`) | BullMQ jobs in Redis, pg-boss jobs of before the cutover | start, retry, register, send, probe, drain, close | shutdown while a start is in flight, stalls |
| outbound dispatcher (`apps/worker/src/processing`) | `messages.status`, provider id | send, markSent, fail, failStuckMessages | two runs of one job, provider timeouts |
| webhook ingest, provider event journal, inbound processor | `provider_events` | verify, journal, transition, replay, process | redelivery, partial failure, retries |
| conversation ingest and replies (`apps/worker/src/conversations`, `apps/api/src/conversations`) | conversations, messages, contacts | ingestMessage, applyReceipt, sendMessage, retryMessage, update, markRead, list | sender locks, rows read and written later, assignment caps, cursors over lists that move |
| channels: polling, health, administration (`apps/worker/src/polling`, `apps/worker/src/channels`, `apps/api/src/channels`) | `provider_accounts`: status, credentials, lease, cursor, settings | tick, pollChannel, recordFailure, recordSuccess, create, update, reconnect, test, remove | leases that run out, rows read before a provider call and written after it |
| channel adapters (`packages/channel-adapters`) | none of their own; provider accounts and mailboxes | extractEvents, normalizeInbound, pollInbound, sendMessage, registerWebhook, downloadMedia | ids unique in different scopes, error categories, registration in several requests |
| credentials (`packages/shared/src/crypto`) | key ring of a process, sealed envelopes | seal, open, rotate | processes on both sides of a rotation |
| idempotent requests, rate limits, probes (`apps/api/src/common`, `apps/api/src/redis`) | records and counters in Redis | claim, complete, release, hit, check | expiry, scripts executed late, Redis away |
| access (`apps/api/src/iam`, `apps/api/src/realtime`) | tokens, memberships, socket rooms | verify, resolve the actor, permit, join, leave | rights that change during a request |
| storage (`packages/storage`, `apps/api/src/storage`) | attachments, objects, signed links | upload, scan, sign, delete | links that outlive what they were signed for |
| web chat (`apps/api/src/webchat`) | visitor session, widget's cursor | start, post, poll | overlapping polls, rows that become visible out of order |
| web client (`apps/web`) | session, query cache, drafts, localStorage, timers | sign in and out, show, answer, connect, broadcast, preview and edit agents | answers that come late, broken sockets, several tabs |

The parts meet in the database and in the queue. The API (and, for inbound messages, the worker)
writes a business row and an outbox event in one transaction; the dispatcher of some worker
claims the event and adds a BullMQ job; the handler of the job calls a provider and updates the
business row; receipts and inbound messages come back through webhooks or polling into the
journal of provider events, and from there through the same outbox into a conversation. A
notification inside the transaction tells the relay, the relay tells the browsers, and the browsers
read again. Nothing holds a lock over a provider call, and most updates are by primary key, so
correctness rests on guards in a few `WHERE` clauses, on leases and on deduplication. That is what
the models are about.

## Modules

| module | models | state and actions |
|---|---|---|
| `Handover` | what the outbox promises | events requested, enqueued, confirmed, abandoned |
| `Outbox` | `outbox.ts`, `outbox-dispatcher.service.ts`, `BullMqJobQueue.send` and its probe | the columns of `outbox_events`; per worker its position in `pollAndDispatch`, its batch, the retry counts its claim returned; one action per statement or queue command, one more for each that may throw |
| `DeliveryStatus` | `delivery-status.ts` | the rule, and the specification "every change of a status obeys it" |
| `OutboundDelivery` | `sendMessage`/`retryMessage`, `OutboundDispatcherService`, receipts | reply rows, BullMQ jobs with owner, attempts and stalls, runs of `send`, the reconciler of stuck replies, retry requests, receipts between read and guarded update |
| `InboundProcessing` | `webhook-ingest.service.ts`, `provider-events.ts`, `inbound-processor.service.ts` | webhook calls and the channels they concern, journal rows, jobs, runs of `process` result by result, receipts that come before their message, manual replay |
| `ConversationIngest` | `conversation-ingest.service.ts`, `conversations.service.ts` | conversations; ingests between lookup, choice of an agent and commit; requests of agents between read and write |
| `EmailThreads` | `buildIntent`, e-mail `normalizeInbound`, `findEmailThread` | letters with References and In-Reply-To, where they are stored, replies that are sent and recorded in two steps |
| `Channels` | `ChannelPollingService`, `ChannelHealthRecorder`, `ChannelsService` | one `provider_accounts` row, the journal, polls and sends with the row they read, requests of administrators, the provider's events and credentials |
| `ChannelSettings` | `channels.service.ts` `update` | settings merged into a row that was read earlier, members replaced in the transaction |
| `InboundAdapters` | `extractEvents`, `normalizeInbound` of all webhook adapters | what customers did and providers reported, journal keys, stored rows and receipts |
| `Mailbox`, `TelegramUpdates` | `pollInbound` of e-mail and Telegram, Telegram's webhook | the mailbox or update queue at the provider, the poll step by step, cursor and offset |
| `OutboundAdapters` | `sendMessage` and the error mappers | what is the matter at the provider, how it says so, what category the adapter makes of it, what the job does then |
| `AdapterAccounts` | `verifyCredentials`, `registerWebhook`, `healthCheck`, `downloadMedia` | the account in the provider's console, requests that may fail one by one, bytes of a download |
| `KeyRotation` | `credential-cipher.ts`, `credential-store.ts` | environment, key rings of processes, sealed envelopes, generated secrets |
| `Idempotency` | the interceptor and the Redis store | one record, requests with their position in `intercept`, Lua scripts that may run after the client gave up |
| `SharedState` | `rate-limit-store.ts`, `redis.module.ts`, `health-check.ts` | counters with windows in Redis and in memory, hits whose answer is lost, probes |
| `RequestAccess` | guards, `jwt-verifier.service.ts`, `actor-context.service.ts`, `realtime.gateway.ts` | a request between its queries, rights that change, sockets and rooms |
| `ObjectStorage` | `packages/storage`, `storage.service.ts` | attachments, objects, scan states, links with an expiry |
| `InboxPages` | `list`, `listMessages`, `pagination.ts` | walks with a cursor over rows that move |
| `WebChat` | `webchat.service.ts`, `widget-script.ts` | rows with the time of their transaction, polls in flight, `lastSeen`, badge and bubbles |
| `JobTransports` | `bullmq-job-queue.ts`, `pg-boss.service.ts`, `draining-job-queue.ts`, the drain monitor | how far each transport's start is, what is open, handlers, old jobs, Nest's hooks |
| `WorkerHeartbeat` | `heartbeat.ts`, `worker-heartbeat.service.ts`, the health check | ages of file, beat and last service in ticks |
| `OutboxReconciliation` | `outbox-reconciliation.service.ts` | completed events, jobs Redis has or lost, a check under way |
| `Transactions` | `transaction.ts` | callers, row locks, PostgreSQL's deadlock detector, retries |
| `RealtimeSync` | `realtime-notify.ts`, the relay, `realtime-client.ts`, the query's polling | versions of a row, listening connections, socket, token, fetch in flight |
| `ClientSession` | `auth-context.tsx`, `middleware.ts`, the login page | session, actor, cookie, dev session, what Supabase holds, questions in flight |
| `InboxClient` | `lib/inbox`, `inbox/page.tsx` | server rows, the two cached queries, selection, mutations in flight |
| `ChannelSetup` | the channels page, its panel and dialog | inboxes, drafts, typed values, requests in flight |
| `Campaigns` | `BroadcastWizard.tsx`, `BlastDispatcher.tsx` | wizard step and data, telemetry, parsed rows, timers |
| `AgentPreview`, `AgentStore` | `preview-engine.ts`, `AgentTestChat.tsx`; `repository.ts` and the agent editor | the conversation, waiting messages and settings; localStorage, memory fallback, caches and drafts of two tabs |
| `OutboxProofs`, `OutboundDeliveryProofs`, `ChannelsProofs`, `InboundProcessingProofs` | | theorems about the module they are named after |
| `WorkerProofs`, `ServicesProofs`, `ExchangeProofs`, `ClientProofs` | | theorems about the sums `MCWorker`, `MCServices`, `MCExchange`, `MCClient` |
| `MC*` | | instances and compositions; `Outbox`, `OutboundDelivery` and `Channels` are checked as they are |

`OutboundDelivery` and `InboundProcessing` use the outbox through its promise only (a requested job is
enqueued at least once or never), which is what `Outbox` is shown to implement. `DeliveryStatus` is
instantiated by `OutboundDelivery`, `Handover` by `Outbox`. `MCWorker`, `MCExchange`, `MCServices` and
`MCClient` are sums: a variable `part`, fixed at the start, says which component a behaviour is about,
and the others keep one of their initial states. Each component keeps its own properties, and the
properties of the sum are conjunctions of them.

Names follow the code. `map` in `PROJECT.json` gives the lines of every definition.

### Conventions

* One statement or transaction, one Redis script, one provider call, one task of a browser tab is
  one step; everything interleaves between steps. What a process read before a call is kept (`seen`,
  `row`, `snap`, `from`, `base`...), because the code goes on with it.
* A failed call is ambiguous where it is in reality: a write that throws may have been applied
  (`WriteX \/ UNCHANGED`), an add or a script whose client timed out may be executed later
  (`inflight`, `transit`), a provider call that throws may have been accepted.
* Time is abstract but where durations are compared. A lease or a TTL may run out at any moment, since
  no code compares it with the duration of the work it protects; heartbeats, rate-limit windows
  and links count ticks. Backoff is not modelled: a retry may come at any time.
* `faults` counts crashes, outages and failed calls and is capped by `MaxFaults`. Variables marked
  *history* are read by properties and by no guard, but for `copies` and `accepted`, which also stand for
  what the provider and the queue know.
* Definitions marked *Mutant* are plausible bugs. No specification uses them; they show that the
  properties can fail.

### What is abstracted, by module

* `Outbox`: the payload and the queue an event type is routed to; the order of rows within a claim
  (any subset of the pending rows up to the batch size); the metrics.
* `OutboundDelivery`: private notes are excluded (they are never sent). A provider id is the number
  of the copy; the fallback of `markSent` for a unique violation, which stores no id, is id 0.
  BullMQ's lock is an owner: a run that lost it goes on and its verdict is ignored.
* `InboundProcessing`: what `normalizeInbound` makes of an event is a constant; signature checks happen
  before the model begins. `persistProviderEvent`, which the program does not call, is left out.
* `ConversationIngest`: one channel; names and contact details; a cap that is not enabled is one that
  is never reached. `EmailThreads` stores letters one at a time; ids are shorter than the columns.
* `Channels`: one mailbox that stays in polling mode and keeps its UIDVALIDITY (`Mailbox` has the rest). A
  credential is a number that grows with every reconnection.
* adapters: a payload is its kind, its numbers and what it refers to; texts, captions, formats and
  signatures are left out; Messenger and Instagram are one provider where their code is shared.
* `Idempotency`: one key. The in-memory store has the same operations without failures.
* `RequestAccess`, `ObjectStorage`: signatures are unforgeable. No caller of upload, scan and delete
  exists in the repository yet; those steps are the ones the policies allow.
* client modules: a page is what it shows of the state that several steps write; layout, texts,
  toasts, search fields and sample data are left out. A person's input is any value of a small set.

## Runs

States are distinct states; every run ends within three minutes on two cores.

| run | instance | shows |
|---|---|---|
| `outbox` | 2 workers, 1 event, 2 attempts, 3 faults | `TableIsSound`, `ExclusiveUntilExpiry`, `AttemptsBounded`; `Outbox` implements `Handover`; `EventuallySettled` |
| `outbound` | 1 reply, 2 jobs, 2 runs, 1 retry, 1 receipt at a time, 1 fault | `SentIsGenuine`, `DuplicateNeedsFaultOrRetry`, `StatusMonotonic`, `PendingEnds` |
| `outbound_two_retries` | 2 retry requests, no fault | violation of `OnlyFailedIsRetried` |
| `channels` | 2 pollers, 1 administrator, 1 event, 2 credentials, no fault | `CursorCovers`, `CursorBackNeedsLapse` with overlapping polls, removal, revival and reconnection |
| `channels_live` | 1 poller, 1 sender, 1 event, 3 faults | `InboundArrives`, `WarningClears` |
| `channels_reconnect` | 1 poller, 1 administrator, no fault | violation of `DisconnectedIsDeserved` |
| `inbound` | 1 webhook call for 2 channels, 2 events with the same message and a receipt, 2 workers, 1 fault | `JournalIsTrue`, `OneRowPerMessage`, `FinishedStaysFinished`, `EventuallySettled`; deadlock is checked |
| `conversations_reopen` | 5 messages of 4 senders, 1 request | violation of `InboundReopens` |
| `worker` | 2 queues, 1 old job, 2 faults; beats of 2 ticks; 3 events, 1 candidate per check; 3 callers, 2 rows | `TransportsSound`, `ReportsAreTrue`, `TransactionsAtomic`, `WorkerProgress` |
| `exchange` | 2 customers, 3 provider events; 3 mails, 4 updates; 3 attempts; 3 keys, 2 processes; 5 messages of 4 senders; 5 letters (1.9 M states) | `InboundIsFaithful`, `NothingFetchedIsLost`, `FailuresAreUnderstood`, `AccountsAreUsable`, `ConversationsAreInOrder`, `SetupStaysTrue` |
| `services` | 3 requests with one key; 2 rows and 1 post; 2 workspaces; 2 instances, a limit of 1 in 2 ticks; 1 attachment; 3 conversations in pages of 1; 2 administrators | `RequestsTakeEffectOnce`, `ChatShowsAll`, `RightsAreHeld`, `LimitsAreShared`, `WalksAreComplete`, `StepsKeepPromises` |
| `client` | 2 changes and 2 broken connections; 2 conversations; 2 inboxes of 3 platforms; 2 audiences; 2 agents in 2 tabs (476 k states) | `ClientShowsTheTruth`, `ActionsAreAuthorised`, `ClientStepsKeepPromises`, `ChangesAreShown` |

What the properties that join several say:

* `TableIsSound`: a COMPLETED row's job was accepted by the queue; a PROCESSING row has a lease; a
  DEAD_LETTER row used its attempts.
* `SentIsGenuine`: a reply shown as sent was accepted by the provider, and its provider id is that of one
  of its own copies.
* `JournalIsTrue`: what a webhook call was acknowledged for is journaled; PROCESSED means that all results
  were applied; no event of a connected channel ends without trace; a receipt without a message is
  given up only after its attempts.
* `TransportsSound`: every handler is registered exactly once, and nothing started or timed outlives the
  shutdown. `ReportsAreTrue`: "drain complete" is final, a fresh heartbeat means that this process could
  work not long ago, a worker that can work is not reported unhealthy, an alert is about a job BullMQ does
  not have. `TransactionsAtomic`: retried transactions take effect once and on all rows.
  `WorkerProgress`: old jobs are all run, a shutdown closes every connection, every lost job is found.
* `InboundIsFaithful`: whatever order and however often webhooks come, two actions are never one row, no
  report is swallowed by another's key, a quote finds its message, echoes stay out, offered media can
  be opened. `NothingFetchedIsLost`: no mail and no Telegram update is passed over, old mail stays
  out, a silent Telegram channel says so. `FailuresAreUnderstood`: a channel is to be reconnected only
  when its credentials are at fault, a reply is given up early only for a reason a retry cannot cure, LINE
  takes a retried reply once. `AccountsAreUsable`: identifiers of an account belong together, downloads
  stay within the limit, processes with the deployed keys open every envelope. `SetupStaysTrue`: a
  webhook is reported as registered only when it is called, secrets survive a reconnect.
* `ConversationsAreInOrder`: one unresolved conversation per chat sender, its last message is the latest,
  automatic assignment honours the cap (unless ingests of two senders overlap) and takes turns; an answer
  by e-mail is stored with the letter it answers, and finds its conversation by the first reference alone
  when the reply was never recorded.
* `RequestsTakeEffectOnce`: a replay is genuine, one handler runs at a time, a second change needs a
  slip that the code cannot see. `ChatShowsAll`: no reply is passed over, badge and bubbles count once.
  `RightsAreHeld`: a handler ran with a right the account held during the request; sockets receive their
  own workspace only; links lead into the caller's workspace and end soon after a deletion.
  `LimitsAreShared`: one limit for all instances, who is refused made too many hits, counters stay bounded.
  `WalksAreComplete`: a walk misses no conversation that stayed as it was and shows each message once.
  `StepsKeepPromises`: no step ends another request's record, lets an open widget stop asking, tells a
  client to refresh a token that has not expired, reports ready what was not reached, links an infected
  file, or stores other settings than were asked for when it is alone.
* `ClientShowsTheTruth`: hints suffice while none is lost, and the relay never stays down; no reply is
  shown that the server does not have; the preview answers from what it may remember and leaves no message
  waiting; the repository returns what its users were told is saved. `ActionsAreAuthorised`: actor
  and cookie belong to the session in use; a channel is connected with what was typed for its platform; a
  broadcast goes out as authorised, its counts add up, a blast reaches each valid number once.
  `ClientStepsKeepPromises`: no step ends a dev session because Supabase has none, saves more of an
  inbox than was edited, lets an agent write against its settings, or drops an item of a draft.
  `ChangesAreShown`: again and again every change is shown, the open conversation is read, and a broadcast
  that was not paused or closed completes.

### Why the bounds are enough

* Two workers, runs, pollers, instances, tabs or administrators are the smallest number with a stale
  one and a fresh one. Rows are independent in the outbox but for the claim and the release of a batch.
* Two attempts instead of five: the interesting transitions are below, at and above the limit.
  `RetryLimit = 1` gives a first and a final attempt. Two jobs are the reply and its retry.
* Three requests: one that makes the change, one that takes over an expired record, one that repeats. Two
  faults let a timed-out script meet them.
* One event tells an older cursor from a newer one; two credentials the old from the new. The third
  failed call is the one that is recorded for a transient error.
* Five letters with two references per reply: first letter, reply, answer, a reply that has to cut its
  list, and the answer to that one; only the first may be new, lack an id or answer a stranger. Three conversations in pages of one: one before, at and after a cursor.
* Audiences below and above the limit that asks for a second authorisation; files with a repeated, a
  blocked and an invalid number; limits of one or two so that they are reached.
* Deadlock is checked in `inbound`. The other models stop when their bounded inputs are used up.

### Fairness

* `Outbox!Fairness`: the event loop of a live process goes on (weak fairness for every continuation),
  the supervisor restarts a worker, ioredis reconnects for ever, time passes. A claim of a given event
  has strong fairness, because the row alternates between claimable and not, and the claim takes
  the oldest rows first. Failures have no fairness and are finite.
* `OutboundDelivery!Fairness`: only the clock and the reconciler's timer. Neither the outbox, the queue
  nor any run is assumed to do anything.
* `Channels!Fairness`: the timers and promises of the pollers, and the clock. Taking the lease is
  strongly fair: it is enabled between polls of others, and a poller tries again on each tick.
* `InboundProcessing!FairSpec`: the outbox enqueues (`EventuallySettled` of `Outbox`), BullMQ hands jobs to free
  workers and notices stalls, a live run goes on. Webhook calls and replays have none.
* `MCWorker!Fairness`: retry timers fire, an attempt ends one way or the other once its server is back,
  BullMQ and pg-boss run what they hold, the check of the reconciliation comes again.
* `MCClient!Fairness`: `refetchInterval` asks again and is answered in the end, the dispatch timer ticks, a
  request to mark a conversation read arrives. Neither sockets nor notifications are assumed to work.

## Proofs

Each theorem holds for all constants under the `ASSUME`s of its module: limits are natural numbers
(positive where the code divides work by them or needs one attempt), null values lie outside their sets,
and sets are finite where cardinalities are used. TLC evaluates every assumption. A proof has one
lemma per action; the invariants of the sums are one per component, guarded by `part`, because a step of
one component leaves the others alone.

`OutboxProofs`: `IndInv` is the type invariant, `PcInv` (the program counter and the current event of
a worker agree, and a worker about to write COMPLETED had its job accepted), `SeenInv` (a count a
worker works with is never ahead of the row's, which makes the dead-letter decision safe
although it is made from an old count), `LeaseInv`, `OwnerInv` (as long as no lease of an event ran
out, whoever works on it is the one the row names and the row cannot be claimed), `CreatedInv`, and the
invariants themselves. Theorems: `TypeCorrect`, `CompletedAfterAccepted`, `ProcessingIsRecoverable`,
`NoEarlyDeadLetter`, `TableStaysSound`, `Exclusion`, and `ImplementsHandover`, the refinement.
`AttemptsStayBounded` is a counting argument. Nothing compares a row's `retryCount` with the limit when it is
claimed, so a late worker with an old count can put an exhausted row back. `BudgetInv` says what that
costs: once the limit is reached, the count plus the workers that still know a smaller one (`Behind`), plus
those that hold the row, stays below the limit plus two for each worker. A step leaves both sets alone,
lets a row go, takes it, fails it or recovers it, and each of these kinds pays for what it adds.
`ClaimantInv` (the last claimant of a PROCESSING row knows its count) is what a recovery pays with.

`OutboundDeliveryProofs`: `IndInv` adds `JobInv` (a requested job names a reply that exists), `RunInv` (a
run whose provider call returned has a copy to show for it) and `ReceiptInv` (a receipt on its way
is about a copy and moves the status it was read against forward). Theorems: `TypeCorrect`,
`SentAfterAccepted`, `ProviderIdsAreCopies`, `SentStaysGenuine` and `MonotonicWithOneRetry`. The last one is
conditional: as the run `outbound_two_retries` shows, overlapping retries break the rule, so it assumes
that there is at most one retry request at a time (`\A a, b \in Agent : a = b`); the additional invariant
`RetryInv` then says that the reply a request is about to write is still FAILED. `SecondCopyIsExplained`
needs `QuietInv`: while there was no fault, a job has at most one run, which owns it, and a reply that no
agent sent again has one job, and no copy before the provider call of that job returned (`CopiesOf`).

`ChannelsProofs`: `CursorCovers` is not inductive, because a poll saves a cursor that it computed from
the one its lease returned. `FromCovers` states the same for every poll under way, and `WithinArrived`
bounds what polls and create requests bring back. Theorems: `TypeCorrect`, `NoEventSkipped`, and
`CursorMovesForward`: as long as no lease ran out and no call failed, the poll that works is the one that holds
the lease, and it started from the cursor that is stored (`LeaseHeld`); a create request on its way
belongs to a removed channel and brings no older cursor (`CreateWaits`). The theorem assumes one
administrator at a time, since of two create requests the later may bring back the older cursor.

`InboundProcessingProofs`: journal rows, jobs, runs and webhook calls are tied to one another. A job exists only
for a journaled event and counts its attempts and stalls (`JobInv`); each event a call brought for a
connected channel is journaled or still to do (`CallInv`); a run knows no more attempts than the row has
(`RunInv`) and has dealt with every result before the one it is at, as a PROCESSED event has with all
(`DoneInv`). As long as no lock was lost and nobody replayed the event, its run holds the job (`OwnerInv`) and
goes on with an open event only (`OpenInv`), so that a finished job has a finished event (`LossInv`).
Theorems: `InboundInvariant`, `MessagesAreStoredOnce`, `JournalTellsTheTruth`, `DoneIsNotReopened`.

`WorkerProofs`: `TxInv` says which rows the open transaction of a caller has written by its position and that
an effect is complete or absent, an unanswered COMMIT included (`TransactionsTakeEffectOnce`). `RecInv` says
that a job that was handed over is held by BullMQ or pg-boss or is lost, and that what a check has found
missing is lost or in pg-boss, whatever ran in between (`AlertsAreReal`). `HbServed` bounds the age of
the last service by the ages of file and beat plus the slack a ping and a blocked event loop leave, and `HbHealthy` the other direction (`HeartbeatIsTrue`). `TrInv`
follows a transport from timer to connection to registration and back; it says which handlers are
registered, pending or in registration at each stage (`HandlersAreRegisteredOnce`), and which old jobs can
still exist when the drain is reported (`WorkerReportsAreTrue`).

`ServicesProofs`: `IdempotencyInv` ties the stored record to the one request that wrote it, also through
scripts that are executed after their request ended (`OneEffectPerKey`). `AccessInv` and `StorageInv` follow what a
request or a link has established to the moment it was read (`NoRightIsInvented`). `ChatInv` says that
a row up to the cursor of the widget, or of an answer on its way, is shown with that answer, and that a row
still being written will have been overtaken by then (`WidgetShowsEverything`). `PagesInv` says of a walk that
a row that did not move is shown or below its cursor (`NoRowIsSkipped`); that the last row of a full page bounds what
is left comes from counting with the library's theorems about finite sets. `LimitsInv` counts what each
identity was admitted in an interval, answers on their way included (`Admitted`): an open window has admitted no
more than its counter and less than that after its first moment, and what the window before it admitted since one window
length before its start is below the limit (`AdmittedInv`). The sum over a span that straddles the two is the bound
(`LimitsHoldAcrossInstances`). `StepsKeepTheirPromises` proves the action properties from these invariants,
`ProbeInv` and `SettingsInv`.

`ExchangeProofs`: `KeysInv` (a process that was not restarted seals with a key the environment still has)
and `AccountsInv` give `ConnectedIsUsable` and `SetupIsTrue`. `UpdatesInv` and `MailInv` describe a poll in
progress: what is due at or below its cursor is saved, what is above is fetched or still ahead, and what it
will save has a key of its own, also when the key is made of a UID (`EverythingIsFetched`).
`SendInv` says that a reply to be tried again has met nothing but what may pass, and that LINE remembers
the key of the one copy it took (`FailuresAreBlamedRightly`). `EventsInv` says in which scope the numbers of each
provider are unique, and `WayInInv` that every delivered event is journaled under its own key and has its
effect when it is no longer pending (`InboundStaysFaithful`).
`ConversationsStayInOrder` has two halves. `CoreInv` is about overlapping ingests: `OneInv` ties what an ingest read
under the lock of its sender to the conversations there are, so that the one it is about to make is the only one;
`CapInv` says that an agent who was chosen has room for one more unless assignments overlapped; `TurnsInv` that, under
the same condition, who waits the longest was given the fewest and is the one who is chosen; `LatestInv` that a row has
the latest of its times, and that an ingest knows it, unless another transaction wrote the row in between. `ThreadInv` is about letters, and its parts
are stated over the values of the variables, so that a lemma about letters needs no step. `LettersOK` says what a
letter lists: an answer lists first what the letter it answers would be looked up by, and nobody answers a reply that was
not sent. `ThreadsOK` says that two conversations have two threads and that a thread is never younger than its letters,
which makes the first entry of the timeline the thread of a rooted reply however the list was cut (`Enough`). `Joined`
says, as long as no letter came too early, that a conversation holds the letter its thread is called after and the first
letter that an answer to one of its letters would list.

`ClientProofs`: `SyncInv` says that as long as no hint was lost, data that is behind is marked so or is being
fetched, and that a relay that is down has a timer that fires. `SessInv` follows session, actor, cookie and the
questions under way through sign-in, refresh and sign-out. `StoreInv` compares each shelf of agents with what its
users were told, read through the repair of broken entries. `SetupInv` says of the panel and of every save under
way that a field that was not edited is as it was when the panel was opened, and `PreviewInv` that a chat handed
over silently is pending; together they give `ClientKeepsPromises`. `SyncInv` and `StoreInv` also
give what `ClientTellsTheTruth` says of the screen and of the store of agents, and `SessInv` what `ClientIsAuthorised`
says of the session.

The other two parts of `ClientTellsTheTruth` are about the inbox page and the preview of an agent. `InboxInv` says of a
conversation that was behind what its reader is owed, or shows a reply whose request is still open, that it is marked
stale, has its reply being sent or is being read, and that a read which has its answer brings everything that is owed
(`ShownInv`); a reply that is on its way is counted against the sends, so that every number stays in its range
(`StoredInv`). `MemoryInv` says of the preview that the messages that wait are the last of the entries, belong to
the session and are the customer's (`Waiting`), and that two entries of the customer are never the same
(`Numbered`); so the places left after as many of the last places as messages wait hold none of them. The model states
the history as a set of places in the chat: no theorem about `SelectSeq` is in the prover's reach, and the rest of the
engine asks only which places are remembered.

The rest of `ClientIsAuthorised` rests on `PageInv` and `CampaignInv`. `PageInv` says of the Channels page that the server knows
every inbox that a list, a request or the dialog names, and by the same platform (`KnownBy`, `Has`: platforms never
change, so what was known stays known); that a secret in the form was typed into this dialog for its platform
(`ValuesOK`); that the dialog waits for at most one request, for the platform it shows, and that all others are
orphaned (`Awaited`); and that in preview mode nothing is ever under way. Its proof found that a stale `reconnectId`
could outlive the inbox it was of in the model, where the page's `reconnectInbox` is `null`; the model now clears it.
`CampaignInv` says of the wizard that nothing but an approved template gets past the third step and that what was
confirmed is what is dispatched, of the monitor that a telemetry record adds up at every tick, and of a blast that one
timer runs, for the rows on display, unless another overlapped it. The categories of a file are a recursive function;
`CategoriesExist` shows by a least counterexample that it is defined for every file, and what a row gets follows from
the rows before it (`StatusAtIs`), so that `ParsedRows` holds for files of every length.

What the proofs of the client assume of the constants (`NamesAssumption` to `SettingAssumption` in `MCClient`): the
bounds are natural numbers, with at least one token and one session; a name that stands for "none", for the list of
conversations or for a built-in session is not one of the set it lies beside; inboxes are positive, inbox 1 among
them; there is a largest segment and a last status of a pipeline; a throttle is positive; the platforms are ones the page has a form for.

Only model-checked: all liveness and `ENABLED`, which are out of the prover's reach, and the three runs that show a
violation. Every invariant that a passing run checks is stated by a theorem.

## Findings

Shown by a run:

1. `retryMessage` checks FAILED and then updates by id: two overlapping retries send a reply that
   was delivered in between once more (`outbound_two_retries`).
2. A late failure of a poll with the old credentials marks a freshly reconnected channel as needing
   reconnection, and polling stops (`channels_reconnect`).
3. A customer's message does not reopen a conversation that an agent resolves between the ingest's
   read and its commit (`conversations_reopen`).

Met while modelling. The models have the behaviour, and their properties are stated so that they
hold with it:

* *outbox and queue*: an event whose fifth lease expired is dispatched a sixth time. The reconciliation
  looks at a limited number of candidates, so a backlog hides newer losses until it shrinks, and it also
  alerts about jobs that pg-boss still has to drain. A beat of the heartbeat that is in flight may
  write its file after `onModuleDestroy`. `failStuckMessages` is started with `void` and has no catch
  (`outbound-dispatcher.service.ts:87`): an error of its query is an unhandled rejection.
* *channels*: a late plain failure replaces DISCONNECTED by ERROR, contrary to the comment at
  `channel-health.service.ts:20`. The polling lease is not renewed, so polls of one channel overlap although
  `docs/channel-architecture-and-contracts.md` says that it guarantees a single poller; `NoEventSkipped` shows
  that nothing is lost. Overlapping updates of a channel lose settings and unite lists of agents.
* *adapters*: an accepted send without a provider id counts as TRANSIENT and is sent again;
  `retryAfterSeconds` is not used; LINE and e-mail advertise media that they refuse to send; a reply to a
  Telegram button press takes the id after the last colon; a reaction's message id lacks its action, so
  of a reaction and its removal at one moment one is stored.
* *e-mail*: an answer to a reply that is not recorded yet, when the conversation began with a letter
  that has no Message-ID or answers a stranger, starts a conversation, and later answers that list the
  same first reference follow it there, although their reply is recorded by then. In-Reply-To may carry
  the internal id of a letter without Message-ID.
* *conversations*: the cap of an agent may be passed when ingests of two senders overlap; a reply fails
  as "never sent" when its channel is removed although a run may be sending it; a walk through the
  list may repeat a conversation that moved to the top.
* *keys*: `deriveKey` uses the active key, so visitor tokens and media links end with a rotation,
  although `docs/secret-management-and-rotation.md:85` speaks of rotation without downtime.
* *web chat*: a reply that the widget fetched while it was PENDING is never marked DELIVERED; one whose
  answer was lost is; a row that becomes visible after a later one was fetched is passed over; after a
  rotation polls answer 401 until the visitor writes.
* *access*: a request without workspace header can act in a deleted workspace; account and
  membership are read at different moments; an outage of the key server is reported as an invalid token; a
  socket keeps the rights of its handshake.
* *realtime*: a late `end` leads to two listening connections, and `onModuleDestroy` ends the latest; the
  socket keeps its old token after a refresh, so a later reconnect is refused until the next change.
* *limits*: losing Redis' data resets limits; a full in-memory store is cleared, which resets all windows.
* *session*: signing out while `/auth/me` is in flight sets an actor without session; a late answer for an
  older session overrides the actor or clears the cookie; a late `getSession` replaces a dev session contrary to the
  comment at `auth-context.tsx:176`; a password sign-in next to a stored dev session is undone by a reload.
* *inbox page*: a poll during a pending send hides the optimistic reply until it settles; the
  composer's draft is not per conversation, and a submit with files only clears it and sends nothing.
* *channel setup*: the panel's draft is not refreshed when the inbox changes elsewhere, so Save takes that
  change back.
* *campaigns*: an audience up to the limit skips the step that sets the total, so the monitor counts to a
  default; a scheduled broadcast is dispatched at once; a second file or dispatch while one
  runs leaves two timers.
* *AI agents*: records that the schema refuses are dropped by the next write; the memory fallback is
  lost on reload; of two tabs that edit the same half the last one wins; the same file chosen twice while
  it is read is added twice; the welcome message does not count against the message limit.

## Not modelled

* Schemas, validation, presentation, OpenAPI documents, logging, metrics and tracing: no state that
  several steps change. Rules among them that have behaviour are modelled where they are used.
* `upsertSenderIdentity`'s names and contact details: copies of what the provider sends, under the lock that
  `ConversationIngest` models.
* Provider signatures and S3 request signing: cryptography is taken as correct.
* Pages of sample data (contacts, templates, tickets, reports, settings), UI components, navigation,
  seed and verification scripts, tests and their stubs.
* Liveness, recursion over data and `ENABLED` are outside what TLAPS proves here and stay with TLC.

## Plan

What was planned is done: every invariant and every action property that a passing run checks is proved, for all values
of the constants. Liveness and `ENABLED` stay with TLC. A later extension would start with what the section
"Not modelled" lists; a new part gets a module, a place in one of the sums (`MCWorker`, `MCServices`,
`MCExchange`, `MCClient`) and one conjunct of the inductive invariant of that sum, guarded by `part`.
