# Cobranzas: specifications, checks and proofs

Cobranzas is a debt-collection backend: NestJS over PostgreSQL (TypeORM), Redis
and BullMQ queues, with Mercado Pago, WhatsApp, SMTP and Twilio outside.  This
directory holds its TLA+ models, the TLC runs that check them and the theorems
that TLAPS proves.  Paths are relative to `src/src/` of the repository.

## The system

| component | state | operations | works with |
|---|---|---|---|
| Payments (`payments/`, `webhooks/webhooks.payments.controller.ts`) | table `payments`; Redis keys `mp:webhook:*` (1 h) | `createPaymentLink`, two webhook controllers, `handleMpNotification`, `reconcilePaymentById` and its hooks | Mercado Pago (HTTP), Cases (calls), queue `message-send` |
| Cases (`cases/`) | table `cases` (status, closing date, last contact) | `getBalance`, `closeIfZero`, `reopenIfPositive`, `setStatus`, `markContacted`, `markInbound` (nothing calls `markOutbound`) | called by Payments, sending and the NLP runtime; reads `debts`, `payments` |
| Message sending (`jobs/`, `messaging/`) | queue `message-send`; table `messages` | `addMessageSend`, the worker (10 at once, 3 attempts), `sendWhatsappTemplate/Text`, `sendEmail`, `sendSms` | providers, Templates, Cases |
| Message import and delivery status | table `messages` | CSV import of QUEUED rows, WhatsApp and SMS status callbacks, `updateStatusByExternalId` | the queue, the providers |
| Inbound (`inbound/`, `webhooks/webhooks.whatsapp.controller.ts`) | Redis keys `wa:in:*` (24 h), queue `nlp-inbound`; tables `replies`, `ptps`, `contacts.dnc` | webhook, `classify`, `findOpenCaseIdByAddress`, `markDnc`, `createPtp`, `reply` | the queue, sending |
| NLP inbound runtime (`nlp/`) | tables `replies`, `ptps`, `contacts.dnc` | insert the reply once, `markInbound`, effects, auto-reply | Cases, the queue |
| Campaigns (`campaigns/`) | table `campaigns`; repeatable jobs; queues `campaign-kick`, `campaign-dispatch` | `create`, `update`, `setStatus`, `ensureRepeatable`, kick, `dispatchCampaign` with daily cap | Segments, the queue |
| Segments (`segments/`) | table `segments` | `create`, `update`, `remove`; filters to SQL | read by Campaigns |
| Templates (`templates/`, `messaging/templates.service.ts`) | table of templates, Redis cache | create, update, cached read, render | sending |
| Debt import (`debts/`) | tables `contacts`, `debts`, `cases` | `importCsv` in one transaction | Cases read the debts |
| Shared utilities | Redis counters | rate limiter, quiet hours, contact window | nothing: no code calls them |
| VAPI webhook | none of its own | `createPaymentLink`, `getBalance` | Payments, Cases |
| Metrics, logs, guards, API keys, health | none of their own | reads | |

`AppModule` does not wire Campaigns, Segments, the NLP runtime, API keys, Health
or the two stand-alone workers; they run only if another module loads them.

### What is hard

* Node interleaves requests and jobs at every `await`: state read before one is
  used after it (balance, payment row, reply lookup, template cache).
* Mercado Pago repeats and duplicates notifications; BullMQ runs a job at least
  once; providers send status callbacks in any order.
* Idempotency keys are reserved before the work they protect.
* Several writes that belong together are not in one transaction.

Each hazard is listed with its line in `PROJECT.json`, with the properties that
would catch it.

## Settlement: `Balance`, `Settlement`, `Ledger`

`Balance` holds the pure part: the status mapping, the sum of the debts, the
balance and its tolerance.  `Settlement` is the whole path of a payment.

| TLA+ | code |
|---|---|
| `mp`, `seen`, `notes` | Mercado Pago: the status of each payment, the statuses it has had, the notifications it has had no 200 for |
| `keys` | Redis keys `mp:webhook:*` |
| `pay` | table `payments`: status and whether `accreditedAt` is set |
| `kase` | table `cases`: status and whether `closed_at` is set |
| `owed` | the three sums `sumDebts` looks at |
| `req[h]` | the local variables of one webhook request and the `await` it stands at |
| `confirmed` | PAYMENT_CONFIRMED jobs added to the queue, per payment |
| `Reserve`, `Deduplicate` | `mpWebhook` and `handle` up to the first await after the reservation |
| `getPayment`, `findExisting`, `savePayment`, `duplicateInsert` | the awaits of `reconcilePaymentById`; the last is the unique index of `paymentId` |
| `notifyPaymentApproved`, `readDebts`, `readPayments`, `closeIfZero`, `reopenIfPositive` | the hooks; `getBalance` reads its two sums in either order |
| `RequestFails`, `HookFails`, `Restart` | an exception before the hooks (500), one inside them (caught), a stopped process |
| `MpChanges`, `createPaymentLink`, `DebtImported`, `setStatus`, `KeyExpires` | what goes on around the webhooks |

`Ledger` is the abstract specification: payments, debts, confirmations and case
statuses without webhooks, keys, requests or failures.  A write needs evidence
that was true at some time: a status Mercado Pago reported, a sum the case
owed, payments that were approved.  `Settlement` implements it under the mapping
`Promise`.

Assumptions of the model:
* `payRepo.save` writes the row in one step, from the copy the request holds;
  the three queries of `sumDebts` read one state of `debts`.
* A request does not outlive the hour of its key, so a key never expires while
  the request that reserved it runs.
* Mercado Pago repeats a notification until it gets 200.
* Amounts are whole cents; the tolerance `EPS` of 0.01 is one cent.
* A notification without a payment id is ignored after its key is reserved and
  touches nothing else: it is left out, and with it the keys made of
  `x-request-id` and `unknown-<time>`.
* The tables have the columns the SQL names.  The migrations that are shipped
  call the column of `payments` `"caseId"`, and `sumApprovedPayments` reads
  `case_id`: on that schema the hooks always throw, which is the model's `HookFails`.

### Runs

| run | question | bounds |
|---|---|---|
| `settlement_one` | one request per key (`OneRequestPerKey`), one confirmation per key (`ConfirmedOncePerKey`) and only of what was approved (`ConfirmedWasApproved`), under both controllers | one payment through its whole life, 2 requests under one key (the payment id), one failure or restart, one expired key |
| `settlement_two` | does the table hold only what was reported though two requests hold copies of one row (`RecordedWasReported`); does every write have its evidence (`ImplementsLedger`); do table, case and Mercado Pago agree at the end, as long as requests take turns (`QuietIsRecorded`, `QuietIsClosed`) | two payments of 60 and 40 on a debt of 100, refunds, 2 requests, also of one payment: a key names its status |
| `settlement_answers` | is every notification answered (`EveryNoteAnswered`), and is a case marked paid only when settled (`PaidIsSettled`) | one payment of half the debt in every other form of a notification, 2 requests, one failure, one edit; the debt may be imported anew as that half |
| `lost_status_change`, `stale_reopen` | what comments say and the code does not do: the last status ends up in the table (`AnsweredIsCurrent`), a case is reopened only on a positive balance (`ReopensOnlyPositive`) | the smallest instance that shows it |

Two requests are enough for every race here: each race is one request that holds
an old copy and one that writes in between.  Two payments are the least for a
balance that neither settles alone.

Two more things follow from the code and are kept out of the properties for it:
the key is reserved before the work and kept when the work fails, so the
repetition that Mercado Pago sends after a 500 is answered as a duplicate and
the payment stays unrecorded until its status changes or the hour is over; and a
refund runs no hook, so a case that was paid stays PAID after its payment is
refunded.

Deadlock is not checked: the system rests when no payment is made.

Fairness (`FairSpec`): a notification without answer is delivered again, and the
event loop runs every settled promise.  Payments, edits and failures are not fair.

### Proofs

`SettlementProofs` proves, for every set of payments and cases, every finite set
of requests and every bound: `TypeCorrect`, `NoFalseConfirmation`,
`TableIsReported`, `ClosedIsSettled`, `KeyIsExclusive` and `ConfirmedPerKey`. None
of the properties is inductive: a request that is about to write holds values it
read before, so the invariant `IInv` adds what each request may rely on at each
await (`Sound`): its raw status was reported, its copy of the row is a row that
was written, its sums were true once. `KeyIsExclusive` needs that the request that
processes a key still finds it reserved (`KeysHeld`). `ConfirmedPerKey` counts:
confirmations of a payment, with the requests that have not confirmed yet
(`Confirming`), stay within its reserved keys and the expiries (`OnceOk`).
`SettlementRefinement` uses the same invariant to show that each step is a step of
`Ledger` or leaves its state alone.

What quiet states say holds only while no two requests overlap and nothing fails
(`Serial`); such a request finds the tables as it left them (`Single`).  Each of the
two theorems about it names what it needs of Mercado Pago and of its notifications,
and TLC finds a counterexample without it; `settlement_two` satisfies it.

* `RecordedWhenQuiet` (`QuietIsRecorded`) assumes `KeyTellsStatus`: the key of a
  notification names the status or there is none, and every notification is about a
  payment; and `NoReturn`: no payment gets a status it has had.  Otherwise the key of
  an earlier notification keeps a later one out for an hour, which is what
  `lost_status_change` shows.  The invariant is `Collected`: the table is up to date,
  or a request is about to ask, or a notification of the present status waits that no
  key keeps out; it rests on keys and notifications of statuses seen (`Past`).
* `ClosedWhenQuiet` (`QuietIsClosed`) assumes `FinalApproval`: an approval is taken
  back by a refund only, for which the property makes its own exception.  A
  charge-back runs no hook either, so the case would stay PAID.  It needs nothing of
  keys: the status follows what the table counts, up to date or not.  The invariant
  is `Settles`: a case with no hook under way has the status its payments give it,
  what a hook has read is so still, and no request takes an approval back.

Liveness (`EveryNoteAnswered`) is model-checked only.

## The queue: `BullMQ`

What BullMQ does with a job, as the workers of `src/` use it, one operator per
transition: `Taken`, `Completed`, `Retried` (waits again until its attempts are
used), `Stalled` (the lock of an active job ran out: back to waiting once, failed
the second time).  `Completed` and `Retried` change nothing for a processor that
has lost its lock.  `MessageSend`, `Inbound`, `Campaign` and `NlpInbound` are built on it.

## Sending: `MessageSend`

| TLA+ | code |
|---|---|
| `job` | queue `message-send`: the state of each job, attempts made, stalls, the processor that holds the lock; and the import or request that makes it |
| `log` | table `messages`: the rows of each job with status and external id |
| `run[w]` | a processor of the worker and the `await` it stands at |
| `sent`, `reported`, `inbox` | the providers: messages accepted, reports made, status callbacks under way |
| `importRow`, `addMessageSend`, `addJob`, `importFails` | the CSV import (a QUEUED row, then its job), the jobs that carry the whole message |
| `sendDirect`, `persist` | the endpoints that send in the request |
| `load`, `send`, `updateRow`, `markContacted`, `failRow` | the awaits of the processor; each has a variant that fails |
| `sendRejected`, `sendTimesOut` | the provider refuses; it does not answer in time, whether or not it accepted |
| `Complete`, `Retry`, `StalledFound`, `LockLost`, `Restart` | BullMQ and the process |
| `ProviderReports`, `callbackFind`, `callbackWrite` | status callbacks: the row is looked up, then written |

A job with a row updates it; one that carries its message inserts a row at each
attempt.  The case is marked after the send, in a try block of its own.

One run, `send_faults`, with two processors.  `Mixes` says what goes together, so
that each kind of message meets the failures it can meet without the product of
all of them:

| messages | faults | refusals | what it is for |
|---|---|---|---|
| a confirmation with its case | 1 | 1 | callbacks in any order against an update, a retry, a stall |
| a confirmation and a direct request | 0 | 3 | attempts used up by refusals alone |
| an imported line and a direct request | 2 | 1 | a stall and another failure while the first processor still runs |
| an imported line | 4 | 1 | more faults than attempts and stalls |
| a message of a campaign | 3 | 5 | five attempts |

A fault is a lost answer, a failed query, a stall or a restart.

* `LogIsTrue`: the log claims nothing that did not happen.
* `LogAgrees`: as long as only providers refuse, the last row of what rests tells
  its outcome, also of messages that had status callbacks: such a row has the id of
  the message and the status SENT or one that was reported of it, in any order; the
  rows before it are FAILED and no callback changes them.  Which of several
  statuses stays is open, for a callback overwrites what it finds.  After a lost
  answer, a restart or a failed insert a row may stay QUEUED; `LogAgrees` does not
  speak of those.
* `CopiesNeedCause`: a second copy needs a lost answer or a stall.
* `AnswersAreTrue`: what the import, a direct request and the queue are told.
* `ImplementsDelivery`: `Delivery` is what sending promises, without rows,
  processors, attempts or failures: a message is asked for, goes out in at most
  `MaxCopies` copies, and is decided once, as sent only if it went out.
  `MessageSend` implements it with as many copies as attempts and one for a stall,
  and one for a direct request.
* `JobsSettle`: all that was asked for is decided at last, for good.

The order of jobs is not kept, because the queue delays retries and takes 10
jobs at once.  A third processor would only repeat what two do: a job has one
holder, and one that lost it.

Fairness: the import goes on with its line, a free processor takes a waiting job,
a settled promise is run, and BullMQ looks for stalled jobs.  What a provider
answers is its choice: it may refuse every attempt.

`MessageSendProofs` proves, for any messages, forms, bounds and any finite set of
processors, all but `JobsSettle`, which is liveness and model-checked.  The invariant
`IInv` is the conjunction of `TypeOK`, `LogIsTrue` and `AnswersAreTrue` with

* `Shape`: what a slot knows at each await (its row is there, its external id was
  given by the provider), how the state of a job goes with its form and its
  answers, and that a callback speaks of a message that was accepted;
* `Counts`: messages out plus slots that may still send stay within the attempts
  made, the stalls and the attempt the queue counts on (`CountOk`, for
  `ImplementsDelivery`), and within one and the causes (`CauseOk`, for
  `CopiesNeedCause`).  Both are needed because a processor that lost its lock
  still sends.

`LogKeepsUp` (`LogAgrees`) has an invariant of its own, `AllTidy`, which holds while
`faults = 0`: one slot has a job at a time and holds its lock, each of its awaits
finds and leaves the last row as it should, and every row before that is FAILED (a job
that carries its message adds a row at each attempt).

`SendingDelivers` then shows that each step is a step of `Delivery` or leaves it
alone, and `DeliveryKept` that `Delivery` gives what its users rely on.

## Texts of debtors: `Inbound`

| TLA+ | code |
|---|---|
| `mail`, `req[r]` | payloads Meta posts until one is answered, and the webhook requests, which go through the messages of a payload one by one |
| `keys` | Redis keys `wa:in:*` |
| `jobs`, `run[w]` | queue `nlp-inbound` and its processors; direct calls of `POST /inbound/webhook` use a slot of `run` without a job |
| `reserveOnce`, `addJob`, `RequestFails` | `SET NX` before the job, and a 500 when Redis does not answer |
| `extractText`, `classify` | a button's title is lost; the order in which intents are tried |
| `findOpenCaseIdByAddress`, `markInbound`, `markDnc`, `createPtp`, `replyLookup`, `reply` | the awaits of `InboundService.handle` |
| `createPtpLost`, `replyFails`, `StepFails` | the same with an answer lost: `reply` swallows it, the others throw |
| `KeyExpires`, `broken`, `expired` | a key is gone after a day, while Meta may still post; history: texts whose request failed between the key and the job, texts whose key expired |
| `closeIfZero` | a case is paid while its debtor writes |

`inbound_texts` has two tenants whose debtors share a phone, two promises of one
contact in one payload (one without a date), an opt-out by a direct call, two
requests, two slots, one fault (a failed or lost step, a stall, a restart, or a
key that expires).

* `OneJobPerText`: a text is enqueued once while its key lasts, and once Meta has
  its answer the text is enqueued or about to be, unless its own request failed
  between the two.
* `EffectsNeedCause`: a promise or a reply is repeated only for a failure or a stall.
* `PromiseIsRecorded`: "registered" is said only with the row in the table.
* `SilencedOnRequest`: only a debtor of the tenant who asked is silenced.
* `RestingIsHandled`: what is left when all rests and nothing failed.

`inbound_optout` shows a debtor who is told of the opt-out and is not opted out:
the case is found by digits, the contact is updated by the phone as it is stored.

Assumptions: a phone is unique within a tenant; the webhook says tenant 0, so it
finds the cases of tenant 0 only; the columns exist as the SQL names them.  On the
schema that is shipped they do not: `contacts` has `tenant_id` but no `"tenantId"`,
which `markDnc` names (`inbound.service.ts:151`), so there each opt-out throws.
Left out: the second WhatsApp webhook (it has neither tenant nor reservation and
never finds a case) and the signature.
No liveness is checked here: a payload that fails after its key is reserved
is not handled again, and `RestingIsHandled` speaks of runs without a fault only.

`InboundProofs` proves the first four and `TypeOK`, for any contacts, texts,
payloads that are not empty and have no text twice, faults, and any finite sets
of slots.  Its invariant counts what is still to come:

* `Hooks`: the jobs of a text, with the requests about to add one, are at most one
  for the key and one for its expiry (`KeyOk`); a text that was passed by, was
  reserved or was answered for is enqueued, about to be, or broken (`Kept`), which
  a request carries along for the part of its payload behind it (`ReqOk`).
* `Handling`: what was done for a text, with the slots, jobs and direct calls that
  may still do it, stays within the jobs and the causes (`Effects`).  A slot that
  has lost its job still counts: the stall has paid for it.

* `AllHandled`, while `faults = 0`: what a slot has done of its text at each await
  (`Doing`); nothing was done for a text no slot has taken yet, and all of it once its
  job or call is over.  From it follows `RestIsHandled` (`RestingIsHandled`), under
  `OwnCases`: a direct call that names a case names that of the contact that writes.
  `handle` believes the case it is given, so without that the effects go to another.
  The run names no case in a direct call.

## The NLP runtime: `NlpInbound`

The second worker of queue `nlp-inbound`.  It takes the texts as either WhatsApp
webhook enqueues them: one reserves the id and asks for three attempts, the
other does neither.

| TLA+ | code |
|---|---|
| `jobs`, `run[w]` | the queue and the `await` each processor stands at |
| `lastOut` | table `messages`: the case of the last message to a phone |
| `rows`, `ptps`, `dnc`, `answers` | tables `replies`, `ptp`, `contacts.dnc`; the jobs added to `message-send` |
| `recent`, `HoursPass` | `last_inbound_at` and `last_contacted_at` within the cooldown |
| `findDuplicate`, `lastMessage`, `findContact`, `findCase` | the id is looked up; `resolveContext` |
| `InContext`, `Numbered` | the check of `ctx.tenantId`: a case whose tenant is not a number gives an orphan row |
| `insertReply`, `markInbound`, `markDnc`, `insertPtp`, `maybeAutoReply`, `addAnswer` | the writes, in the code's order |
| `insertRefused` | the unique `externalId`; a promise without amount or date |
| `StepFails`, `AnswerLost` | an await fails and did nothing, or did its work |

`nlp_texts` lets any two of four texts meet: one promise twice under one id, an
opt-out and a promise without date, both without id; three contacts, two of whom share a
phone across tenants, one of them in a tenant whose id is a uuid; two processors, one fault.  A race needs two
texts, and one fault is enough to lose an effect or to repeat a row.

* `OnceOrForCause`: the row is the fence.  Two jobs of one id may both find no
  row; the unique index then picks one.
* `EffectOrCause`: the fence stands before the effects, so a failure after it loses
  them for a text with an id, and repeats row and promise for one without.  An
  opt-out silences the holders of its phone, of every tenant, and nobody else.
* `AnswerNeedsDelay`: the cooldown counts `last_inbound_at`, which the text has just
  set, so an answer goes out only if handling takes two hours.

What is sent to a case only prolongs `recent` and is left out.  Assumptions: the
columns exist as the SQL names them; the clocks of the database and of Node agree.
On the schema that is shipped every tenant has a uuid, so `Numbered` is empty and each
text is filed as an orphan without effects; the theorems hold for any `Numbered`.
The digits of a numeric date count as an amount (`extractAmount`).  The status a
case has by default, ABIERTO, is not the OPEN that `findCase` asks for.  No
liveness is checked: the queue is that of `MessageSend`, whose jobs end.

`NlpInboundProofs` proves all of them for any texts, ids, contacts and faults and
any finite set of slots.  The invariant adds

* what each slot knows at each await (`RunOk`): from `mark` on the text is filed
  under a case, at `lookup` it has had its effect, at `queue` two hours went by;
* the counts of `TextOk`: rows, with the job not yet taken and the slots that may
  still file, are at most one and the causes; promises and answers, with the
  slots that may still make them, at most the rows.  The second needs no cause:
  effects follow the row that was inserted, and a slot that did not insert it
  never comes so far;
* `Sole`: without a cause a text has one slot, the one that holds its job.  It is
  what makes a completed job (`Over`) speak of the slot that completed it.

## Campaigns and segments: `Campaign`

One campaign and its segment; campaigns share nothing but the processors.

| TLA+ | code |
|---|---|
| `row` | table `campaigns` (status, cap, schedule), or no row yet |
| `filter` | table `segments`: the cases its filter may select, or no segment |
| `Hits` | the rows in which a filter returns its cases: one that joins tables may return a case twice |
| `call[r]` | a dispatch: the cap it read, the rows of its slice that are left, the day it began to queue |
| `jobs`, `run[w]` | queue `campaign-dispatch`, one job per id (case and day), and its processors |
| `messages` | jobs added to `message-send` |
| `editor[e]`, `schedules` | `update` of either row and `ensureRepeatable` in flight; the repeatable jobs |
| `picked`, `asked`, `allowed` | history: in how many rows dispatches found each id, how often they added it, and with what caps in all |
| `create`, `updateGet`, `updateWrite`, `setStatus` | edits of the campaign; `update` writes back what it read |
| `segmentGet`, `segmentSave`, `segmentRemove` | the same of the segment; saving a row that was removed inserts it anew |
| `dispatch`, `selectCases`, `segmentMissing`, `enqueue` | `dispatchCampaign`: the row is read, the segment is run with the tenant guard and cut by the cap, the jobs are added one by one |
| `enqueueRefused`, `anyId` | BullMQ refuses the id of the job, and the dispatch throws |
| `readCase`, `queueMessage` | the processor of `campaign-dispatch` |
| `listRepeatables`, `removeRepeatables`, `addRepeatable` | `ensureRepeatable` |

The row is read when the request comes, for nothing can be seen in between.  The
cases that match a filter change with tables that are not modelled, so a dispatch
takes any slice of the rows the filter may return.  The rows are not made distinct,
by the filter or after it, and each counts within the cap.

The id of a job is `camp:<campaign>:case:<case>:d<day>`, five parts with colons
between them.  The lock file pins bullmq 5.61.0 (`package-lock.json:4202`), which
refuses an id with colons unless it has three parts: as locked, a dispatch throws at
its first row and queues nothing (`anyId` is FALSE in one mix).  The other mixes
describe a version that takes the ids.  It ignores an id in use and frees that of a
completed job, so a second dispatch of the day, or a second row of one case, may send
a second message: the id does not give one message a day.

`campaign_day` explores seven mixes of dispatches, edits and faults (`Mixes`): two
dispatches side by side with a fault; one with three; edits and schedules that
overlap; edits of the segment that overlap; a dispatch with both kinds of edits,
with and without a fault; a dispatch whose ids are refused.  Three cases, one
returned in two rows, one of another tenant and in a shared segment; two days; caps 0 to 2.

* `MessagesNeedDispatch`: no more messages of a case and day than rows in which
  dispatches found it then, but for stalls and lost answers.
* `CapsHold`: the messages of a day stay within the caps of its dispatches.
* `JobsAreNotRenewed`: a second dispatch does not give a job new attempts.
* `ChosenIsSent`: what was queued is sent or has failed, through stalls and restarts.
* `OwnTenantOnly`: no message to a debtor of another tenant.
* `EditsAreKept`, `OneSchedule`: as long as edits do not overlap; `update` writes
  back a status, and a filter, that another request may have changed.  `update`
  also keeps the cap, the segment, the schedule and the template that the row has,
  whatever is asked for (`Merged`).

`CampaignProofs` proves all of these but `CapsHold`, for any finite set of cases and
any caps, schedules, days, bounds and finite sets of slots.  The invariant `IInv` says what
a dispatch and a processor hold (`CallsOk`, `RunsOk`: their cases were guarded),
that a case that was asked for has its job until it has its message (`IdsOk`),
counts what may still come (`Counts`: askings and dispatches about to ask within
`picked`; messages, processors about to add one and waiting jobs within askings
and causes), and says of edits without a race that there is one at a time and that
it holds what the table has (`EditsOk`).

`CampaignCaps` proves `CapsAreHeld` (`CapsHold`), which adds up over all cases.  What it
needs of such sums is proved there by induction on sets of numbers and of sets of
cases, because a theorem about an operator cannot be used.  The invariant
`Within` bounds what was picked by `allowed`; per case `IInv` then bounds the messages by what was
picked and the causes.

Assumption: BullMQ lists a repeatable job with its id.  That id,
`camp:<campaign>:repeat`, has three parts and is taken by the locked version too.

## Templates: `TemplateCache`

| TLA+ | code |
|---|---|
| `Slots`, `Keys` | tenant, code and channel of a text; with a locale they are the unique key of its row and the key of the cache |
| `table` | table `message_templates`: slot, locale, text, version, and `vars` for the fields that have a default (`requiredVars`, `isApproved`) |
| `cache` | Redis keys `tpl:*`, five minutes |
| `reader[r]`, `writer[w]` | `getCached`, `create` and `update` and the `await` they stand at |
| `Dto`, `assign` | `UpdateTemplateDto`, with the defaults it takes over from `CreateTemplateDto`; `Object.assign` |
| `save`, `saveRefused`, `invalidateCache`, `editFails` | the save, which the unique index may refuse; the invalidation, of the key as saved; a save that did nothing, a save whose answer is lost, an invalidation that fails |
| `Expire` | the end of a key |
| `asked` | history: the row as its edits asked for it, each PATCH taken by what it names |

A patch may name the locale and also the tenant, the code and the channel, which
moves the row to another key; what was cached under the old one stays until it
expires.  Rows of no tenant are left out, for no render finds them.

`template_cache` has two codes in two locales, one text, a reader, two edits at
once (`MaxEdits`), one failure (`MaxFaults`); `SomePatches` and `SomePosts` bound what
they name: a new text, another locale, another code with other variables, a
second row.

* `CachedWasStored`: what is cached was stored under that key.
* `StaleNeedsCause`: what is out of date has one of four causes: its edit is about to
  invalidate it, a render had the old row in hand, the invalidation failed or was
  never made (the answer of the save was lost), or the row moved to another key.
* `StaleExpires`: it is not out of date for ever (fair requests and expiry).
* `EditsAddUp`: what edits of a row name adds up while they do not overlap: the last
  text and slot, a version that counts the saves; locale and `vars` are what was
  named last or the default.

`patch_resets` shows why the last part says no more: `update` takes a part of the
fields, and its class fills in `locale`, `requiredVars` and `isApproved`, so a PATCH
that does not name them puts their defaults back (`PatchKeepsTheRest`).

One edit and one read make every stale fill; two edits are the least for a lost or
undone one and for a key that is left and taken again.

`TemplateCacheProofs` proves the four invariants for any slots, locales, rows,
patches, requests, edits and failures.  The invariant `IInv` says of what a render
has in hand, and of what is cached, that it is the row that would be found now, or
is excused, or (cached only) has its invalidation under way; `save`, and an edit whose
answer is lost, are the steps that change what is found, and `EditsAreInTurn` gives
`EditsAddUp` the row an edit goes on from.  `StaleExpires` is model-checked.

## Not modelled

* Debt import (`debts/`): `importCsv` looks for contacts by `tenantId` and
  `externalId` and for debts by `reference`, which the entities do not have, so
  TypeORM refuses each line and there is no state to follow.  Were they there, an
  SQL error of one line would abort the transaction of all.  What an import is
  meant to do to a balance is an action of `Settlement`.
* How a filter becomes SQL, and which filters are refused: it changes no state,
  and a campaign with a refused filter dispatches nothing.
* Shared utilities: rate limiter, quiet hours and contact window are called by
  no code, so nothing of the system depends on them.
* VAPI webhook: it calls `createPaymentLink` and `getBalance` and keeps nothing.
* Metrics, logs, guards, API keys, health: they change nothing.

### Hazards without a property

For some hazards of `PROJECT.json` the code prevents nothing, and a property that
denies them would fail at once: it would add nothing to reading the line.  Their
"note" says so.  Most are modelled, so what the other properties say holds in spite
of them.

* Payments: a notification that failed after its key was reserved leaves the payment
  unrecorded; a refund reopens no case; a hook that fails leaves a covered case
  open; a case without a debt counts as settled; the status an operator sets may be
  overwritten.
* Sending: of two statuses of a message either may stay, and one may come before its
  row.
* Inbound: a case whose status is OPEN, not ABIERTO, is not found.
* Campaigns and segments: two edits that overlap lose one, and two calls of
  `ensureRepeatable` leave two jobs; nobody looks at `contacts.dnc` or the status of
  the campaign again when a queued message goes out.
* Templates: two edits that overlap lose one.

## What is left

All modules that were planned are written, checked and proved about.  Open:

1. Every safety property of a passing run is a theorem.  The liveness properties
   (`EveryNoteAnswered`, `JobsSettle`, `StaleExpires`) need fairness and ENABLED,
   which are out of the prover's reach: they stay with TLC.
2. A composition of campaign, sending and opt-outs would say little: no part of
   the code reads `dnc` before it sends, so no promise could be kept.

The runs are to stay few: small modules share one, and a violation is kept only
while it says something no other does.
