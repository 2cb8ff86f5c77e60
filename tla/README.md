# Notification service: TLA+ verification

This directory specifies the notification service of `src/notifications-polyglot`
in TLA+, checks small instances of it with TLC and proves its most important
properties for every instance with TLAPS. The service exists five times, in Go,
Rust, TypeScript, Java and Kotlin. The five programs share one design and differ
in exactly the places where the design is delicate: the order of the two writes
of a request, the moment at which a message counts as done, the columns an
update writes, and what an exception does. So the specification has one module
for what they share, and one per implementation for the statements it executes.

Paths below are relative to `src/notifications-polyglot`.

## 1. Inventory

### Components, their state and their operations

| component | state | operations |
|---|---|---|
| status service (`golang/service/notification_status_service.go`, `rust/src/status_service.rs`, `typescript/src/notification/notification-status.service.ts`, `NotificationStatusService.java`, `.kt`) | one row per notification: overall status and a map from channel to status; in JPA the map is a table of its own | create the initial row; update one channel and the overall status; count rows per status |
| API (`golang/api/handler.go` with `service/notification.go`, `rust/src/api.rs` with `service.rs`, `notification.controller.ts` with `notification.service.ts`, `NotificationController` with `NotificationService`) | how far a request has come; in TypeScript, Java and Kotlin also the messages handed to the Kafka client but not yet sent | `POST /notify`: write the row, send the message, answer (Rust: send first) |
| worker (`golang/worker/worker.go`, `rust/src/worker.rs`, `notification.worker.ts`, `NotificationWorker.java`, `.kt`) | the message in hand, the channel and recipient loops, whether the channel has succeeded | for each channel: report PROCESSING, find the adapter, send to each recipient, report COMPLETED or FAILED; acknowledge |
| adapters (`adapter.go`, `adapter.rs`, `channel.factory.ts`, `ChannelFactory`) | none | look an adapter up by channel name; send |
| status queries (`GetStatus`, `get_status`, `StatusController`) | none | `GET /status/:id`: the stored row; `GET /metrics`: the counts |
| process (`main.go`, `main.rs`, `main.ts`, Spring Boot) | TypeScript: how far its start has come, and which requests it serves | start the consumer and the HTTP server; die |
| webhook (`HandleWebhook`, `handle_webhook`, `WebhookController`) | none | report a status for a channel: any name, any status |
| topic `notifications` and consumer group (Kafka, external) | the log, the committed offset, the owner of the partition | append, deliver, commit, rebalance |
| PostgreSQL (external) | the table | single statements, or READ COMMITTED transactions |

### How they interact

```
client --POST /notify--> API --INSERT--> status table <--SELECT, UPDATE-- webhook <-- provider
                          |                   ^
                          +--produce--> topic |  SELECT, UPDATE
                                          |   |
                                          +-> worker --send--> adapter
```

The API and the worker of a deployment never call each other: they meet in the
topic and in the table. The webhook shares the table with the worker and knows
nothing of the topic. Any number of processes run the same program; each has the
HTTP server and one consumer, and the consumers are one group.

### What is hard

* Updates of one row by workers, former owners of the partition and callbacks:
  read, compute, write, without a lock or a version, except that JPA has
  transactions.
* The offset of a message against its deliveries and its row: none of the three
  is written together with another.
* A message that is redelivered, duplicated, foreign, or already in work
  elsewhere.
* Each statement of a handler may fail, and each implementation has its own idea
  of what to do then.
* The process may die between any two statements, and is started again.
* Where a consumer group begins: without a committed offset, Rust and TypeScript start at the
  end of the topic, wherever that is at the moment they ask.
* A client that polls `/status` sees the rows in sequence, each computed anew from one channel's
  report.

### What makes each component correct

* Status table: the overall status agrees with the channels (`RowsConsistent`); an
  update changes one channel (`ImplementsLedger`, `UpdatesAreIsolated`); `/metrics`
  counts every row once and successes exactly (`MetricsExact`). In TypeScript, Java and Kotlin
  a row agrees with itself only while it has one writer at a time, and the runs and theorems
  about it are for that case: with a callback it is false (section 5). What does hold there is
  that a COMPLETED channel is true (`CompletedChannelsAreTrue`) and, in Java and Kotlin, that no
  report on a channel is lost (`ImplementsLedger`).
* Delivery: what is acknowledged has been delivered (`CommittedIsDelivered`,
  `AcceptedIsNotLost`, `NothingLostAfterBase`, `NoneSkippedAfterBase`, `OneLossPerCrash`), what
  is queued is delivered or given up in the end (`OwedIsDelivered`, `DueIsDone`, `DueIsPassed`), and nobody is
  contacted again without a reason (`RepeatsNeedFaults`).
* The two together: COMPLETED is never a false success (`CompletedIsTrue`,
  `CompletedChannelsAreTrue`), a loss is visible (`LossIsVisible`), the status
  settles (`StatusSettles`, `CommittedIsFinal`, `DueIsDone`), and on the way there it never goes
  back (`StatusAdvances`).

## 2. Modules

```
NotificationStatus         rows, initial row, aggregation, metrics
  StatusLedger             abstract: atomic reports on channels
  GoStatusService          SELECT + UPDATE of all columns
  RustStatusService        SELECT + UPDATE of both columns, missing row is no error
  TsStatusService          SELECT + SELECT + UPDATE of the differing columns
  JpaStatusService         transactions with dirty columns and rows (Java, Kotlin)
KafkaTopic                 the partition and its group (external)
DeliveryPromise            abstract: at-least-once delivery
NotificationFlow           requests, worker position, faults, what is owed
                           (extends NotificationStatus and KafkaTopic)
  GoService                = GoStatusService   + NotificationFlow + Go's steps
  RustService              = RustStatusService + NotificationFlow + Rust's steps
  TsService                = TsStatusService   + NotificationFlow + TypeScript's steps
  JvmService               = JpaStatusService  + NotificationFlow + Java's and Kotlin's steps
NotificationStatusProofs, NotificationFlowProofs      lemmas for all implementations
GoStatusServiceProofs, GoServiceProofs, RustServiceProofs, TsServiceProofs,
JpaStatusServiceProofs, JvmServiceProofs              theorems and proofs
MC*                        the instances for TLC
```

`PROJECT.json` maps each definition to the lines it stands for.

### State and actions

* `table[id]` is the row, `None` before it exists. A status in the channel map is
  `"ABSENT"` for a channel that is not a key of it. Time stamps are left out.
* `call[p]` is the update a caller is in the middle of: the row it computed from
  what it read, and what else its later statements need. Between the action that
  reads and the action that writes, anybody else may step. This is where an
  `await`, a goroutine switch or another process gets in.
* `api[id]` is the next step of the request that gets `id`. The UUID is drawn when the
  request is posted, so a request is named by its id from the start.
* `worker[w]` is the next statement of the consumer loop, with the loop counters and
  the flag `success`. There is one action for each statement that touches shared state.
* `log`, `committed`, `owner`, `session`, `position` and `stored` are the topic. A
  worker whose partition was taken away keeps `session` until its loop returns, which
  lets it finish the message in hand, as the clients do.
* `sends[t]` counts what an adapter has delivered, `receipts` the callbacks received. No
  action's guard reads them.
* `phase[w]` (TypeScript) is how far `bootstrap` of a process has come: `startAllMicroservices`
  is awaited before `listen`, so a process serves HTTP when its consumer has joined. `host[r]` is
  the process that serves the request or callback `r` or holds its unsent message, so that a
  crash takes with it exactly what the process had in memory. The other modules leave that
  choice open: their `Crash` takes any subset of what is in progress.
* `taken` (Rust) and `base` (Rust, TypeScript) are history variables: the offsets that were ever
  handed out, and the first offset the group has committed. No guard reads them.
* `GetStatus` is what `GET /status/:id` answers, `GetMetrics` what `GET /metrics` does.

Faults are counted by `faults`, bounded by `MaxFaults`, and each run names the kinds it
allows in `FaultKinds`: a process dies; the broker takes the partition away; a statement on
the database fails; an acknowledgement of the broker is lost; a foreign message; a client
that disconnects; a body without a list of channels, which the TypeScript handler trips over and
`GlobalExceptionFilter` turns into an answer (`Refuse`). `NoRecipients` (TypeScript, Java) names
the requests whose body has no `recipientIds`: nobody validates it, and the worker is the one to
trip. In Kotlin the field is not nullable, so that such a body is refused with 400, as in Go and
Rust a body that does not bind: there `NoRecipients` is empty. An adapter of a channel in `Flaky` may fail at any send, without being
counted. Callbacks may arrive at any time, with any id and channel (in the
Rust service any pair of `Reporting`) and any status of `Receipts`.

### Libraries, as the modules take them

These are not in the repository. The modules model them from the way the code uses
and configures them:

* gorm `Save` updates all columns of the row. TypeORM `save` loads the row by its key
  and updates the columns that differ. Hibernate flushes at commit the columns and the
  collection rows that differ from what the transaction read; the row locks of an
  UPDATE last to the commit, so that the flush is one step. PostgreSQL runs at READ
  COMMITTED.
* sarama: `SendMessage` with `WaitForAll` returns after the replicas have the record; it
  retries, not idempotently, so the record may be there twice. `MarkMessage` stores the offset,
  a ticker commits. `OffsetOldest` for a new group.
* librdkafka: the offset of a record is stored when `recv` returns it
  (`enable.auto.offset.store`), a timer commits (`enable.auto.commit`, worker.rs:22);
  `auto.offset.reset` is `latest` unless set.
* kafkajs under NestJS: an exception of an event handler counts as retriable; the consumer runs
  the handler again for the same message and restarts when its retries are used up;
  `fromBeginning` is false unless set, and the offset it stands for is looked up when the member
  first fetches, not when the partition is assigned to it: two steps here (`Grant`,
  `FirstFetch`). `consumer.run` resolves when the group has been joined. `client.emit` starts to
  send at once and reports to an observable.
* Spring Kafka: AckMode BATCH; `DefaultErrorHandler` makes ten attempts at a record
  whose listener throws and then skips it; a deserialization error inside `poll` is
  thrown again by every `poll` unless `ErrorHandlingDeserializer` is configured. The
  producer is idempotent, so a record is not doubled.

One partition is modelled. A notification is one message keyed by its id, so what happens in
two partitions never meets in a row, and one worker per partition at a time is what the group
guarantees.

## 3. Runs

Each implementation has one or two passing runs of its whole service, which check the status
table inside it too. The *Faults* runs have two notifications, fairness, and no writer of a row
but the worker, so that they can ask for final statuses and for the abstract specifications.
The *Callbacks* runs have one notification on which two processes and a provider's callbacks
race, with the partition taken away in mid-message; they ask only what must hold even then.
RustFaults is both: two notifications, and a provider that calls back on the first.

| run | instance | shows |
|---|---|---|
| GoFaults | 2 processes, 2 requests (a channel twice around an unsupported one; no recipients), 2 of crash, produce, junk; fair | queued notifications are delivered and settle, and their status never goes back while nothing fails; an acknowledged one has its final status; row before message; no repeat without a reason; implements `StatusLedger` and `DeliveryPromise` |
| GoCallbacks | 2 processes, callbacks, flaky sms, 2 of crash, rebalance, db | nothing acknowledged undelivered, nothing accepted lost; COMPLETED is never a false success; rows agree with themselves |
| GoLostUpdate (violation) | 2 callers of the status service, 1 row | a save takes another channel's report back |
| RustFaults | 2 processes, 2 requests, callbacks on sms of the first, flaky sms, one of all six faults | a crash or a rebalance loses at most one of the two messages, although offsets are committed ahead of the work; behind the first committed offset nothing is passed over; COMPLETED is never a false success although the row may come late |
| RustLoss (violation) | 1 process, 1 crash | a committed but undelivered message is lost |
| RustLateRow (violation) | 1 process, no fault, fair | the worker overtakes the INSERT: ENQUEUED for ever |
| TsFaults | 2 processes that start and may start again, 2 requests (an unsupported channel before a supported one; a body without recipients), 2 of crash, db, produce, junk; fair | once the group has an offset, nothing behind it is lost, and what no unreadable message precedes is delivered and settles, as FAILED where nobody was sent to; the status never goes back while nothing fails; rows and metrics exact; an update of three statements, each of which may fail, is an atomic report |
| TsCallbacks | 2 processes, callbacks, flaky sms with 2 recipients, one of crash, rebalance, db, junk, body | no channel is shown as completed without cause |
| TsLostEmit (violation) | 1 process, 1 broker error, fair | accepted, and never in the topic |
| JvmFaults | 2 processes, 2 requests (an unsupported channel before a supported one; a body without recipients), 3 attempts, 3 of crash, db, produce, junk; fair | a record that no unreadable one precedes is acknowledged in the end, also when its attempts run out; before they do, its status settles, and a delivery given up is shown as FAILED; a notification the producer has lost is shown as ENQUEUED; no repeat without a reason; no status goes back while nothing fails |
| JvmCallbacks | 2 processes, callbacks, throwing sms with 2 recipients, a channel in mixed case, 2 attempts, one of crash, rebalance, db, junk | each commit is an atomic report on a channel: no lost update; no channel is shown as completed without cause |
| JvmLoss (violation) | 1 process, 1 database error | a channel is given up and the message acknowledged |

Deadlock is checked in GoLostUpdate. In the service runs the system really stops: the requests
of the instance have been posted, the messages done with and the faults used up; hence
`CHECK_DEADLOCK FALSE`.

### Bounds, and why they are enough

Two callers are the smallest number with a race on a row, and two processes the smallest with a
takeover; a third has nobody else to disturb. Two notifications are needed for offsets (one may
be acknowledged over the other), one for races within a row. An unsupported channel beside a
supported one walks all branches of the channel loop; requests without recipients, with a
channel named twice, with two recipients of a failing channel, and a channel in mixed case are
in the run where they matter. A run with two or three faults lets the later ones hit the recovery from
the first; where three writers race on a row, one fault (in GoCallbacks two) is what the state
space allows. RustFaults has one fault and a second notification instead of a second fault and
one notification: with a single id, whatever is in the log twice has cost a fault already, so that
`OneLossPerCrash` would hold by counting. With two, both messages can be lost to one takeover if
the worker is wrong, as the mutant of `Receive` shows that gives them up without working on them;
and the second is there to be skipped when a session starts, for `NoneSkippedAfterBase`. To make
room for it only the provider of the first notification's failing channel calls back (`Reporting`):
its callbacks race with the worker's updates of that channel and, in the row they share, with
those of the other one.
`Receipts` has the outcome that could make a success false, in lower case where the code ignores
case. The container's `MaxAttempts` is 10 in the program. In JvmFaults it is 3, as many as there
are faults, so that a record can fail at each of its attempts and is skipped after the last; in
JvmCallbacks it is 2, and a record that fails is always handed out again. The two processes of a run are alike, so GoCallbacks, RustFaults and
TsCallbacks, which check only invariants, identify states up to their names (`WorkerSymmetry`).
`Fault` counts every environment event, so `MaxFaults`, with the finite `Ids`, also bounds the
log and `sends`; the number of callbacks is bounded by the rows, which are finitely many.

### Fairness

`FairSpec` adds weak fairness of each handler, loop and background commit, taken one process
or request at a time: all of them are goroutines, tasks, threads or event-loop turns that the
runtime schedules whenever they can run, and none of their steps waits for a step that the
environment may withhold. Joining the group is fair because each client retries for ever
(worker.go:44 explicitly, the others in their libraries). In TypeScript a process that is down is
started again, as any supervisor does; `Listen` is fair because it only waits for the group to
give the partition to some member. There is no fairness on posting,
on callbacks, or on any fault. Where a step has a successful and a failing outcome the fairness
is on their disjunction, so it promises a step, not success; that the failing outcome is
bounded comes from `MaxFaults`, in other words from "if the faults stop".

## 4. What is proved

All constants are arbitrary here (any number of processes, callbacks, notifications, channels,
recipients, attempts, faults), under the named assumptions of the modules: the notifications are
finitely many (`IdsAssumption`, which the counts of `/metrics` need), keys are ids, the callers
of the status service are the workers and the hooks, and the placeholders `None`, `Junk` and
`Nobody` are no values of their types (`NoneAssumption`, `CallAssumption`, ...). TLC evaluates
them in every run. No theorem assumes anything of the order of steps or of the faults beyond
what its statement says.

### Modules of proofs

`NotificationStatusProofs` has what the four status services share: that the initial and the
aggregated row agree with themselves, and what the counts of `/metrics` add up to.
`NotificationFlowProofs` has what the four services share: the finiteness of what is owed, what
grows in every step (`Grows`: the log, the sends, the callbacks received), and the account of
contacts (below). Each service has a module of its own, which defines its invariants, shows the
first of them inductive with one lemma per action, and derives the theorems. Every invariant but
`AccountInv` was checked by TLC on the instances of section 3 before it was proved.

### The invariants

* *Rows* (`StatusInv` in `GoStatusServiceProofs`, `RowsInv` in the services). `RowsConsistent`
  alone is not inductive, since a caller in the middle of an update is about to store its own
  copy: the invariant says of the copies what it says of the table. In `GoService` and
  `RustService` an update writes the row it computed, so a copy that agrees with itself is enough. The
  copies of TypeScript and JPA are merged into whatever row is there, so only the columns'
  *truth* survives races (`CompletedRowsAreTrue`), not their agreement.
* *Core* (`Inv` in `GoServiceProofs`, `Core` in the others): types; the truth of rows, stored or in a
  caller's hands; and for each worker, also for one that has lost its partition and does not know
  it yet, how far the loop counters say that the message in hand has been dealt with.
  In Go it includes that what is committed is delivered and what was accepted is in the log; in
  Java and Kotlin, that a record comes after its row and exists once, in the outbox or in the log.
* *Offsets* (Rust, TypeScript). In Rust: which messages have been handed out, so that none
  behind `base` is passed over, although a stored offset may belong to an earlier session. In TypeScript:
  what an offset stands for, as an offset that is stored, committed or resumed from
  has everything between `base` and itself done.
* *Losses* (Rust). `OneLossPerCrash` is inductive given `Core` and `Offsets`: a message that was
  handed out and is neither handled nor in hand was in the hands of a worker that a fault took
  it from, and a worker has only one.
* *The account of contacts* (`AccountInv`). `RepeatsNeedFaults` bounds the contacts of a
  recipient by those that the request and the copies of its message stand for, times one more
  than the faults, but nothing in the state says
  which fault allowed which contact. The invariant says that an account exists: the loops have
  had at most 1 + `faults` runs, a set of *turns* (run, offset, channel position, recipient
  position) has an entry for each contact, and the current run of a worker, its alone, has no entry for a turn
  that the worker has not come to yet. A run ends with the session, or when the message is started
  over; each step that begins one is a fault, but for the first of all. Since the account is
  quantified over, TLC cannot check this invariant; it checks what follows from it.
* *Quiet* and *Alone* (Go: `FinalInv`, `AloneInv`), *Orderly* (TypeScript, Java and Kotlin:
  `OrderlyInv`), *Shown* (`ShownInv`, Java and Kotlin). While no provider has called back and no session outlives its partition, the
  owner is alone with the rows of the topic: what it read is what it replaces. On
  that rests that committed rows are final and two statements are one report (Go), that rows agree
  with themselves, that metrics are exact and an update of three statements is one report
  (TypeScript), and that a loss is visible (Java and Kotlin).
* *Calm* (`CalmInv`: Go, TypeScript, Java and Kotlin). Before the first fault and the first
  callback each message is logged once and worked on once. So a row says how far its message has
  come: a channel that has not been reached is PENDING, one that has been dealt with has its final
  status, and one that is named twice is one or the other. On that rests that no status goes back.

### The theorems

| module | theorem | for every instance |
|---|---|---|
| `GoStatusServiceProofs` | `RowsStayConsistent`, `MetricsStayExact` | rows and metrics, however updates interleave |
| | `OneCallerImplementsLedger` | with one caller an update is one report; with two it is not, which GoLostUpdate shows |
| `GoServiceProofs` | `TypesHold`, `ServiceRowsStayConsistent`, `ServiceMetricsStayExact` | types, rows and metrics of the whole service |
| | `CommittedMessagesAreDelivered`, `AcceptedNotificationsAreNotLost` | no loss |
| | `CompletedRowsAreTrue` | no false success |
| | `RowsPrecedeMessages` | the row is written before the message, unless the database fails it |
| | `CommittedRowsAreFinal` | an acknowledged notification has its final status (in the quiet) |
| | `ServiceImplementsLedger` | undisturbed, an update is one report |
| | `StatusesAdvance` | no status goes back before the first fault or callback |
| | `RepeatsCostFaults` | each repeated contact is paid for by a fault |
| | `GoKeepsThePromise` | refinement of `DeliveryPromise` |
| `RustServiceProofs` | `TypesHold`, `ServiceRowsStayConsistent`, `ServiceMetricsStayExact`, `CompletedRowsAreTrue` | as in Go |
| | `NothingSkipped`, `LossesAreBounded` | no message behind the first commit is passed over; a fault loses one message at most |
| `TsServiceProofs` | `TypesHold`, `CompletedRowsAreTrue`, `RepeatsCostFaults` | as in Go |
| | `NothingIsLost` | no loss behind the first commit |
| | `ServiceRowsStayConsistent`, `ServiceMetricsStayExact`, `ServiceImplementsLedger` | undisturbed |
| | `StatusesAdvance` | no status goes back before the first fault or callback |
| `JpaStatusServiceProofs` | `TransactionsImplementLedger` | any interleaving of transactions is a sequence of reports |
| `JvmServiceProofs` | `TypesHold`, `CompletedRowsAreTrue`, `RepeatsCostFaults` | as in Go |
| | `ServiceImplementsLedger` | the ledger within the whole service, without a condition |
| | `ServiceRowsStayConsistent`, `ServiceMetricsStayExact`, `LossesAreVisible` | undisturbed; the metrics follow from the rows, and no run of this service checks them again |
| | `StatusesAdvance` | no status goes back before the first fault or callback |

*Undisturbed* is the state formula `(faults = 0 \/ "rebalance" \notin FaultKinds) /\ receipts = {}`:
no provider has called back, and the broker has taken the partition from no process that is
alive, either because nothing has failed yet or because it never does so. The theorems need
it because the code does: with a callback, two writers merge columns of different updates, and
section 5 names the rows that come of it. Crashes, restarts, failing statements, foreign and
doubled messages are all still there, and so is a process that takes over from a dead one. The
condition is about the past only: each theorem says what holds until the first callback.

Two arguments deserve a word. *Refinement*: `GoKeepsThePromise` needs the invariant where an
offset is committed, as `Retire` demands that what it retires has been sent. `TransactionsImplementLedger`
needs that the old and the new entity of a transaction differ in one channel at most; hence
`Flush` on top of *any* row is a report on that channel. The TypeScript update has its row
in three pieces (the entity that was found, the columns that `save` found to differ, the row
that is there when they are written), and Orderly says that they fit together. *Visibility*:
`LossesAreVisible` counts: the attempts at the record in hand are paid for by faults, so while
there are fewer faults than attempts the container has skipped nothing, and what it
acknowledged went through a final status for each channel. *Advancing*: `StatusesAdvance` assumes
of each request (`RepeatsHarmlessly`) that a channel it names again cannot have failed, and
completes the row at most once. Without that the code does show a status that goes back (section 5),
and a request that names no channel twice satisfies it.

### What is only model-checked

* Liveness (`OwedIsDelivered`, `AcceptedIsDelivered`, `StatusSettles`, `DueIsDone`, `DueIsPassed`):
  the prover has no fairness.
* The properties of the runs with the expectation "violation" (section 5), which are false.

## 5. Findings

A run with the expectation "violation" states what the repository's documents say and finds a
behaviour of the code that does otherwise; `PROJECT.json` quotes both.

* GoLostUpdate: updates are lost in a status table that "supports transactional updates". The
  Rust service has the same form.
* RustLoss: a crash loses a message whose offset was committed before the work.
* RustLateRow: a row stays at ENQUEUED when the worker is faster than the INSERT.
* TsLostEmit: the API accepts before it has sent, and drops the outcome. Java and Kotlin do too.
* JvmLoss: a database error at the PROCESSING update gives up the deliveries of a channel.

Met while modelling, and kept as observations without a run of their own (each can be seen by
checking the property in brackets under the named conditions):

* `total_failed` of `/metrics` is always 0 in all five: no update writes an overall FAILED.
  `MetricsExact` speaks of the other two counts.
* All five: a request that names its only channel twice shows COMPLETED, then PROCESSING, then
  COMPLETED again (`StatusAdvances` with such a request, and without any fault).
* Go: a former owner of the partition can leave a notification at PROCESSING (`StatusSettles`
  with "rebalance"), and redelivery after a crash takes a COMPLETED channel through PROCESSING
  again, here and in TypeScript, Java and Kotlin.
* Rust and TypeScript: what is sent before the first member of the group joins is skipped, in
  TypeScript also what is sent before that member first fetches (`OwedIsDelivered` without any
  fault). `main.ts` waits for its consumer before it serves, which narrows the gap but does not
  close it.
* TypeScript: a callback without `notification_id` makes TypeORM's `findOneBy` look for a row
  with no condition at all, and thus update an arbitrary one. The model's callbacks carry an id.
* TypeScript: concurrent updates can tear a row, as `save` writes only the differing columns
  (`RowsConsistent` with a hook).
* Java and Kotlin: write skew leaves PROCESSING over channels that are all completed
  (`RowsConsistent` with a hook).
* TypeScript, Java and Kotlin: one message that cannot be read stops the partition
  for good: `DueIsDone` and `StatusSettles` speak of what no such message precedes, and fail
  without that condition. Go and Rust step over it.

## 6. Not modelled

* Formatting: response envelopes, the wording of error answers, logging, DTO validation beyond
  "binds or answers 400". Time stamps.
* Several implementations on one broker, except for Java and Kotlin. All five name the topic
  `notifications`. Go, Rust and TypeScript have consumer groups of their own
  (`notification-workers-go`, `-rust`, `-ts`), so each group works on every message, also on those
  the others have accepted; no document says what they would owe each other. Java and Kotlin
  are in *one* group, `notification-workers`: the `groupId` of their listeners' annotations comes
  before the `notification-workers-kotlin` of the Kotlin `application.yml`. They also name the
  same database. Since they are one program in two languages, a deployment of both is an instance
  of JvmService, whose processes may be of either kind, but for a body without recipients that
  Java accepts: Kotlin cannot read it. A message that an implementation cannot read is modelled
  (`Junk`), whoever sends it.
* The start of a process other than in TypeScript: there the server and the consumer start
  independently, and a worker may join at any time.
* What only the design document describes: rate limits, tenants, retry with backoff, dead
  letters, priority topics, Redis. There is no code.
* Byte-level content of statuses and channel names: one spelling stands for the other cases.

## 7. Plan

Done, in this order: status table and topic; Go; the abstract promise and ledger; the proofs
about Go; Rust; TypeScript; Java and Kotlin; the proof about transactions; process start,
refused and incomplete requests and unreadable messages of the TypeScript service; what a
polling client sees; lost sends of Java and Kotlin.

Next, the model:

1. Several partitions for the batch commit of Spring Kafka, where one thread serves several.
2. Two implementations on one topic, once there is a statement of what should happen.

Next, the proofs: every safety and action property of the runs is stated by a theorem. What is
left is to share more of the three *Calm* and the two *Orderly* arguments, and, once there are
several partitions, to carry the invariants over to them.
