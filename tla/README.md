# A TLA+ model of the Stripe to Solace bridge

The bridge (`src/app`) is a FastAPI service. Stripe posts webhook events to it;
it answers at once, works the events off in the background, and publishes one
normalised message per event to a Solace broker. Redis remembers which events
are done, so that Stripe's redeliveries are dropped. Scripts (`src/scripts`)
provision the broker and check the pipeline.

This directory holds a model of that system in TLA+, the configurations that
check it with TLC, and proofs, checked by TLAPS, of what holds for every size.

```
tlc -workers 4 -config MCProcessorFaults.cfg MCAsyncProcessor.tla
tlapm AsyncProcessorProofs.tla
```

## 1. Inventory

State, operations and properties of each component; **what is hard** about it
is in bold. `PROJECT.json` lists the hazards line by line.

### Idempotency store: `app/services/idempotency.py`
*State.* Two keys per event in Redis, both with a time to live:
`processing:<id>` (the lock) and `processed:<id>` (the record).
*Operations.* `is_duplicate` (EXISTS record, then SET lock NX),
`mark_processed` (MULTI: SET record, DEL lock), `clear_processing` (DEL lock).
*Hard.* **`is_duplicate` is two commands with an await between them; a DEL does
not ask who holds the lock; a command whose answer is lost may have taken
effect; both keys may expire.** Redis is shared by every replica
(`helm/.../values.yaml` scales the deployment).
*Correct when* a recorded event is not sent again, one replica at a time works
on an event, and no lock is left behind without cause.

### Async processor: `app/services/async_processor.py`
*State.* A bounded `asyncio.Queue`, one worker task, a stop event, the counters
of `app/metrics.py`.
*Operations.* `enqueue` (called by the webhook), the worker's `_run` and
`_process_one`, `start`, `stop`.
*Hard.* **Every await is a point where the other tasks, the other replicas, a
cancellation or the death of the process may step in; `CancelledError` is no
`Exception`, so a cancelled event skips the error path; the error path itself
awaits Redis; `wait_for` may absorb a cancellation.**
*Correct when* every event answered with 200 is counted exactly once, a clean
stop leaves nothing behind, and every accepted event is settled in the end.

### Solace publisher: `app/services/solace_publisher.py`
*State.* The messaging service and publisher (set or not), the connection gauge
and publish counters; in the library, the session, a bounded buffer and whether
the publisher still accepts messages.
*Operations.* `connect`, `publish` (connect if never connected; up to
`max_publish_retries` attempts, with backoff; each on a pool thread),
`disconnect`, the receipt listener, `is_connected`.
*Hard.* **The thread of a cancelled publish runs on while `disconnect` proceeds;
the library accepts a message long before the broker has it; the buffer makes
`publish` wait; the loop bound and the test of the last attempt must agree.**
*Correct when* a call hands over at most one message and reports exactly what it
did, every call is counted once, and a completed `disconnect` leaves the
library empty.

### Lifespan, webhook, health: `app/lifespan.py`, `app/api/*`
Startup connects Redis and Solace and starts the worker; shutdown runs `stop()`,
`disconnect()`, `aclose()` in that order. The webhook answers 400 to a bad
signature, 429 to a full queue and 200 otherwise. **When `stop()` raises, the
other two are skipped; a publish of a cancelled worker is still on its thread
while `disconnect()` runs.**
*Correct when* the parts together do what each takes the others to do, a
recorded event can be accounted for, nothing is handed to the library after the
end of a shutdown, messages are left in it only when the worker had died, and a
shutdown ends.

### Router, handlers, envelope: `app/services/event_router.py`, `app/handlers/*`
Pure functions: type to topic, type to handler by first matching prefix, payload
to message. **Order of prefixes; fields that are absent, null or of another
type, guarded by each of nine handlers for itself.**

### Subscriber and queue consumer: `app/services/solace_subscriber.py`, `scripts/consume_queue.py`
Each call connects, receives, optionally acknowledges, and terminates.
**Unacknowledged messages are delivered again and, after too many deliveries,
moved to the dead message queue; an error in the middle loses what was
already acknowledged.**
*Correct when* no message is stranded or returned twice, and only an error or a
death keeps an acknowledged one from the caller.

### Provisioning: `scripts/provision_solace.py`
For each object of the broker: GET, and POST when the answer is "not found".
**Two runs at once; a run that died half way; errors of a GET; the limit on the
restarts of the chart's Job.**
*Correct when* exit status 0 means that all is there (save the topic exception,
see the finding *grant*), and each failure has a reason.

### Pipeline validation and demo sender: `scripts/validate_pipeline.py`, `scripts/send_demo_events_loop.py`
The validation may provision the broker first. Then, for each of five queues, it
posts a signed event and takes the first message of the queue it should be on.
The queues are durable and nobody empties them: `make e2e` runs tests before it
that leave messages, as do Stripe's own traffic and earlier validations. The
demo sender posts events of any one `--event-type`, again and again.
**A message left over, or somebody else's, passes for the one just sent; another
provisioning run is under way.**
*Correct when* exit status 0 means that each check took an envelope, and its own
event where nothing else was in the way, and that the queues are subscribed.

### The rest
Configuration, logging, request middleware and the deployment files keep no
state that a property here is about (`PROJECT.json` says why for each).

## 2. Modules

| Module | Models | State |
|---|---|---|
| `IdempotencyStore` | the Redis commands of `idempotency.py` and the expiry of keys | `processing`, `processed` |
| `AsyncProcessor` (extends it) | any number of replicas: webhook, queue, worker, `stop()`, death, restart | `life`, `queue`, `pc`, `item`, counters |
| `PublishContract` | abstract: what `publish` promises the processor | `stage`, `handed`, `successes`, `losses` |
| `SolacePublisher` (implements it) | lifespan, `connect`, `publish`, its pool thread, `disconnect`, over the client library and the broker | fields, gauge, counters; session, buffer, broker |
| `Bridge` (extends `AsyncProcessor`, instantiates `SolacePublisher`) | one whole process: lifespan, webhook, processor and publisher, one step for the steps they take together | theirs, and the webhook's counters |
| `Topology` | the queues and subscriptions the scripts provision | none |
| `EventRouter` (extends it) | the topic of an event type | none |
| `EventHandlers` | what each handler makes of a payload of each shape | none |
| `Routing` (extends both) | topic, handler, normalisation and queues of an event | the event in hand |
| `Provisioning` (extends `Topology`) | concurrent, interrupted, repeated runs of the script against one broker | `objects`; `phase`, `step`, `failures` of each run |
| `ValidatePipeline` (extends `Provisioning`, `EventRouter`) | a run of the validation beside provisioning runs and the demo sender, over the bridge seen from outside and queues with messages on them | `at`, `check`, `passed`, `status`; `queue`, `transit`; `sent` |
| `SolaceSubscriber` | clients that consume, browse or drain one durable queue | `place`, `deliveries`; `pc`, `task`, `got`, `results` |
| `AsyncProcessorProofs` | theorems about `AsyncProcessor` | |
| `SolacePublisherProofs`, `ProvisioningProofs`, `SolaceSubscriberProofs` | theorems about the module each extends | |
| `BridgeProofs` (extends `Bridge`, `AsyncProcessorProofs`; instantiates `SolacePublisherProofs`) | theorems about `Bridge`, from those about its parts | |
| `EventRouterProofs` | lemmas about topics and subscriptions, for the next two | |
| `RoutingProofs`, `ValidatePipelineProofs` (also extends `ProvisioningProofs`) | theorems about `Routing` and `ValidatePipeline` | |
| `MC...` | definitions the TLC configurations use | |

### How actions correspond to the code

*One step per await.* Coroutines of one event loop only switch at an `await`, so
everything between two awaits is one action, and `pc[r]` (the worker), `await`
(a publish call), `pc[c]` (a subscriber) name the await a task is suspended at.
`Acquire`, for instance, is the answer to `SET NX` together with routing and
normalisation, up to `await publish`.

*Cancellation.* `StopTimeout` strikes at any await. `CancelledError` passes
`except Exception`, so no lock is cleared and no status counted. What was in
flight may still take effect: a Redis command already sent (`CommandMayLand`),
a publish on its pool thread. The message is handed over or not by then
(`PublishMayLand`), or the thread outlives the worker (`StopTimeoutOrphans`) and
may hand it over at any later time, or never (`OrphanLands`); `SolacePublisher`
has the thread itself. The image runs Python 3.11, whose `wait_for` returns the result of
an already finished `queue.get()` and swallows the cancellation; `stop()` then
waits for the backlog without a limit: life `"overtime"`.

*Redis errors.* A command may raise before or after it took effect
(`RedisFails`, `ClearFails`). redis-py does not retry by default, and the
clients set no timeout. EXISTS, SET NX, MULTI and DEL are atomic.

*The Solace library* is external. It is modelled from the options the code sets:
`on_back_pressure_wait` (publish waits while the buffer is full), 300
reconnection attempts, `terminate` with a grace period, a receipt listener.

*The broker's queue* is external as well: non-exclusive, ordered, redelivery
when a receiver ends without an acknowledgement, dead message queue beyond
`maxRedeliveryCount`. `test_e2e_dmq.py` relies on the same behaviour: six
deliveries of a queue provisioned with a count of 5. A `terminate()` that raises
is assumed to have ended its receiver.

*Composition.* In `Bridge` the processor's await `"publish"` is a whole call of
the publisher: `CallsPublish` starts both, `PublishReturns` ends both, and
`StopCancelsCall` cuts both off, leaving the thread to run (`ThreadHands` then
is the processor's `OrphanLands`). The two share the count of messages handed
over and the setting `async_queue_size`, which bounds the queue and the library's
buffer alike. `phase` is `SolacePublisher`'s `life`: `Starts` is the last step of
startup, `Disconnects` waits for `stop()` to have returned, or to have raised.
A message the thread has handed over counts for the processor once its call has
returned (`Settled`): that is the refinement mapping of `ImplementsProcessor`.

*Payloads* are abstracted to what the handlers look into: `created`, `data`,
`data.object` and the list that three kinds of objects have, each absent, null,
of another type, or right.

*Validation.* The bridge is reduced to what `Bridge` shows of it from outside:
it answers a post and later publishes the event or loses it. The queues get
messages according to the subscriptions that `Provisioning`'s broker has at that
moment (`Reached`). They start with any messages (`LeftOvers`) that the
subscriptions of the broker let through, of any types and of any origin: `from`
is `"earlier"` for what a bridge has published before, `"foreign"` for what need
not be an envelope and so may fail the test of lines 149-157.

*Restarts of the init job.* A failed run of `Jobs` starts again until it has
failed more than `BackoffLimit` times. The chart's Job sets no `backoffLimit`,
which makes it 6 by Kubernetes' default; the container of docker compose
(`restart: on-failure`) has no limit.

*History variables* record what no program variable holds, and no guard reads
them: `accepted`, `handed`, `abandoned`, `troubled` (events for which Redis
raised an error or dropped a key), `lost`, `dropped`, `refused`, `returned`,
`forfeited` (acknowledged messages no caller will see), `ahead`, `taken`.

*Unreachable code.* The guard of `connect()` (l. 78) and the second check of
`publish` (l. 123-126) are never taken from the callers there are, and have no
action. `start()` finds no worker, since each startup builds a processor.

*Seeded faults.* An operator named `Wrong...` is a faulty variant of the
definition that follows it; no other definition uses it. Every property of every
passing run is violated when the variant listed for it in `PROJECT.json`
replaces the definition.

## 3. Runs

All configurations say `CHECK_DEADLOCK FALSE`: every one of these systems may
stop for good (a bridge that is down, a script that has ended).

| Configuration | Question | Answer |
|---|---|---|
| `MCProcessorFaults` | One replica under every fault: do books, locks, records and clean stops stay right, does a second message need trouble with Redis, does `stop()` end, is every accepted event settled? | holds |
| `MCProcessorReplicas` | Two replicas under every fault: does the lock exclude, as long as Redis raised no error for the event and dropped none of its keys? | holds |
| `MCProcessorStaleCheck` | Two replicas, no fault: at most one message? | **violated** |
| `MCProcessorWorkerDeath` | Does the worker live as long as events are accepted? | **violated** |
| `MCProcessorSilentLoss` | Was every recorded event handed over, if `publish` may give up? | **violated** |
| `MCPublisher` | Are calls counted, do they return, does disconnect flush, is `PublishContract` implemented? | holds |
| `MCBridge` | One whole process: does it implement `AsyncProcessor`, do the counters of its three parts reconcile, is every recorded event accounted for, is nothing handed over after a shutdown, are messages left in the library only when the worker died, does a shutdown end, is every accepted event settled? | holds |
| `MCRouting` | Do handler map, topic mapping and subscriptions agree for every type, and does every payload of the API get through? | holds |
| `MCValidatePipeline` | Provisioning: does exit status 0 mean that all but the topic exception is there, are parents first, has each failure a reason, does a job succeed or use up its retries? Validation beside it: what does exit status 0 show? | holds |
| `MCProvisioningGrant` | Does exit status 0 include the publish grant? | **violated** |
| `MCSubscriber` | Is no message stranded, returned twice, or taken beyond what was asked; does an acknowledged one reach its caller unless the call raises, dies or only counts; does every call end? | holds |
| `MCSubscriberBrowse` | Does browsing leave the queue alone? | **violated** |

What the violated ones show, with the sentence of the repository each one
contradicts, is under `findings` in `PROJECT.json`. In short:

- *stale check*: replica A's EXISTS is answered before, its SET NX after replica
  B has published, recorded and released the event; A publishes it again.
- *worker death*: Redis fails again while the first failure is handled; the
  exception ends the only worker, and events are accepted into a dead queue.
- *silent loss*: `publish` swallows its last failure, and the event is recorded.
- *grant*: a failing check of the topic exception is ignored.
- *browse*: every look without an acknowledgement counts as a redelivery, so the
  documented `--count 10` moves the oldest message to the dead message queue.

`MCValidatePipeline` also shows how far a passing validation goes
(`PassMeansDelivered`). Each check took an envelope. Where a message was waiting
on the queue, that message is what the check took, and it tells nothing of the
event just posted. Where the queue was empty, the check took its own event or one
of the demo sender, and the first four never each other's. The fifth reads the
audit queue, on which the messages of the earlier checks wait: with the
provisioning the script does itself, and one of the first four served by its own
event, it never takes its own message, and so passes when the checkout event is
lost. The line "Queue depth: 0" is printed whatever is left on the queues.

`SuccessMeansProvisioned` excepts the topic exception of the ACL profile, as
`MCProvisioningGrant` shows it must.

`MCBridge` shows what becomes of a publish whose worker was cancelled: its thread
may hand the message over while `disconnect()` waits for the buffer to empty, and
not later, as `terminate` closes the publisher first. When the worker has died,
`stop()` raises and `disconnect()` is skipped: the library keeps its session and
may still send what it holds, or reconnect, until the process is gone, but nobody
waits for it (`UnflushedNeedsDeath`; `DisconnectFlushes` of `MCPublisher` is about
completed disconnects only and says nothing here). `RecordedIsAccountedFor` names
the ways a recorded message may be lost (refused, given up, cut short, a failed
call) and does not say that none is; `EveryEventSettles` says that the worker gets
through its events, also when the library has given up its session and each of
them is lost.

The models contain five more behaviours worth knowing that no run here asks
about: the exception handler of the processor deletes the lock also when the
duplicate check itself raised, hence possibly the lock of another replica
(`Clear` after `RedisFails` at `exists`; the event counts as `troubled` in
`Exclusive`); a processing key that expires during a long `publish` lets another
replica, or a redelivery, publish the event beside it (likewise); the connection gauge is written by
connect and disconnect only, so it stays 1 through an outage (`LinkDrops`); a
message the broker refuses leaves a debug log line and nothing else
(`Refused`); and of two provisioning runs that overlap, the one that loses the
race between GET and POST ends with an error (`PostRefused`), and with it the
validation that started it.

### Bounds, and why they are enough

- *Processor*: two events (one whose normalisation raises) and one delivery
  without identifier, so that a step for one event can disturb another's keys;
  four deliveries, so that an event is delivered,
  redelivered while in hand and redelivered after a restart, and a queue of two
  overflows behind the event in hand (429); three starts,
  for a death and a stop in one behaviour. Two replicas suffice for what two of
  them can do to each other, with three deliveries (838,894 states, every fault
  on); the theorems cover any number.
- *Publisher*: two attempts make the first, the retried and the last one
  distinct; a buffer of one or two fills up; two outages let one end either way
  after another; three calls outnumber the buffer.
- *Bridge*: one place in the queue and in the buffer, so that both fill up with
  two deliveries; two events, one of them failing; two starts, two attempts, one
  outage, one forged post (222,188 states). Larger faults of each part are in its
  own run.
- *Routing*: all words of the tables and one foreign word, three words per type
  (the longest type has three), so every supported type and every type that
  differs from one in a word or is cut short is tried; every shape of payload for
  the supported types and one more.
- *Provisioning and validation*: the real plan and the real checks, on a broker
  that an earlier run has provisioned up to any point; a job that is restarted
  once (`BackoffLimit` 1 instead of 6: enough for a job to recover, and, with a
  fault and lost races, to be given up) and the validation's own run, for every
  race between GET and POST; up to one message left on each queue, an envelope or
  not, and one event of the demo sender, of a type that reaches the third queue
  and the audit queue; one fault (`MaxFaults`) among failing requests, runs cut
  off, posts refused, events lost and answers too late (1,105,404 states). The
  theorems cover any number of all of these and any types.
- *Subscriber*: two clients, two messages, three calls, `maxRedeliveryCount` 1 so
  that the dead message queue is reached early, and prefetching of two, so that
  a receiver may hold a message its client never looks at (65,763 states). Since
  the messages are finitely many, `CallsEnd` says of `drain_queue` that nothing
  but more messages keeps it from its time-out; under traffic without a pause it
  would not end. The browse run uses the provisioned count of 5.

Symmetry over replicas is used for safety only.

### Fairness

- *Processor*: weak fairness of a replica's worker and of its `stop()`. The
  event loop resumes a task whose await is answered, and timers fire. It assumes
  that Redis and the library answer or raise; a Redis that keeps a connection
  open and never answers would hold the worker for ever, since no socket timeout
  is set.
- *Publisher*: weak fairness of the call, the thread, the library's sending, its
  reconnection (300 attempts, then it gives up) and the grace period.
- *Bridge*: that of its parts; the worker's steps include the beginning of a
  call, the publisher's its end.
- *Provisioning*: requests have a timeout of 20 s, and a failed run of the
  chart's init job (`Jobs`) is started again, `OnFailure`, while its failures have
  not exceeded the limit. No restart is assumed beyond it: `EveryJobSettles` lets a
  job end given up, `FailuresAreExplained` counts what it takes to get there, and
  the theorem `EnoughRetries` how many retries rule it out. The validation's own
  run is not restarted by anybody.
- *Subscriber*: `receive_message` has a timeout; other library calls return or
  raise.

Nobody is obliged to post, stop, restart, publish, validate, or let a key expire.

## 4. Theorems

TLAPS checks them for every value of the constants that the named assumptions
of the modules allow. Every invariant, action property and refinement that a
passing run checks is a theorem; the liveness properties are not (see below).

Processor, `AsyncProcessorProofs`: any set of replicas and events, any queue
size, number of deliveries and of starts.

| Theorem | Assuming | States |
|---|---|---|
| `TypeCorrect` | | `TypeOK` |
| `AccountingHolds` | | an event answered with 200 is queued, in hand, or counted once |
| `CleanStopDrains` | | a stop that ends because the worker did left nothing |
| `LocksStayAccounted` | | only cancellation, death and a failing DEL leave a lock behind |
| `ReplicasExclude` | | no two replicas publish or mark one event at once, unless Redis raised an error for it, or dropped one of its keys |
| `ProcessedStaysProcessed` | one replica | no message leaves for a recorded event |
| `SingleReplicaSendsOnce` | one replica | a second message leaves for an event only after Redis raised an error for it, or dropped one of its keys |

The assumption is needed: `MCProcessorStaleCheck` is what happens with two
replicas. That a recorded event was handed over is no theorem:
`MCProcessorSilentLoss` refutes it.

Publisher, `SolacePublisherProofs`: any setting of `max_publish_retries`, any
capacity of the buffer, number of calls and of outages.

| Theorem | States |
|---|---|
| `TypeCorrect` | `TypeOK` |
| `CallsStayCounted` | each call that was not cancelled ends in one final status; failures and retries agree with that |
| `DisconnectLeavesNothing` | after a completed `disconnect` the library holds nothing, whatever thread is still about |
| `PublisherKeepsContract` | the publisher implements `PublishContract` |

Bridge, `BridgeProofs`: one process, a queue of any positive size.

| Theorem | States |
|---|---|
| `BridgeTypeCorrect` | `BridgeTypeOK` |
| `BridgeImplements` | the process implements `AsyncProcessor` |
| `BridgeSendsOnce` | `DuplicatesNeedTrouble`, of every message the threads of the process hand over |
| `BridgeNeverRepublishes` | no thread hands over a message of a recorded event |
| `BridgeKeepsBooks`, `BridgeKeepsLocks`, `BridgeDrains` | `Accounting`, `LocksAccounted` and `DrainedOnCleanStop`, of the process |
| `RecordedAccounted` | a recorded event is at the broker, in the library, dropped by it, or counted as a failure |
| `MetricsStayReconciled` | the counters of webhook, processor and publisher reconcile |
| `NothingHandedOver` | after the end of a shutdown nothing is handed to the library, whichever way it ended; after a completed `disconnect` nothing reaches the broker either, and no session comes up |
| `UnflushedOnlyByDeath` | a shutdown leaves messages in the library only when the worker had died |

Routing, `RoutingProofs`: event types of any words and any length, any accounts.

| Theorem | States |
|---|---|
| `TypeCorrect` | `TypeOK` |
| `LongestPrefixWins` | the first prefix that matches is the longest |
| `TablesAlwaysAgree` | topic mapping, handler map and subscriptions agree |
| `TopicsAreTelling` | a supported type shares its topic with no other type |
| `ApiEventsPass` | no handler raises on a payload of a shape the API sends |

Provisioning and validation, `ProvisioningProofs` and `ValidatePipelineProofs`:
the plan and the checks of the scripts, any number of runs, jobs, restarts and
faults, any messages left on the queues and any events of the demo sender, of any
types.

| Theorem | States |
|---|---|
| `TypeCorrect`, `ValidateTypeCorrect` | `TypeOK`, `ValidateTypeOK` |
| `SuccessProvisions`, `ValidateProvisions` | exit status 0 of a provisioning run means that all but the topic exception is there |
| `ParentsFirst`, `ValidateParentsFirst` | no object is asked for before its parent is there |
| `EachFailureExplained`, `ValidateFailuresExplained` | a run fails at most once for each fault and each object on the broker |
| `EnoughRetries` | with as many restarts allowed as there are faults and objects in the plan, no job is given up |
| `PassDelivers` | exit status 0 of the validation: each check took an envelope, the message that was waiting if there was one, else its own event or one of the demo sender; the first four never each other's; the fifth not its own, once the script has provisioned the broker and one of the four got its own |
| `PassIsWired` | exit status 0: each queue has a subscription that matches its event |

Subscriber, `SolaceSubscriberProofs`: any number of clients, messages and calls,
any prefetching and redelivery limit.

| Theorem | States |
|---|---|
| `TypeCorrect` | `TypeOK`: in particular, no more deliveries than the limit allows |
| `NoneStranded` | no client holds a message without a receiver that is going to end |
| `EachReturnedOnce` | what an acknowledging call has collected is off the queue, and returned once |
| `ConsumesAtMostN` | a call of `consume_n` collects no more than `n` |
| `AckedStaysAccounted` | an acknowledged message is with a running call or was returned, unless the call raised, died or only counts |

### Arguments

Almost none of these is inductive by itself.

*Processor.* `TypeInv` adds to `TypeOK`
that a worker past `queue.get()` holds an identified event (`HandOK`); it types
every use of `item[r]` as a key. `ProcInv` adds how the worker's await and the
life of its process go together (`LifeOK`): a worker that returned found its
queue empty and its process stopping; this turns `Accounting` into
`DrainedOnCleanStop`. `Accounting` is inductive under `TypeInv`, since each exit
of `_process_one` moves one event from "in hand" to one status. `LocksAccounted`
is inductive because `Abandon` records exactly the steps that cut a worker off.
For `Exclusive`, `HolderInv` says that a worker past SET NX owns the key of an
event Redis gave no trouble with, and that a worker about to DEL is there for an
event that never reaches the publisher or that Redis gave trouble with: so the
DEL of one worker cannot free the lock of another unless the event is `troubled`.
For a single replica,
`FreshRead` says that what EXISTS answered is still so at `publish`.
`OneMessageInv` says, of every event Redis gave no trouble with, that once its
message is out the event is remembered by its lock until the record takes over,
that a cancelled call which may still hand it over (`"orphaned"`) has left its
lock behind, and that the only lock released without a record is that of an
event that never reached the publisher. An event Redis failed for is `troubled`
from then on and the invariant asks nothing more of it, which is why the theorem
needs no assumption about Redis.

*Publisher.* `CallOK` ties the await of a call to its loop counter and its
thread: in a backoff there is no thread and an attempt is left, so the loop ends
by its own test of the last attempt and never by running out. `ShutdownOK` says
what `disconnect` finds: the worker is gone, so no call is under way but
a cancelled one, and `terminate` closes the publisher before it empties the
buffer; from then on a late thread is refused. `CountInv` counts a call under way
as the one without a status, and reserves for it the retries its attempts
left allow. The contract's `stage` is a function of await and thread, and the
proof takes the actions one by one: only `LibraryAccepts` is a `HandOver`, and
what the thread does after a cancellation is one as well.

*Bridge.* `LinkInv` says how the two parts go together: the worker is at
`publish` just when a call of its event is, a cancelled call that may still hand
over belongs to a worker that counts as `"orphaned"`, and a shutdown that has
ended leaves no thread in the library that could still hand over, and no message
in it unless the worker died. With it each step
of the bridge is one of `AsyncProcessor` with `handed <- Settled`, or a stutter: the
message of a thread becomes the processor's when its call returns. So the
theorems of the processor hold of the process (`BridgeKeepsBooks`,
`BridgeKeepsLocks`, `BridgeDrains`), but of the settled messages only. `BridgeSendsOnce`
and `BridgeNeverRepublishes` go further and speak of all of them: a message is
handed over by a thread for the event in hand, which by `FreshRead` is not on
record, and by `OneMessageInv` had none before. `AccountInv` adds to
`RecordedIsAccountedFor` that the event of a call that has handed over, and of
the worker at `mark`, is accounted for already. `MetricsInv` is
`MetricsReconcile` with the event between two counters made exact.

*Routing.* `ChosenInv` says that topic and handler are those of the type in hand;
the rest are facts about the tables, and the work lies in them: a row that
matches compares the first words, at most two, so types of any length fall into
the few classes of the map; `IsTopic` gives the levels of every topic, and
`TopicsDiffer` and `WhatMatches` compare them level by level.

*Provisioning.* `PastIsThere`: what a run has passed is there, nothing is
ever deleted. `Ordered`, a fact of the plan that the code builds, says that each
object comes after its parents, and none of the parents is the topic exception,
the one object whose failing check is ignored. `LossesAreExplained` strengthens
`FailuresAreExplained`: a run at the POST of an object that is there by now
(`Losing`) counts as if it had failed already, so that the step that creates the
object pays for all the runs that lose it.

*Validation.* It keeps the invariant of provisioning, since every step of the
script is one of its own run or none. `OwnInv` places that run before the first
check, `PassedInv` says that as many checks have passed as are behind the script
only if each took an envelope, `PostedInv` that an event of a check that is about
has been posted, and that what the bridge has under way is no left-over,
`WiredInv` that a message on a queue came by a subscription that is still there.
`FoundInv` says that the message a check found stays at the head of its queue
until the check takes it, and that a queue that was empty gets nothing but
messages from the bridge. `AuditInv` is the reason the fifth check cannot fail:
the audit queue gets what every queue gets, so where one of the first four checks
has its own event, that event is on it as well or an older message is, and its
head is never the fifth's own.

*Subscriber.* `WithinLimit` bounds the deliveries of a message still on the queue.
`HandInv` says where the message of a call is, and that a call that is about to
end well has it acknowledged. `ClaimInv` says that at most one acknowledging call
answers for an acknowledged message, and none once it is returned. The accounts
of `AckedIsAccounted` are settled message by message: `Claims` hands a message
from `got` to `results`, and `Return` from there to `returned` or `forfeited`. The
assumption `Clients \cap Places = {}` only keeps the names of clients apart from
those of places, since `place` holds either.

### Model-checked only

Liveness: `StopEnds`, `EveryEventSettles`, `ShutdownEnds`, `CallsReturn`,
`CallsEnd`, `EveryJobSettles`. They rest on fairness and `ENABLED`, which are out
of the prover's reach. The findings (the violated runs) are counterexamples.

## 5. Not modelled, and the plan

Not modelled: configuration, logging, request middleware, histograms, the queue
gauge and the rendering of metrics, TLS and message properties, the HMAC of the
signature (the stripe library's), the fields a handler copies, the decoding of
consumed payloads, the Stripe CLI wrapper, and the deployment files (read for the
number of replicas, the restart policy and the Python version). None of them
keeps state that the properties tell apart.

Next, proofs, in this order:

1. `SolacePublisherProofs`: what the contract gives of the publisher itself, a
   call hands over at most one message, and exactly one when it returns a success.
2. `ProvisioningProofs`: a run on a broker that has everything sends no POST that
   changes it.
3. `SolacePublisher`: every message handed over is in the buffer, at the broker
   or dropped, each once, as an invariant to check and to prove.
