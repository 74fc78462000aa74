--------------------------- MODULE AsyncProcessor ---------------------------
(***************************************************************************)
(* The background pipeline of app/services/async_processor.py, run by each *)
(* replica of the bridge over one shared idempotency store.                *)
(*                                                                         *)
(* A replica is one process with one event loop.  Its webhook handler puts *)
(* events on a bounded queue; one worker task takes them off and, for each *)
(* one, awaits Redis (EXISTS, then SET NX), the Solace publisher, and      *)
(* Redis again (MULTI, or DEL after a failure).  The loop only switches    *)
(* tasks at an await, so what runs between two awaits is one step here,    *)
(* and pc[r] names the await at which the worker of r is suspended.        *)
(*                                                                         *)
(* The lifespan stops the worker: stop() waits for it to drain the queue   *)
(* and cancels it after a timeout.  A replica may also die at any moment;  *)
(* a command it had sent may or may not have reached its server.           *)
(***************************************************************************)
EXTENDS IdempotencyStore, Integers, Sequences

CONSTANTS
    Replicas,           \* bridge processes sharing the store
    NoId,               \* a delivered event that carries no identifier
    Nothing,            \* no event in hand
    BadEvents,          \* events whose routing or normalisation raises
    QueueSize,          \* asyncio.Queue(maxsize): unbounded when <= 0
    MaxDeliveries,      \* bound: webhook posts that reach a running replica
    MaxBoots,           \* bound: process starts, over all replicas
    RedisMayFail,       \* commands may raise, after or before they took effect
    KeysMayExpire,      \* a time to live may run out
    PublishMayFail      \* SolacePublisher.publish may give up (and not say so)

ASSUME ConstantsAssumption ==
    /\ BadEvents \subseteq Events
    /\ NoId \notin Events
    /\ Nothing \notin Events \cup {NoId}
    /\ QueueSize \in Int
    /\ MaxDeliveries \in Nat
    /\ MaxBoots \in Nat
    /\ RedisMayFail \in BOOLEAN
    /\ KeysMayExpire \in BOOLEAN
    /\ PublishMayFail \in BOOLEAN

VARIABLES
    life,               \* where the process of a replica is
    queue,              \* AsyncProcessor._queue
    pc,                 \* the await the worker task is suspended at
    item,               \* the event the worker has in hand
    accepted,           \* enqueue() calls that returned True
    verdicts,           \* stripe_events_processed_total, by status
    handed,             \* messages of an event the Solace client accepted
    abandoned,          \* history: locks no worker will release any more
    troubled,           \* history: events Redis raised for, or dropped a key of
    deliveries,         \* counts webhook posts up to MaxDeliveries
    boots               \* counts process starts up to MaxBoots

vars == <<processing, processed, life, queue, pc, item, accepted, verdicts,
          handed, abandoned, troubled, deliveries, boots>>

-----------------------------------------------------------------------------
(* States *)

(* "overtime": stop() has timed out but its cancellation was absorbed.     *)
(* "stopped", "aborted": stop() has returned, has raised.                  *)
Lives == {"down", "running", "stopping", "overtime", "stopped", "aborted"}

InStop == {"stopping", "overtime"}

(* The awaits of one event, in the order of the code. *)
Handling == {"exists", "setnx", "publish", "mark"}

(* "none": no task.  "done", "failed", "cancelled": how the task ended.    *)
(* "orphaned": it was cancelled while a pool thread was publishing for it. *)
PCs == Handling \cup {"none", "get", "clear", "done", "failed", "cancelled", "orphaned"}

Verdicts == {"success", "duplicate", "failure", "invalid"}

NoVerdicts == [v \in Verdicts |-> 0]

(* _process_one: "if not event_id". *)
WrongHasId(e) == TRUE           \* seeded fault: the test is missing

HasId(e) == e # NoId

(* _run: the test that ends the loop. *)
WrongIsDrained(r) ==            \* seeded fault: the queue is not looked at
    life[r] \in InStop

WrongIsDrainedInverted(r) ==            \* seeded fault: the queue test is inverted
    life[r] \in InStop /\ queue[r] # <<>>

IsDrained(r) == life[r] \in InStop /\ queue[r] = <<>>

QueueIsFull(r) == QueueSize > 0 /\ Len(queue[r]) >= QueueSize

(* The lock of the event in hand is what keeps the other replicas off it. *)
HasTheEvent(r) == pc[r] \in {"publish", "mark", "orphaned"}

(* Metrics incremented so far, and events taken off without one. *)
Counted(r) == verdicts[r]["success"] + verdicts[r]["duplicate"]
                + verdicts[r]["failure"] + verdicts[r]["invalid"]

Uncounted(r) ==
    IF pc[r] \in Handling \/ (pc[r] \in {"cancelled", "orphaned"} /\ item[r] # Nothing)
    THEN 1 ELSE 0

Init ==
    /\ StoreInit
    /\ life = [r \in Replicas |-> "down"]
    /\ queue = [r \in Replicas |-> <<>>]
    /\ pc = [r \in Replicas |-> "none"]
    /\ item = [r \in Replicas |-> Nothing]
    /\ accepted = [r \in Replicas |-> 0]
    /\ verdicts = [r \in Replicas |-> NoVerdicts]
    /\ handed = [e \in Events |-> 0]
    /\ abandoned = {}
    /\ troubled = {}
    /\ deliveries = 0
    /\ boots = 0

-----------------------------------------------------------------------------
(* Pieces of steps *)

Goto(r, await) == pc' = [pc EXCEPT ![r] = await]

WrongCount(r, verdict) ==       \* seeded fault: the counter is set, not advanced
    verdicts' = [verdicts EXCEPT ![r][verdict] = 1]

Count(r, verdict) == verdicts' = [verdicts EXCEPT ![r][verdict] = @ + 1]

(* _process_one returns; the worker is back at queue.get(). *)
WrongFinish(r) ==               \* seeded fault: _run ends with the first event
    /\ Goto(r, "done")
    /\ item' = [item EXCEPT ![r] = Nothing]

Finish(r) ==
    /\ Goto(r, "get")
    /\ item' = [item EXCEPT ![r] = Nothing]

(* History: the locks in S that outlive this step have lost their worker. *)
Abandon(S) == abandoned' = (abandoned \cup S) \cap processing'

(* History: Redis forgets something about e, or does not say what it knows. *)
Trouble(e) == troubled' = troubled \cup {e}

(* The client library accepts one message for e. *)
Hand(e) == handed' = [handed EXCEPT ![e] = @ + 1]

(* A command whose answer never comes took effect at the server or did not. *)
CommandMayLand(r) ==
    \/ UNCHANGED storeVars
    \/ pc[r] = "setnx" /\ SetProcessing(item[r])
    \/ pc[r] = "mark" /\ MarkProcessed(item[r])
    \/ pc[r] = "clear" /\ ClearProcessing(item[r])

(* Likewise a publish: the library took the message or did not. *)
PublishMayLand(r) ==
    \/ UNCHANGED handed
    \/ pc[r] = "publish" /\ Hand(item[r])

(* The worker of r is cut off in the middle of what it was awaiting. *)
Interrupt(r) ==
    /\ CommandMayLand(r)
    /\ PublishMayLand(r)
    /\ Abandon(IF pc[r] \in {"setnx", "publish", "mark", "clear"}
               THEN {item[r]} ELSE {})

(* The memory of a process that does not run, or has just been started. *)
EmptyMemory(r) ==
    /\ queue' = [queue EXCEPT ![r] = <<>>]
    /\ item' = [item EXCEPT ![r] = Nothing]
    /\ accepted' = [accepted EXCEPT ![r] = 0]
    /\ verdicts' = [verdicts EXCEPT ![r] = NoVerdicts]

-----------------------------------------------------------------------------
(* The process: lifespan startup, death *)

(* A new AsyncProcessor is built and started. *)
Boot(r) ==
    /\ life[r] \in {"down", "stopped", "aborted"}
    /\ boots < MaxBoots
    /\ boots' = boots + 1
    /\ life' = [life EXCEPT ![r] = "running"]
    /\ Goto(r, "get")
    /\ EmptyMemory(r)
    /\ UNCHANGED <<storeVars, handed, abandoned, troubled, deliveries>>

Crash(r) ==
    /\ life[r] # "down"
    /\ life' = [life EXCEPT ![r] = "down"]
    /\ Goto(r, "none")
    /\ EmptyMemory(r)
    /\ Interrupt(r)
    /\ UNCHANGED <<troubled, deliveries, boots>>

-----------------------------------------------------------------------------
(* The webhook handler calls enqueue(): True, or False on a full queue *)

Enqueue(r, e) ==
    /\ life[r] = "running"
    /\ deliveries < MaxDeliveries
    /\ ~QueueIsFull(r)
    /\ queue' = [queue EXCEPT ![r] = Append(@, e)]
    /\ accepted' = [accepted EXCEPT ![r] = @ + 1]
    /\ deliveries' = deliveries + 1
    /\ UNCHANGED <<storeVars, life, pc, item, verdicts, handed, abandoned,
                   troubled, boots>>

EnqueueRefused(r) ==
    /\ life[r] = "running"
    /\ deliveries < MaxDeliveries
    /\ QueueIsFull(r)
    /\ deliveries' = deliveries + 1
    /\ UNCHANGED <<storeVars, life, queue, pc, item, accepted, verdicts, handed,
                   abandoned, troubled, boots>>

-----------------------------------------------------------------------------
(* The worker: _run and _process_one *)

TakeHead(r) ==
    /\ pc[r] = "get"
    /\ queue[r] # <<>>
    /\ queue' = [queue EXCEPT ![r] = Tail(@)]
    /\ UNCHANGED <<storeVars, life, accepted, handed, abandoned, troubled,
                   deliveries, boots>>

Get(r) ==
    /\ TakeHead(r)
    /\ HasId(Head(queue[r]))
    /\ item' = [item EXCEPT ![r] = Head(queue[r])]
    /\ Goto(r, "exists")
    /\ UNCHANGED verdicts

(* An event without identifier is counted and dropped without an await. *)
SkipInvalid(r) ==
    /\ TakeHead(r)
    /\ ~HasId(Head(queue[r]))
    /\ Count(r, "invalid")
    /\ UNCHANGED <<pc, item>>

(* EXISTS answers 1. *)
SkipProcessed(r) ==
    /\ pc[r] = "exists"
    /\ IsProcessed(item[r])
    /\ Count(r, "duplicate")
    /\ Finish(r)
    /\ UNCHANGED <<storeVars, life, queue, accepted, handed, abandoned, troubled,
                   deliveries, boots>>

(* EXISTS answers 0; SET NX is sent. *)
CheckProcessed(r) ==
    /\ pc[r] = "exists"
    /\ ~IsProcessed(item[r])
    /\ Goto(r, "setnx")
    /\ UNCHANGED <<storeVars, life, queue, item, accepted, verdicts, handed,
                   abandoned, troubled, deliveries, boots>>

(* SET NX answers nil: some worker has, or had, the event in hand. *)
WrongSkipInProgress(r) ==       \* seeded fault: a finally clears the lock
    /\ pc[r] = "setnx"
    /\ ~LockIsFree(item[r])
    /\ Count(r, "duplicate")
    /\ Goto(r, "clear")
    /\ UNCHANGED <<storeVars, life, queue, item, accepted, handed, abandoned,
                   troubled, deliveries, boots>>

SkipInProgress(r) ==
    /\ pc[r] = "setnx"
    /\ ~LockIsFree(item[r])
    /\ Count(r, "duplicate")
    /\ Finish(r)
    /\ UNCHANGED <<storeVars, life, queue, accepted, handed, abandoned, troubled,
                   deliveries, boots>>

(* SET NX answers OK; the event is routed and normalised in the same step, *)
(* and either goes to the publisher or is counted as a failure.            *)
Acquire(r) ==
    /\ pc[r] = "setnx"
    /\ LockIsFree(item[r])
    /\ SetProcessing(item[r])
    /\ Abandon({})
    /\ \/ /\ item[r] \notin BadEvents
          /\ Goto(r, "publish")
          /\ UNCHANGED verdicts
       \/ /\ item[r] \in BadEvents
          /\ Count(r, "failure")
          /\ Goto(r, "clear")
    /\ UNCHANGED <<life, queue, item, accepted, handed, troubled, deliveries,
                   boots>>

(* publish() returns whether or not the message was handed over. *)
Publish(r) ==
    /\ pc[r] = "publish"
    /\ \/ Hand(item[r])
       \/ PublishMayFail /\ UNCHANGED handed
    /\ Goto(r, "mark")
    /\ UNCHANGED <<storeVars, life, queue, item, accepted, verdicts, abandoned,
                   troubled, deliveries, boots>>

Mark(r) ==
    /\ pc[r] = "mark"
    /\ MarkProcessed(item[r])
    /\ Abandon({})
    /\ Count(r, "success")
    /\ Finish(r)
    /\ UNCHANGED <<life, queue, accepted, handed, troubled, deliveries, boots>>

(* A Redis command raises: a failure, and the lock is to be cleared. *)
RedisFails(r) ==
    /\ RedisMayFail
    /\ pc[r] \in {"exists", "setnx", "mark"}
    /\ CommandMayLand(r)
    /\ Abandon({})
    /\ Trouble(item[r])
    /\ Count(r, "failure")
    /\ Goto(r, "clear")
    /\ UNCHANGED <<life, queue, item, accepted, handed, deliveries, boots>>

Clear(r) ==
    /\ pc[r] = "clear"
    /\ ClearProcessing(item[r])
    /\ Abandon({})
    /\ Finish(r)
    /\ UNCHANGED <<life, queue, accepted, verdicts, handed, troubled, deliveries,
                   boots>>

(* DEL raises inside the exception handler: nothing above catches it, so   *)
(* it ends _run and with it the only worker of the process.                *)
ClearFails(r) ==
    /\ RedisMayFail
    /\ pc[r] = "clear"
    /\ CommandMayLand(r)
    /\ Abandon({item[r]})
    /\ Trouble(item[r])
    /\ Goto(r, "failed")
    /\ item' = [item EXCEPT ![r] = Nothing]
    /\ UNCHANGED <<life, queue, accepted, verdicts, handed, deliveries, boots>>

(* _run finds the stop event set and the queue empty. *)
WorkerReturns(r) ==
    /\ pc[r] = "get"
    /\ IsDrained(r)
    /\ Goto(r, "done")
    /\ UNCHANGED <<storeVars, life, queue, item, accepted, verdicts, handed,
                   abandoned, troubled, deliveries, boots>>

-----------------------------------------------------------------------------
(* stop() *)

Stop(r) ==
    /\ life[r] = "running"
    /\ life' = [life EXCEPT ![r] = "stopping"]
    /\ UNCHANGED <<storeVars, queue, pc, item, accepted, verdicts, handed,
                   abandoned, troubled, deliveries, boots>>

(* wait_for() sees the worker finish in time, or late after all. *)
StopReturns(r) ==
    /\ life[r] \in InStop
    /\ pc[r] = "done"
    /\ life' = [life EXCEPT ![r] = "stopped"]
    /\ UNCHANGED <<storeVars, queue, pc, item, accepted, verdicts, handed,
                   abandoned, troubled, deliveries, boots>>

(* wait_for() re-raises the exception that ended the worker. *)
StopRaises(r) ==
    /\ life[r] \in InStop
    /\ pc[r] = "failed"
    /\ life' = [life EXCEPT ![r] = "aborted"]
    /\ UNCHANGED <<storeVars, queue, pc, item, accepted, verdicts, handed,
                   abandoned, troubled, deliveries, boots>>

(* The timeout cancels the worker wherever it waits.  CancelledError is no *)
(* Exception: the lock is not cleared and no status is counted.            *)
StopTimeout(r) ==
    /\ life[r] = "stopping"
    /\ pc[r] \in Handling \cup {"get", "clear"}
    /\ life' = [life EXCEPT ![r] = "stopped"]
    /\ Goto(r, "cancelled")
    /\ item' = [item EXCEPT ![r] = IF pc[r] \in Handling THEN @ ELSE Nothing]
    /\ Interrupt(r)
    /\ UNCHANGED <<queue, accepted, verdicts, troubled, deliveries, boots>>

(* A publish runs on a pool thread, which knows of no cancellation... *)
StopTimeoutOrphans(r) ==
    /\ life[r] = "stopping"
    /\ pc[r] = "publish"
    /\ life' = [life EXCEPT ![r] = "stopped"]
    /\ Goto(r, "orphaned")
    /\ UNCHANGED storeVars
    /\ Abandon({item[r]})
    /\ UNCHANGED <<queue, item, accepted, verdicts, handed, troubled, deliveries,
                   boots>>

(* ... and may hand the message over long after stop() has returned. *)
OrphanLands(r) ==
    /\ pc[r] = "orphaned"
    /\ Hand(item[r])
    /\ Goto(r, "cancelled")
    /\ UNCHANGED <<storeVars, life, queue, item, accepted, verdicts, abandoned,
                   troubled, deliveries, boots>>

(* Python 3.11's wait_for(queue.get()) returns the event, and swallows the *)
(* cancellation, when get() has already finished: the worker goes on, and  *)
(* stop() awaits it with no further limit.                                 *)
StopTimeoutAbsorbed(r) ==
    /\ life[r] = "stopping"
    /\ pc[r] = "get"
    /\ queue[r] # <<>>
    /\ life' = [life EXCEPT ![r] = "overtime"]
    /\ UNCHANGED <<storeVars, queue, pc, item, accepted, verdicts, handed,
                   abandoned, troubled, deliveries, boots>>

-----------------------------------------------------------------------------
(* Time to live *)

ProcessingExpires(e) ==
    /\ KeysMayExpire
    /\ ProcessingKeyExpires(e)
    /\ Abandon({})
    /\ Trouble(e)
    /\ UNCHANGED <<life, queue, pc, item, accepted, verdicts, handed, deliveries,
                   boots>>

ProcessedExpires(e) ==
    /\ KeysMayExpire
    /\ ProcessedKeyExpires(e)
    /\ Trouble(e)
    /\ UNCHANGED <<life, queue, pc, item, accepted, verdicts, handed, abandoned,
                   deliveries, boots>>

-----------------------------------------------------------------------------
WorkerStep(r) ==
    \/ Get(r) \/ SkipInvalid(r)
    \/ SkipProcessed(r) \/ CheckProcessed(r)
    \/ SkipInProgress(r) \/ Acquire(r)
    \/ Publish(r) \/ Mark(r)
    \/ RedisFails(r) \/ Clear(r) \/ ClearFails(r)
    \/ WorkerReturns(r)

StopStep(r) ==
    \/ StopReturns(r) \/ StopRaises(r)
    \/ StopTimeout(r) \/ StopTimeoutOrphans(r) \/ StopTimeoutAbsorbed(r)

Next ==
    \/ \E r \in Replicas :
        \/ Boot(r) \/ Crash(r) \/ Stop(r)
        \/ \E e \in Events \cup {NoId} : Enqueue(r, e)
        \/ EnqueueRefused(r)
        \/ WorkerStep(r)
        \/ StopStep(r)
        \/ OrphanLands(r)
    \/ \E e \in Events : ProcessingExpires(e) \/ ProcessedExpires(e)

(* The loop resumes a task whose await is answered, Redis and the client   *)
(* library answer or raise, and timers fire.  Nobody has to stop or start  *)
(* a replica, deliver an event, or let a key expire.                       *)
Fairness == \A r \in Replicas : WF_vars(WorkerStep(r)) /\ WF_vars(StopStep(r))

Spec == Init /\ [][Next]_vars

FairSpec == Spec /\ Fairness

-----------------------------------------------------------------------------
(* Properties *)

TypeOK ==
    /\ StoreTypeOK
    /\ life \in [Replicas -> Lives]
    /\ queue \in [Replicas -> Seq(Events \cup {NoId})]
    /\ pc \in [Replicas -> PCs]
    /\ item \in [Replicas -> Events \cup {Nothing}]
    /\ accepted \in [Replicas -> Nat]
    /\ verdicts \in [Replicas -> [Verdicts -> Nat]]
    /\ handed \in [Events -> Nat]
    /\ abandoned \subseteq processing
    /\ troubled \subseteq Events
    /\ deliveries \in Nat
    /\ boots \in Nat

(* Every event answered with 200 is on the queue, or in hand and not yet   *)
(* counted, or counted exactly once in stripe_events_processed_total; and  *)
(* the queue never outgrows its bound.  It covers every exit of            *)
(* _process_one, cancellation and the death of the worker included.        *)
Accounting ==
    \A r \in Replicas :
        /\ accepted[r] = Len(queue[r]) + Uncounted(r) + Counted(r)
        /\ QueueSize > 0 => Len(queue[r]) <= QueueSize

(* A processing key belongs to a worker that will still release it, or to  *)
(* one that was cut off or failed to: no other path of _process_one leaves *)
(* a lock behind (which would drop the event's redeliveries until the time *)
(* to live runs out).                                                      *)
LocksAccounted ==
    \A e \in processing \ abandoned :
        \E r \in Replicas : item[r] = e /\ pc[r] \in {"publish", "mark", "clear"}

(* When stop() returns because the worker ended, nothing accepted is left: *)
(* the queue is empty and every event has its status, however late events, *)
(* failures and an absorbed timeout fell.                                  *)
DrainedOnCleanStop ==
    \A r \in Replicas :
        (life[r] = "stopped" /\ pc[r] = "done")
            => queue[r] = <<>> /\ accepted[r] = Counted(r)

(* Two replicas publish or mark the same event at the same time, counting  *)
(* the thread of a cancelled publish, only after Redis raised an error for *)
(* the event, or dropped one of its keys: no DEL of another worker frees a *)
(* lock that is still needed.                                              *)
Exclusive ==
    \A r, s \in Replicas :
        (r # s /\ HasTheEvent(r) /\ HasTheEvent(s) /\ item[r] = item[s])
            => item[r] \in troubled

(* A message never leaves for an event that is recorded as processed:      *)
(* is_duplicate said "already processed" whenever it was.                  *)
NeverRepublishProcessed ==
    [][\A e \in Events : handed'[e] # handed[e] => e \notin processed]_vars

(* A second message leaves for an event only after Redis raised an error   *)
(* for it, or dropped one of its keys: no number of deliveries, deaths,    *)
(* cancellations, late threads or failing publishes is enough.             *)
DuplicatesNeedTrouble == \A e \in Events : handed[e] > 1 => e \in troubled

(* However often an event is delivered, one message leaves at most. *)
AtMostOneMessage == \A e \in Events : handed[e] <= 1

(* An event recorded as processed was handed to the Solace client. *)
ProcessedWasHanded == \A e \in processed : handed[e] > 0

(* The worker does not end while the process still accepts events. *)
WorkerRunsUntilStopped ==
    \A r \in Replicas : life[r] = "running" => pc[r] # "failed"

(* stop() ends, also when the worker absorbed its cancellation. *)
StopEnds ==
    \A r \in Replicas :
        life[r] \in InStop ~> life[r] \in {"stopped", "aborted", "down"}

(* While the process runs and its worker lives, each accepted event gets   *)
(* its status in the end: the worker is never stuck behind another event,  *)
(* whatever fails on the way.                                              *)
EveryEventSettles ==
    \A r \in Replicas :
        life[r] = "running"
            ~> \/ accepted[r] = Counted(r)
               \/ life[r] # "running" \/ pc[r] = "failed"

=============================================================================
