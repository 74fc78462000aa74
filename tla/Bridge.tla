------------------------------- MODULE Bridge -------------------------------
(***************************************************************************)
(* One process of the bridge, all of it: the lifespan (app/lifespan.py),   *)
(* the webhook (app/api/webhook.py), the processor of AsyncProcessor and   *)
(* the publisher of SolacePublisher, which the processor calls and whose   *)
(* promise it takes for granted.                                           *)
(*                                                                         *)
(* The two share the event loop, the message counts, and one setting:      *)
(* async_queue_size bounds the processor's queue and the library's buffer. *)
(* The worker's "publish" await is a whole call of the publisher, with its *)
(* thread, its retries and the link's outages; cancelling the worker       *)
(* cancels the call, and leaves the thread to run.                         *)
(***************************************************************************)
EXTENDS AsyncProcessor, SequencesExt

CONSTANTS
    Self,               \* the only replica
    MaxPublishRetries,  \* settings.max_publish_retries
    MaxDrops,           \* bound: times the link drops
    MaxForged           \* bound: posts whose signature does not verify

ASSUME BridgeAssumption ==
    /\ Replicas = {Self}
    /\ QueueSize > 0
    /\ PublishMayFail
    /\ MaxPublishRetries \in Int
    /\ MaxDrops \in Nat
    /\ MaxForged \in Nat

VARIABLES
    phase,              \* where the lifespan is: SolacePublisher's life
    fields, gauge, await, event, attempt, thread, published, failures,
    session, open, buffer, broker, dropped, calls, drops,
                        \* as in SolacePublisher
    received,           \* stripe_webhooks_received_total = ..verified_total
    invalid,            \* stripe_webhooks_invalid_signature_total
    lost                \* history: events of calls that ended without a message

libVars == <<session, open, buffer, broker, dropped>>
callVars == <<fields, gauge, await, event, attempt, thread, published, failures, calls>>
publisherVars == <<phase, callVars, libVars, drops>>
webhookVars == <<received, invalid>>
bridgeVars == <<vars, publisherVars, webhookVars, lost>>

(* AsyncProcessor's variables, but for those of the worker's own step. *)
processorVars == <<storeVars, life, queue, pc, item, accepted, verdicts, abandoned,
                   troubled, deliveries, boots>>

S == INSTANCE SolacePublisher WITH
        life <- phase, Capacity <- QueueSize, MaxCalls <- MaxDeliveries

BridgeInit ==
    /\ Init
    /\ phase = "startup"
    /\ S!Init
    /\ received = 0
    /\ invalid = 0
    /\ lost = {}

-----------------------------------------------------------------------------
(* The lifespan *)

(* Redis answers the ping, Solace connects, the worker starts. *)
Starts ==
    /\ S!StartupConnects
    /\ Boot(Self)
    /\ received' = 0
    /\ invalid' = 0
    /\ UNCHANGED lost

StartFails ==
    /\ S!StartupFails
    /\ UNCHANGED <<processorVars, webhookVars, lost>>

(* The memory of the process is gone, and what the library still held. *)
ForgetPublisher ==
    /\ fields' = FALSE
    /\ gauge' = 0
    /\ await' = "idle"
    /\ event' = Nothing
    /\ attempt' = 0
    /\ thread' = "none"
    /\ published' = [s \in S!Statuses |-> 0]
    /\ failures' = 0
    /\ session' = "none"
    /\ open' = FALSE
    /\ dropped' = dropped \o buffer
    /\ buffer' = <<>>
    /\ calls' = 0
    /\ UNCHANGED <<broker, drops>>

(* The process ends, which waits for the threads of the pool, and the next *)
(* one begins.                                                             *)
Restarts ==
    /\ phase \in {"ended", "failed"}
    /\ thread \notin {"running", "inlibrary"}
    /\ phase' = "startup"
    /\ ForgetPublisher
    /\ UNCHANGED <<processorVars, handed, webhookVars, lost>>

Dies ==
    /\ Crash(Self)
    /\ UNCHANGED handed
    /\ phase' = "failed"
    /\ ForgetPublisher
    /\ UNCHANGED <<webhookVars, lost>>

(* finally: await stop() *)
StopMoves ==
    /\ Stop(Self) \/ StopReturns(Self) \/ StopRaises(Self) \/ StopTimeoutAbsorbed(Self)
    /\ UNCHANGED <<publisherVars, webhookVars, lost>>

StopCancels ==
    /\ pc[Self] # "publish"
    /\ StopTimeout(Self)
    /\ UNCHANGED <<publisherVars, webhookVars, lost>>

(* A thread still at it is left behind; a message it has handed over stays *)
(* handed over.                                                            *)
StopCancelsCall ==
    /\ IF thread \in {"running", "inlibrary"}
       THEN StopTimeoutOrphans(Self)
       ELSE pc[Self] = "publish" /\ StopTimeout(Self)
    /\ S!CallCancelled
    /\ UNCHANGED <<webhookVars, lost>>

(* await disconnect(), unless stop() has raised. *)
WrongDisconnects ==             \* seeded fault: stop() raises when it times out
    /\ \/ life[Self] = "stopped" /\ pc[Self] = "done" /\ S!Disconnect
       \/ life[Self] = "aborted" /\ S!DisconnectSkipped
       \/ pc[Self] \in {"cancelled", "orphaned"} /\ S!DisconnectSkipped
       \/ S!DisconnectStep
    /\ UNCHANGED <<processorVars, webhookVars, lost>>

Disconnects ==
    /\ \/ life[Self] = "stopped" /\ S!Disconnect
       \/ life[Self] = "aborted" /\ S!DisconnectSkipped
       \/ S!DisconnectStep
    /\ UNCHANGED <<processorVars, webhookVars, lost>>

-----------------------------------------------------------------------------
(* The webhook *)

(* 200, or 429 on a full queue: both are counted as received and verified. *)
Posted(e) ==
    /\ Enqueue(Self, e) \/ (e = NoId /\ EnqueueRefused(Self))
    /\ received' = received + 1
    /\ UNCHANGED <<publisherVars, invalid, lost>>

(* 400: the signature header is missing, or construct_event raises. *)
PostRejected ==
    /\ life[Self] = "running"
    /\ invalid < MaxForged
    /\ invalid' = invalid + 1
    /\ UNCHANGED <<vars, publisherVars, received, lost>>

-----------------------------------------------------------------------------
(* The worker *)

(* Every step but the call of publish(), and its end. *)
WorkerMoves ==
    /\ pc[Self] # "publish"
    /\ WorkerStep(Self)
    /\ pc'[Self] # "publish"
    /\ UNCHANGED <<publisherVars, webhookVars, lost>>

CallsPublish ==
    /\ Acquire(Self)
    /\ pc'[Self] = "publish"
    /\ S!Publish(item[Self])
    /\ UNCHANGED <<webhookVars, lost>>

(* publish() returns, and never says whether it handed the message over. *)
PublishReturns ==
    /\ \/ S!PublishSucceeds /\ UNCHANGED lost
       \/ /\ S!PublishGivesUp \/ S!PublishCannotConnect
          /\ lost' = lost \cup {event}
    /\ Goto(Self, "mark")
    /\ UNCHANGED <<storeVars, life, queue, item, accepted, verdicts, abandoned,
                   troubled, deliveries, boots, webhookVars>>

-----------------------------------------------------------------------------
(* The publisher, its thread and the library *)

PublishMoves ==
    /\ S!PublishConnects \/ S!PublishRetries \/ S!BackoffEnds
    /\ UNCHANGED <<processorVars, webhookVars, lost>>

ThreadMoves ==
    /\ S!ThreadEntersLibrary \/ S!ThreadRaises \/ S!LibraryRaises
    /\ UNCHANGED <<processorVars, webhookVars, lost>>

(* The message is handed over, for a call that awaits it or for nobody. *)
ThreadHands ==
    /\ S!LibraryAccepts
    /\ IF await = "cancelled" THEN Goto(Self, "cancelled") ELSE UNCHANGED pc
    /\ UNCHANGED <<storeVars, life, queue, item, accepted, verdicts, abandoned,
                   troubled, deliveries, boots, webhookVars, lost>>

BrokerMoves ==
    /\ S!BrokerStep
    /\ UNCHANGED <<processorVars, webhookVars, lost>>

LinkDrops ==
    /\ S!LinkDrops
    /\ UNCHANGED <<processorVars, webhookVars, lost>>

LinkMoves ==
    /\ S!LinkStep
    /\ UNCHANGED <<processorVars, webhookVars, lost>>

-----------------------------------------------------------------------------
WorkerSteps == WorkerMoves \/ CallsPublish
StopSteps == (life[Self] # "running" /\ StopMoves) \/ StopCancels \/ StopCancelsCall
PublishSteps == PublishMoves \/ PublishReturns
ThreadSteps == ThreadMoves \/ ThreadHands

BridgeNext ==
    \/ Starts \/ StartFails \/ Restarts \/ Dies
    \/ StopMoves \/ StopCancels \/ StopCancelsCall \/ Disconnects
    \/ \E e \in Events \cup {NoId} : Posted(e)
    \/ PostRejected
    \/ WorkerSteps \/ PublishSteps \/ ThreadSteps
    \/ BrokerMoves \/ LinkDrops \/ LinkMoves

(* As for the parts: tasks are resumed, threads run, Redis and the library *)
(* answer, timers fire and an outage ends.  Nobody has to post, to stop or *)
(* to start the process.                                                   *)
BridgeFairness ==
    /\ WF_bridgeVars(WorkerSteps) /\ WF_bridgeVars(PublishSteps)
    /\ WF_bridgeVars(ThreadSteps) /\ WF_bridgeVars(BrokerMoves)
    /\ WF_bridgeVars(LinkMoves) /\ WF_bridgeVars(StopSteps)
    /\ WF_bridgeVars(Disconnects)

BridgeSpec == BridgeInit /\ [][BridgeNext]_bridgeVars /\ BridgeFairness

-----------------------------------------------------------------------------
(* Properties *)

BridgeTypeOK ==
    /\ TypeOK
    /\ S!TypeOK
    /\ received \in Nat
    /\ invalid \in Nat
    /\ lost \subseteq Events

(* What the processor sees of a call: its message counts when it returns,  *)
(* or when the call is cut off.                                            *)
Settled ==
    [e \in Events |->
        IF pc[Self] = "publish" /\ thread = "ok" /\ event = e
        THEN handed[e] - 1 ELSE handed[e]]

Processor == INSTANCE AsyncProcessor WITH handed <- Settled

(* The processor with the real publisher and the real lifespan around it   *)
(* does only what AsyncProcessor lets it do with an abstract publish(): so *)
(* its theorems hold of the whole bridge.                                  *)
ImplementsProcessor == Processor!Spec

(* An event recorded as processed has its message at the broker, or in the *)
(* library, or was dropped by it (refused, given up, cut short), or counts *)
(* as a failure of the publisher.  After a completed disconnect() nothing  *)
(* is in the library any more.                                             *)
RecordedIsAccountedFor ==
    processed \subseteq
        ToSet(broker) \cup ToSet(dropped) \cup lost
            \cup (IF session = "closed" THEN {} ELSE ToSet(buffer))

(* The counters of the three parts reconcile: no more events are accepted  *)
(* than posts were verified; each success had a call that returned; and    *)
(* each call that returned has a success, or a failure, or its event is    *)
(* still in hand.                                                          *)
MetricsReconcile ==
    LET returned == published["success"] + published["failure"] + published["error"]
    IN  phase \in {"serving", "terminating", "disconnecting", "ended"} =>
            /\ accepted[Self] <= received
            /\ verdicts[Self]["success"] <= returned
            /\ returned <= verdicts[Self]["success"] + verdicts[Self]["failure"]
                             + Uncounted(Self)

(* Nothing is handed to the library once the lifespan has ended, whichever *)
(* way it ended and whatever thread of a cancelled call is still about.    *)
(* After a disconnect() that came to its end nothing reaches the broker    *)
(* any more either, and no session comes up; one that raised or was        *)
(* skipped leaves the library connected, to go on by itself.               *)
NothingHandedAfterShutdown ==
    [][phase = "ended" =>
          /\ handed' = handed
          /\ session = "closed" => broker' = broker /\ session' # "up"]_bridgeVars

(* The lifespan leaves messages in the library only when stop() has raised *)
(* because the worker had died, which skips disconnect(): a stop() that    *)
(* timed out, a cancelled call and a terminate() that raised do not.       *)
UnflushedNeedsDeath ==
    phase = "ended" /\ buffer # <<>> => life[Self] = "aborted" /\ pc[Self] = "failed"

(* A shutdown ends, whatever the link, the library and the worker are at. *)
ShutdownEnds ==
    life[Self] \in InStop ~> phase \in {"ended", "failed", "startup"}

=============================================================================
