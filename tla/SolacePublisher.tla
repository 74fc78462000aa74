-------------------------- MODULE SolacePublisher --------------------------
(***************************************************************************)
(* app/services/solace_publisher.py in one process: connect, publish with  *)
(* its retries, and disconnect, over the Solace client library.            *)
(*                                                                         *)
(* Three things run at once.  The lifespan connects, serves and, at the    *)
(* end, disconnects.  The worker calls publish, one call after another, and *)
(* may be cancelled in the middle of one.  The blocking publish of the     *)
(* library runs on a thread of the pool, which a cancellation does not     *)
(* stop.                                                                   *)
(*                                                                         *)
(* The library is external.  It buffers Capacity messages, makes a publish *)
(* wait while the buffer is full, sends the buffer in order while the link *)
(* is up, reconnects on its own for a limited number of attempts, and      *)
(* flushes the buffer when the publisher is terminated.                    *)
(***************************************************************************)
EXTENDS Integers, Sequences

CONSTANTS
    Events,
    Nothing,            \* no event
    MaxPublishRetries,  \* settings.max_publish_retries
    Capacity,           \* messages the library buffers: on_back_pressure_wait
    MaxCalls,           \* bound: publish calls
    MaxDrops            \* bound: times the link drops

ASSUME PublisherAssumption ==
    /\ Nothing \notin Events
    /\ MaxPublishRetries \in Int
    /\ Capacity \in Nat \ {0}
    /\ MaxCalls \in Nat
    /\ MaxDrops \in Nat

VARIABLES
    life,               \* where the lifespan is
    fields,             \* are _messaging_service and _publisher set?
    gauge,              \* solace_connection_status
    await,              \* what the call to publish() awaits
    event,              \* the event of the call
    attempt,            \* the loop variable of publish()
    thread,             \* the pool thread that runs _publish_blocking
    published,          \* solace_publish_attempts_total, by status
    failures,           \* solace_publish_failures_total
    session,            \* the library's connection to the broker
    open,               \* does the library's publisher accept messages?
    buffer,             \* messages accepted by the library, not yet sent
    broker,             \* messages the broker has acknowledged, in order
    dropped,            \* messages the library accepted and then lost
    handed,             \* messages the library accepted, by event
    calls, drops        \* counters up to MaxCalls and MaxDrops

codeVars == <<life, fields, gauge, await, event, attempt, thread, published, failures>>
libVars == <<session, open, buffer, broker, dropped, handed>>
vars == <<life, fields, gauge, await, event, attempt, thread, published, failures,
          session, open, buffer, broker, dropped, handed, calls, drops>>

-----------------------------------------------------------------------------
Lives == {"startup", "serving", "terminating", "disconnecting", "ended", "failed"}
Awaits == {"idle", "connect", "thread", "backoff", "cancelled"}
Threads == {"none", "running", "inlibrary", "ok", "raised"}
Statuses == {"success", "retry", "failure", "error"}

(* "reconnecting": the link is lost and the library retries.  "gone": it   *)
(* has given up for good.                                                  *)
Sessions == {"none", "up", "reconnecting", "gone", "closed"}

(* attempts = max(1, max_publish_retries) *)
Attempts == IF MaxPublishRetries > 1 THEN MaxPublishRetries ELSE 1

(* The is_connected property. *)
IsConnected == fields /\ session = "up"

(* The lifespan connects before it serves; a user who does not, as in the  *)
(* tests, leaves it to the first publish.                                  *)
Init ==
    /\ life \in {"startup", "serving"}
    /\ fields = FALSE
    /\ gauge = 0
    /\ await = "idle"
    /\ event = Nothing
    /\ attempt = 0
    /\ thread = "none"
    /\ published = [s \in Statuses |-> 0]
    /\ failures = 0
    /\ session = "none"
    /\ open = FALSE
    /\ buffer = <<>>
    /\ broker = <<>>
    /\ dropped = <<>>
    /\ handed = [e \in Events |-> 0]
    /\ calls = 0
    /\ drops = 0

-----------------------------------------------------------------------------
(* connect() *)

(* What connect() assigns once the service and the publisher are built and *)
(* started, in one step of the loop.                                       *)
Connected ==
    /\ session' = "up"
    /\ open' = TRUE
    /\ fields' = TRUE
    /\ gauge' = 1

(* In the lifespan: nothing else runs before startup has ended. *)
StartupConnects ==
    /\ life = "startup"
    /\ Connected
    /\ life' = "serving"
    /\ UNCHANGED <<await, event, attempt, thread, published, failures, buffer, broker,
                   dropped, handed, calls, drops>>

StartupFails ==
    /\ life = "startup"
    /\ life' = "failed"
    /\ UNCHANGED <<fields, gauge, await, event, attempt, thread, published, failures,
                   libVars, calls, drops>>

-----------------------------------------------------------------------------
(* publish() *)

CountStatus(s) == published' = [published EXCEPT ![s] = @ + 1]

(* The loop hands an attempt to the thread pool and awaits it. *)
StartAttempt(n) ==
    /\ attempt' = n
    /\ thread' = "running"
    /\ await' = "thread"

Return ==
    /\ await' = "idle"
    /\ event' = Nothing
    /\ attempt' = 0
    /\ thread' = "none"

(* _handle_publish_exception: the test that ends the retries. *)
WrongLastAttempt == attempt > Attempts      \* seeded fault: one retry too many

LastAttempt == attempt >= Attempts

(* The fields are tested, never is_connected: only a publisher that was    *)
(* never connected is connected here.                                      *)
Publish(e) ==
    /\ life = "serving" /\ await = "idle" /\ calls < MaxCalls
    /\ calls' = calls + 1
    /\ event' = e
    /\ \/ fields /\ StartAttempt(1)
       \/ ~fields /\ await' = "connect" /\ UNCHANGED <<attempt, thread>>
    /\ UNCHANGED <<life, fields, gauge, published, failures, libVars, drops>>

PublishConnects ==
    /\ await = "connect"
    /\ Connected
    /\ StartAttempt(1)
    /\ UNCHANGED <<life, event, published, failures, buffer, broker, dropped, handed,
                   calls, drops>>

WrongPublishCannotConnect ==    \* seeded fault: the failure is not counted
    /\ await = "connect"
    /\ CountStatus("error")
    /\ Return
    /\ UNCHANGED <<life, fields, gauge, failures, libVars, calls, drops>>

PublishCannotConnect ==
    /\ await = "connect"
    /\ CountStatus("error")
    /\ failures' = failures + 1
    /\ Return
    /\ UNCHANGED <<life, fields, gauge, libVars, calls, drops>>

(* to_thread() delivers the end of _publish_blocking to the loop. *)
PublishSucceeds ==
    /\ await = "thread" /\ thread = "ok"
    /\ CountStatus("success")
    /\ Return
    /\ UNCHANGED <<life, fields, gauge, failures, libVars, calls, drops>>

WrongPublishRetries ==          \* seeded fault: an attempt that is not over is retried
    /\ await = "thread"
    /\ ~LastAttempt
    /\ CountStatus("retry")
    /\ await' = "backoff"
    /\ thread' = "none"
    /\ UNCHANGED <<life, fields, gauge, event, attempt, failures, libVars, calls, drops>>

PublishRetries ==
    /\ await = "thread" /\ thread = "raised"
    /\ ~LastAttempt
    /\ CountStatus("retry")
    /\ await' = "backoff"
    /\ thread' = "none"
    /\ UNCHANGED <<life, fields, gauge, event, attempt, failures, libVars, calls, drops>>

WrongBackoffEnds ==             \* seeded fault: off by one, the last attempt never starts
    /\ await = "backoff"
    /\ attempt + 1 < Attempts
    /\ StartAttempt(attempt + 1)
    /\ UNCHANGED <<life, fields, gauge, event, published, failures, libVars, calls, drops>>

BackoffEnds ==
    /\ await = "backoff"
    /\ StartAttempt(attempt + 1)
    /\ UNCHANGED <<life, fields, gauge, event, published, failures, libVars, calls, drops>>

WrongPublishGivesUp ==          \* seeded fault: a lost message counts as a success
    /\ await = "thread" /\ thread = "raised"
    /\ LastAttempt
    /\ CountStatus("success")
    /\ Return
    /\ UNCHANGED <<life, fields, gauge, failures, libVars, calls, drops>>

(* The last attempt has failed: the loop ends and publish() returns. *)
PublishGivesUp ==
    /\ await = "thread" /\ thread = "raised"
    /\ LastAttempt
    /\ CountStatus("failure")
    /\ failures' = failures + 1
    /\ Return
    /\ UNCHANGED <<life, fields, gauge, libVars, calls, drops>>

(* stop() cancels the worker in the middle of a call; the thread runs on. *)
CallCancelled ==
    /\ life = "serving"
    /\ await \in {"connect", "thread", "backoff"}
    /\ await' = "cancelled"
    /\ UNCHANGED <<life, fields, gauge, event, attempt, thread, published, failures,
                   libVars, calls, drops>>

-----------------------------------------------------------------------------
(* _publish_blocking, on its thread *)

(* The fields are set: the message is built and given to the library. *)
ThreadEntersLibrary ==
    /\ thread = "running"
    /\ fields
    /\ thread' = "inlibrary"
    /\ UNCHANGED <<life, fields, gauge, await, event, attempt, published, failures,
                   libVars, calls, drops>>

(* Not initialised any more, or a payload that cannot be made a message. *)
ThreadRaises ==
    /\ thread = "running"
    /\ thread' = "raised"
    /\ UNCHANGED <<life, fields, gauge, await, event, attempt, published, failures,
                   libVars, calls, drops>>

(* The library takes the message, link or no link, as soon as it has room. *)
LibraryAccepts ==
    /\ thread = "inlibrary"
    /\ open
    /\ Len(buffer) < Capacity
    /\ buffer' = Append(buffer, event)
    /\ handed' = [handed EXCEPT ![event] = @ + 1]
    /\ thread' = "ok"
    /\ UNCHANGED <<life, fields, gauge, await, event, attempt, published, failures,
                   session, open, broker, dropped, calls, drops>>

(* The publisher is terminated, or the message is refused on the spot. *)
LibraryRaises ==
    /\ thread = "inlibrary"
    /\ ~open \/ Len(buffer) < Capacity
    /\ thread' = "raised"
    /\ UNCHANGED <<life, fields, gauge, await, event, attempt, published, failures,
                   libVars, calls, drops>>

-----------------------------------------------------------------------------
(* disconnect() *)

(* The worker has ended, or has been cancelled.  Without a publisher there *)
(* is nothing to await.                                                    *)
Disconnect ==
    /\ life = "serving"
    /\ await \in {"idle", "cancelled"}
    /\ \/ fields /\ life' = "terminating" /\ UNCHANGED gauge
       \/ ~fields /\ life' = "ended" /\ gauge' = 0
    /\ UNCHANGED <<fields, await, event, attempt, thread, published, failures, libVars,
                   calls, drops>>

(* stop() has raised: the lifespan ends without disconnect(). *)
DisconnectSkipped ==
    /\ life = "serving" /\ await \in {"idle", "cancelled"}
    /\ life' = "ended"
    /\ UNCHANGED <<fields, gauge, await, event, attempt, thread, published, failures,
                   libVars, calls, drops>>

(* terminate() closes the publisher, then waits for the buffer to empty. *)
TerminateCloses ==
    /\ life = "terminating" /\ open
    /\ open' = FALSE
    /\ UNCHANGED <<codeVars, session, buffer, broker, dropped, handed, calls, drops>>

WrongTerminated ==              \* seeded fault: terminate() is not awaited
    /\ life = "terminating"
    /\ life' = "disconnecting"
    /\ UNCHANGED <<fields, gauge, await, event, attempt, thread, published, failures,
                   libVars, calls, drops>>

Terminated ==
    /\ life = "terminating" /\ ~open
    /\ buffer = <<>>
    /\ life' = "disconnecting"
    /\ UNCHANGED <<fields, gauge, await, event, attempt, thread, published, failures,
                   libVars, calls, drops>>

(* The library's grace period is over: terminate() raises, and with it     *)
(* disconnect(), before the service is disconnected and the fields reset.  *)
TerminateRaises ==
    /\ life = "terminating" /\ ~open
    /\ buffer # <<>>
    /\ life' = "ended"
    /\ dropped' = dropped \o buffer
    /\ buffer' = <<>>
    /\ UNCHANGED <<fields, gauge, await, event, attempt, thread, published, failures,
                   session, open, broker, handed, calls, drops>>

Disconnected ==
    /\ life = "disconnecting"
    /\ session' = "closed"
    /\ fields' = FALSE
    /\ gauge' = 0
    /\ life' = "ended"
    /\ UNCHANGED <<await, event, attempt, thread, published, failures, open, buffer,
                   broker, dropped, handed, calls, drops>>

-----------------------------------------------------------------------------
(* The library and the broker *)

Acknowledged ==
    /\ session = "up" /\ buffer # <<>>
    /\ broker' = Append(broker, Head(buffer))
    /\ buffer' = Tail(buffer)
    /\ UNCHANGED <<codeVars, session, open, dropped, handed, calls, drops>>

(* The broker refuses the message: the receipt says so, to the log only. *)
Refused ==
    /\ session = "up" /\ buffer # <<>>
    /\ dropped' = Append(dropped, Head(buffer))
    /\ buffer' = Tail(buffer)
    /\ UNCHANGED <<codeVars, session, open, broker, handed, calls, drops>>

LinkDrops ==
    /\ session = "up" /\ drops < MaxDrops
    /\ session' = "reconnecting"
    /\ drops' = drops + 1
    /\ UNCHANGED <<codeVars, open, buffer, broker, dropped, handed, calls>>

LinkReturns ==
    /\ session = "reconnecting"
    /\ session' = "up"
    /\ UNCHANGED <<codeVars, open, buffer, broker, dropped, handed, calls, drops>>

(* 300 reconnection attempts, one second apart, have failed. *)
LinkGivesUp ==
    /\ session = "reconnecting"
    /\ session' = "gone"
    /\ open' = FALSE
    /\ dropped' = dropped \o buffer
    /\ buffer' = <<>>
    /\ UNCHANGED <<codeVars, broker, handed, calls, drops>>

-----------------------------------------------------------------------------
PublishStep ==
    \/ PublishConnects \/ PublishCannotConnect
    \/ PublishSucceeds \/ PublishRetries \/ BackoffEnds \/ PublishGivesUp

ThreadStep ==
    \/ ThreadEntersLibrary \/ ThreadRaises
    \/ LibraryAccepts \/ LibraryRaises

BrokerStep == Acknowledged \/ Refused

DisconnectStep == TerminateCloses \/ Terminated \/ TerminateRaises \/ Disconnected

LinkStep == LinkReturns \/ LinkGivesUp

Next ==
    \/ StartupConnects \/ StartupFails
    \/ \E e \in Events : Publish(e)
    \/ PublishStep \/ CallCancelled \/ ThreadStep
    \/ Disconnect \/ DisconnectSkipped \/ DisconnectStep
    \/ BrokerStep \/ LinkDrops \/ LinkStep

(* The loop resumes the call, pool threads run, the library sends what the *)
(* link lets through and settles an outage one way or the other, and its   *)
(* grace period ends.  Nobody has to publish, cancel, stop or drop a link. *)
Fairness ==
    /\ WF_vars(PublishStep) /\ WF_vars(ThreadStep)
    /\ WF_vars(BrokerStep) /\ WF_vars(LinkStep) /\ WF_vars(DisconnectStep)

Spec == Init /\ [][Next]_vars

FairSpec == Spec /\ Fairness

-----------------------------------------------------------------------------
(* Properties *)

TypeOK ==
    /\ life \in Lives
    /\ fields \in BOOLEAN
    /\ gauge \in {0, 1}
    /\ await \in Awaits
    /\ event \in Events \cup {Nothing}
    /\ attempt \in 0..Attempts
    /\ thread \in Threads
    /\ published \in [Statuses -> Nat]
    /\ failures \in Nat
    /\ session \in Sessions
    /\ open \in BOOLEAN
    /\ buffer \in Seq(Events) /\ Len(buffer) <= Capacity
    /\ broker \in Seq(Events)
    /\ dropped \in Seq(Events)
    /\ handed \in [Events -> Nat]
    /\ calls \in Nat
    /\ drops \in Nat

(* Each call ends in exactly one of success, failure and error, and the    *)
(* failures counter agrees with the statuses; a call in progress, or cut   *)
(* off, has counted nothing but its retries, of which there are fewer than *)
(* attempts.                                                               *)
CallsAreCounted ==
    /\ calls = published["success"] + published["failure"] + published["error"]
                 + (IF await = "idle" THEN 0 ELSE 1)
    /\ failures = published["failure"] + published["error"]
    /\ published["retry"] <= (Attempts - 1) * calls

(* A disconnect() that comes to its end leaves no message in the library,  *)
(* the thread of a cancelled call notwithstanding.                         *)
DisconnectFlushes == session = "closed" => buffer = <<>> /\ ~open

(* The publisher keeps its promise to the processor: at most one message   *)
(* per call, success reported exactly for a message handed over, nothing   *)
(* left behind by a call that returned.                                    *)
Contract ==
    INSTANCE PublishContract WITH
        stage <- IF await = "idle" THEN "idle"
                 ELSE IF thread = "ok" THEN "handed" ELSE "working",
        cancelled <- await = "cancelled",
        successes <- published["success"],
        losses <- published["failure"] + published["error"]

KeepsContract == Contract!Spec

(* A call returns, also when it has to wait for room during an outage and  *)
(* when every attempt fails, unless its task is cancelled.                 *)
CallsReturn ==
    await \in {"connect", "thread", "backoff"} ~> await \in {"idle", "cancelled"}

=============================================================================
