--------------------------- MODULE ValidatePipeline ---------------------------
(***************************************************************************)
(* scripts/validate_pipeline.py: one run of the script against a bridge, a *)
(* broker that others are provisioning, and queues others may fill.        *)
(*                                                                         *)
(* The script may first provision the broker, in a run of                  *)
(* provision_solace.py of its own.  Then it posts one signed event per     *)
(* check and takes one message from the queue of the check, whichever      *)
(* message that is.  The queues are durable and the script does not drain  *)
(* them: messages of earlier tests, validations and of Stripe's traffic    *)
(* may be waiting there, and scripts/send_demo_events_loop.py may be       *)
(* posting to the same bridge at the same time.                            *)
(*                                                                         *)
(* The bridge is Bridge's, seen from outside: it answers a post, and later *)
(* publishes the event or loses it.  The subscriber is SolaceSubscriber's, *)
(* alone on its queue.                                                     *)
(***************************************************************************)
EXTENDS Provisioning, EventRouter, SequencesExt

CONSTANTS
    Own,                \* the provisioning run the script starts itself
    AccountId,          \* --account-id
    Types,              \* event types of others: --event-type, earlier tests
    Count,              \* --count of the demo sender: without limit when <= 0
    MaxSent,            \* bound: events the demo sender posts
    MaxLeft             \* bound: messages left on each queue by earlier runs

ASSUME ValidateAssumption ==
    /\ Own \in Runs \ Jobs
    /\ \A type \in Types : type \in Seq(STRING) /\ type # << >>
    /\ Count \in Int
    /\ MaxSent \in Nat
    /\ MaxLeft \in Nat

VARIABLES
    at,                 \* the await of _run_validation
    check,              \* the check it is at
    passed,             \* checks passed so far
    status,             \* its exit status
    ahead,              \* history: the message each check found on its queue
    taken,              \* history: the message each check has taken
    queue,              \* the messages on each queue, oldest first
    transit,            \* events the bridge has accepted and not yet published
    sent                \* events the demo sender has posted

scriptVars == <<at, check, passed, status, ahead, taken>>
provisioningVars == vars
brokerVars == <<objects, phase, step, failures, refused>>
validateVars == <<provisioningVars, scriptVars, queue, transit, sent>>

-----------------------------------------------------------------------------
Check(type, queueName) == [type |-> type, queue |-> queueName]

Checks ==
    << Check(<<"payment_intent", "succeeded">>, "stripe.payments.inbound"),
       Check(<<"customer", "subscription", "created">>, "stripe.subscriptions.inbound"),
       Check(<<"invoice", "payment_failed">>, "stripe.invoices.inbound"),
       Check(<<"customer", "created">>, "stripe.customers.inbound"),
       Check(<<"checkout", "session", "completed">>, "stripe.all.inbound") >>

(* A message is known by who caused it, and by the type of its event.  One *)
(* that did not come from a bridge need not be an envelope.                *)
Message(from, type) == [from |-> from, type |-> type]

EventOf(i) == Message("check", Checks[i].type)

NoMessage == Message("nobody", << >>)

OwnMessages == {EventOf(i) : i \in DOMAIN Checks}
LeftOvers == {Message(from, type) : from \in {"earlier", "foreign"}, type \in Types}
Messages == OwnMessages \cup {Message("sender", type) : type \in Types} \cup LeftOvers

IsEnvelope(m) == m.from # "foreign"

(* The queues a message of this type goes to: the subscriptions that match. *)
Reached(type) ==
    {o.of : o \in {s \in objects : s.kind = "subscription"
                                    /\ Matches(s.topic, GetTopic(type, AccountId))}}

None == -1

Ats == {"new", "provision", "connect", "post", "consume", "close", "exited"}

ValidateInit ==
    /\ Init
    /\ at = "new"
    /\ check = 1
    /\ passed = 0
    /\ status = None
    /\ ahead = [i \in DOMAIN Checks |-> NoMessage]
    /\ taken = [i \in DOMAIN Checks |-> NoMessage]
    /\ queue \in [QueueNames -> BoundedSeq(LeftOvers, MaxLeft)]
    /\ \A q \in QueueNames : \A m \in ToSet(queue[q]) : q \in Reached(m.type)
    /\ transit = << >>
    /\ sent = 0

-----------------------------------------------------------------------------
(* The validation script *)

Exit(code) ==
    /\ at' = "exited"
    /\ status' = code

(* "continue", or the end of the loop *)
NextCheck ==
    IF check < Len(Checks)
    THEN /\ at' = "post"
         /\ check' = check + 1
    ELSE /\ at' = "close"
         /\ UNCHANGED check

(* /health, /ready and /metrics are asked; whatever they answer, it goes   *)
(* on, with or without the options that make it provision the broker.      *)
Begins ==
    /\ at = "new"
    /\ \/ Launch(Own) /\ at' = "provision"
       \/ UNCHANGED provisioningVars /\ at' = "connect"
    /\ UNCHANGED <<check, passed, status, ahead, taken, queue, transit, sent>>

(* subprocess.run(..., check=True) *)
OwnRunEnds ==
    /\ at = "provision"
    /\ \/ phase[Own] = "succeeded" /\ at' = "connect" /\ UNCHANGED status
       \/ phase[Own] = "failed" /\ Exit(1)
    /\ UNCHANGED <<provisioningVars, check, passed, ahead, taken, queue, transit,
                   sent>>

Connects ==
    /\ at = "connect"
    /\ at' = "post"
    /\ UNCHANGED <<provisioningVars, check, passed, status, ahead, taken, queue,
                   transit, sent>>

(* 200: the bridge has the event.  The queue is what it is. *)
PostAccepted ==
    LET q == Checks[check].queue IN
    /\ at = "post"
    /\ transit' = Append(transit, EventOf(check))
    /\ ahead' = [ahead EXCEPT ![check] = IF queue[q] = << >> THEN NoMessage
                                          ELSE Head(queue[q])]
    /\ at' = "consume"
    /\ UNCHANGED <<provisioningVars, check, passed, status, taken, queue, sent>>

(* 429, or any other status: this check fails. *)
PostNotAccepted ==
    /\ at = "post"
    /\ Fault
    /\ NextCheck
    /\ UNCHANGED <<brokerVars, passed, status, ahead, taken, queue, transit, sent>>

(* consume_one returns the oldest message of the queue, acknowledged.  The *)
(* check looks for the keys of an envelope, never at the event they name;  *)
(* when one is missing the message is gone, and this check fails.          *)
Takes ==
    LET q == Checks[check].queue IN
    /\ at = "consume"
    /\ queue[q] # << >>
    /\ queue' = [queue EXCEPT ![q] = Tail(@)]
    /\ taken' = [taken EXCEPT ![check] = Head(queue[q])]
    /\ passed' = IF IsEnvelope(Head(queue[q])) THEN passed + 1 ELSE passed
    /\ NextCheck
    /\ UNCHANGED <<provisioningVars, status, ahead, transit, sent>>

(* consume_one returns None: this check fails. *)
NoneComes ==
    /\ at = "consume"
    /\ Queue(Checks[check].queue) \in objects
    /\ queue[Checks[check].queue] = << >>
    /\ IF transit = << >> THEN UNCHANGED faults ELSE Fault
    /\ NextCheck
    /\ UNCHANGED <<brokerVars, status, ahead, taken, queue, transit, sent>>

WrongTimesOut ==                \* seeded fault: None is not told from a message
    NoneComes /\ passed' = passed + 1

TimesOut == NoneComes /\ UNCHANGED passed

(* The counters are only compared to print a line. *)
Closes ==
    /\ at = "close"
    /\ Exit(IF passed = Len(Checks) THEN 0 ELSE 1)
    /\ UNCHANGED <<provisioningVars, check, passed, ahead, taken, queue, transit,
                   sent>>

(* A request or the subscriber raises; a post may have reached the bridge. *)
Raises ==
    /\ at \in {"new", "connect", "post", "consume", "close"}
    /\ Fault
    /\ Exit(1)
    /\ \/ UNCHANGED transit
       \/ at = "post" /\ transit' = Append(transit, EventOf(check))
    /\ UNCHANGED <<brokerVars, check, passed, ahead, taken, queue, sent>>

(* So it does for a queue that is not there (yet): DO_NOT_CREATE. *)
QueueMissing ==
    /\ at = "consume"
    /\ Queue(Checks[check].queue) \notin objects
    /\ Exit(1)
    /\ UNCHANGED <<provisioningVars, check, passed, ahead, taken, queue, transit,
                   sent>>

ScriptStep ==
    \/ Begins \/ OwnRunEnds \/ Connects
    \/ PostAccepted \/ PostNotAccepted
    \/ Takes \/ TimesOut
    \/ Closes \/ Raises \/ QueueMissing

-----------------------------------------------------------------------------
(* The demo sender *)

SendsAnother == Count <= 0 \/ sent < Count

(* Every answer counts; an accepted event, of whatever --event-type, goes  *)
(* its way.  A post that raises ends the sender, which from here looks     *)
(* like a pause.                                                           *)
SenderPosts ==
    /\ SendsAnother
    /\ sent < MaxSent
    /\ sent' = sent + 1
    /\ \/ \E type \in Types : transit' = Append(transit, Message("sender", type))
       \/ UNCHANGED transit
    /\ UNCHANGED <<provisioningVars, scriptVars, queue>>

-----------------------------------------------------------------------------
(* The bridge and the broker *)

(* The message goes to the queues whose subscriptions are there by now. *)
BridgePublishes ==
    /\ transit # << >>
    /\ transit' = Tail(transit)
    /\ queue' = [q \in QueueNames |->
                    IF q \in Reached(Head(transit).type)
                    THEN Append(queue[q], Head(transit)) ELSE queue[q]]
    /\ UNCHANGED <<provisioningVars, scriptVars, sent>>

(* A duplicate, a failure, a lost message. *)
BridgeLoses ==
    /\ transit # << >>
    /\ Fault
    /\ transit' = Tail(transit)
    /\ UNCHANGED <<brokerVars, scriptVars, queue, sent>>

-----------------------------------------------------------------------------
ProvisioningStep(r) ==
    /\ RunStep(r)
    /\ UNCHANGED <<scriptVars, queue, transit, sent>>

ProvisioningKilled(r) ==
    /\ Killed(r)
    /\ UNCHANGED <<scriptVars, queue, transit, sent>>

BridgeStep == BridgePublishes \/ BridgeLoses

ValidateNext ==
    \/ ScriptStep
    \/ SenderPosts
    \/ BridgeStep
    \/ \E r \in Runs : ProvisioningStep(r) \/ ProvisioningKilled(r)

(* As in Provisioning.  Nobody has to run the script, or the sender. *)
ValidateFairness == \A r \in Runs : WF_validateVars(ProvisioningStep(r))

ValidateSpec == ValidateInit /\ [][ValidateNext]_validateVars /\ ValidateFairness

-----------------------------------------------------------------------------
(* Properties *)

ValidateTypeOK ==
    /\ TypeOK
    /\ at \in Ats
    /\ check \in DOMAIN Checks
    /\ passed \in 0..Len(Checks)
    /\ status \in {None, 0, 1}
    /\ ahead \in [DOMAIN Checks -> Messages \cup {NoMessage}]
    /\ taken \in [DOMAIN Checks -> Messages \cup {NoMessage}]
    /\ queue \in [QueueNames -> Seq(Messages)]
    /\ transit \in Seq(Messages)
    /\ sent \in Nat

(* What exit status 0 says of the events of the checks.  Each check took   *)
(* an envelope.  One that found a message on its queue took that one, and  *)
(* tells nothing of its own event.  One that found none took its own event *)
(* or one of the demo sender; the first four never take the event of       *)
(* another check.  The fifth reads the audit queue: where the script has   *)
(* provisioned the broker, and an earlier check got its own event, that    *)
(* event is waiting there too, and the fifth never takes its own, which    *)
(* may have been lost.                                                     *)
PassMeansDelivered ==
    status = 0 =>
        /\ \A i \in DOMAIN Checks :
              /\ IsEnvelope(taken[i])
              /\ ahead[i] # NoMessage => taken[i] = ahead[i]
              /\ ahead[i] = NoMessage => taken[i].from \in {"check", "sender"}
        /\ \A i \in 1..4 : taken[i].from = "check" => taken[i] = EventOf(i)
        /\ (phase[Own] = "succeeded" /\ \E i \in 1..4 : taken[i] = EventOf(i))
              => taken[5] # EventOf(5)

(* A pass also means that each queue of the checks has a subscription that *)
(* matches its event, whoever provisioned the broker, and when.            *)
PassMeansWired ==
    status = 0 =>
        \A i \in DOMAIN Checks :
            \E o \in objects :
                /\ o.kind = "subscription" /\ o.of = Checks[i].queue
                /\ Matches(o.topic, GetTopic(Checks[i].type, AccountId))

=============================================================================
