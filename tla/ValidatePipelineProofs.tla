------------------------ MODULE ValidatePipelineProofs ------------------------
(***************************************************************************)
(* Theorems about ValidatePipeline, for any number of provisioning runs    *)
(* beside the script, of faults, of messages left on the queues and of     *)
(* events of the demo sender, and their proofs.                            *)
(***************************************************************************)
EXTENDS ValidatePipeline, ProvisioningProofs, EventRouterProofs

-----------------------------------------------------------------------------
(* The invariant *)

Audit == "stripe.all.inbound"
Subscribed == "stripe.subscriptions.inbound"

(* The subscription of the queue has been there that brought m to it. *)
Wired(m, q) == q \in Reached(m.type)

WiredInv ==
    /\ \A q \in QueueNames : \A m \in In(queue[q]) : Wired(m, q)
    /\ \A i \in DOMAIN Checks : taken[i] # NoMessage => Wired(taken[i], Checks[i].queue)

(* The run of the script itself starts before the first check, ends before *)
(* it, and is never started again.                                         *)
OwnInv ==
    /\ at = "new" => phase[Own] = "idle"
    /\ at \in {"connect", "post", "consume", "close", "exited"} =>
          phase[Own] \in {"idle", "succeeded", "failed"}
    /\ at \in {"new", "provision", "connect"} => check = 1
    /\ at = "close" => check = Len(Checks)
    /\ at # "exited" => status = None

(* The checks behind the script. *)
Done == IF at = "close" THEN Len(Checks) ELSE check - 1

(* As many passed as checks are behind it, only if each took an envelope. *)
TookEnvelope(i) == taken[i] # NoMessage /\ IsEnvelope(taken[i])

PassedInv ==
    /\ at # "exited" =>
          /\ passed <= Done
          /\ passed = Done => \A i \in 1..Done : TookEnvelope(i)
          /\ \A i \in DOMAIN Checks : i > Done => taken[i] = NoMessage
    /\ status = 0 => \A i \in DOMAIN Checks : TookEnvelope(i)

(* The event of a check is not under way before the script has posted it.  *)
Posted(m) ==
    m.from = "check" =>
        at \notin {"new", "provision", "connect"} /\ \E j \in 1..check : m = EventOf(j)

Fresh(m) == m.from \in {"check", "sender"}

PostedInv ==
    /\ \A m \in In(transit) : Posted(m) /\ Fresh(m)
    /\ \A q \in QueueNames : \A m \in In(queue[q]) : Posted(m)

(* A check takes the message that was on its queue when it posted, or, if  *)
(* there was none, a message that has come from the bridge since then.     *)
FoundInv ==
    /\ at = "consume" =>
          IF ahead[check] = NoMessage
          THEN \A m \in In(queue[Checks[check].queue]) : Fresh(m)
          ELSE /\ queue[Checks[check].queue] # << >>
               /\ Head(queue[Checks[check].queue]) = ahead[check]
    /\ \A i \in DOMAIN Checks :
          taken[i] # NoMessage =>
              IF ahead[i] = NoMessage THEN Fresh(taken[i]) ELSE taken[i] = ahead[i]

(* Once the script has provisioned the broker, the audit queue gets all    *)
(* that the others get.  So where one of the first four checks has its own *)
(* event, that event is also on the audit queue, and the fifth check finds *)
(* a message there that is older than its own.                             *)
GotItsOwn == \E i \in 1..4 : taken[i] = EventOf(i)

AuditInv ==
    phase[Own] = "succeeded" =>
        /\ \A i \in 1..4 :
              check <= 4 /\ EventOf(i) \in In(queue[Checks[i].queue]) => queue[Audit] # << >>
        /\ GotItsOwn /\ taken[5] = NoMessage =>
              queue[Audit] # << >> /\ Head(queue[Audit]) # EventOf(5)
        /\ GotItsOwn => taken[5] # EventOf(5)

ValidateInv ==
    /\ ValidateTypeOK /\ ProvisioningInv /\ OwnInv /\ PassedInv /\ PostedInv
    /\ WiredInv /\ FoundInv /\ AuditInv

-----------------------------------------------------------------------------
(* Queues *)

LEMMA InAppend ==
    ASSUME NEW S, NEW s \in Seq(S), NEW e \in S
    PROVE  /\ In(Append(s, e)) = In(s) \cup {e}
           /\ Append(s, e) # << >>
           /\ s # << >> => Head(Append(s, e)) = Head(s)
<1>1. /\ Len(s) \in Nat /\ Len(Append(s, e)) = Len(s) + 1
      /\ \A i \in 1..Len(s) : Append(s, e)[i] = s[i]
      /\ Append(s, e)[Len(s) + 1] = e
  BY AppendProperties, LenProperties
<1>2. ASSUME NEW i \in 1..(Len(s) + 1) PROVE i \in 1..Len(s) \/ i = Len(s) + 1
  BY <1>1
<1>3. \A i \in 1..Len(s) : i \in 1..(Len(s) + 1)
  BY <1>1
<1>4. Len(s) + 1 \in 1..(Len(s) + 1)
  BY <1>1
<1>5. In(Append(s, e)) = In(s) \cup {e}
  BY <1>1, <1>2, <1>3, <1>4 DEF In
<1>6. Append(s, e) # << >>
  BY <1>1, EmptySeq
<1>7. ASSUME s # << >> PROVE Head(Append(s, e)) = Head(s)
  <2>1. 1 \in 1..Len(s)
    BY <1>1, <1>7, EmptySeq
  <2> QED
    BY <1>1, <2>1
<1> QED
  BY <1>5, <1>6, <1>7

LEMMA InTail ==
    ASSUME NEW S, NEW s \in Seq(S), s # << >>
    PROVE  Head(s) \in In(s) /\ In(Tail(s)) \subseteq In(s)
<1>1. /\ Len(s) \in Nat \ {0} /\ Head(s) = s[1] /\ Len(Tail(s)) = Len(s) - 1
      /\ \A i \in 1..(Len(s) - 1) : Tail(s)[i] = s[i + 1]
  BY HeadTailProperties, EmptySeq, LenProperties
<1>2. 1 \in 1..Len(s) /\ \A i \in 1..(Len(s) - 1) : i + 1 \in 1..Len(s)
  BY <1>1
<1> QED
  BY <1>1, <1>2 DEF In

LEMMA InType ==
    ASSUME NEW S, NEW s \in Seq(S)
    PROVE  In(s) \subseteq S /\ (s # << >> => Head(s) \in S /\ Tail(s) \in Seq(S))
  BY DEF In

-----------------------------------------------------------------------------
(* The checks, their events and their queues *)

LEMMA ChecksAre ==
    /\ Len(Checks) = 5 /\ DOMAIN Checks = 1..5
    /\ Checks[1].type = <<"payment_intent", "succeeded">>
    /\ Checks[2].type = <<"customer", "subscription", "created">>
    /\ Checks[3].type = <<"invoice", "payment_failed">>
    /\ Checks[4].type = <<"customer", "created">>
    /\ Checks[5].type = <<"checkout", "session", "completed">>
    /\ Checks[1].queue = "stripe.payments.inbound"
    /\ Checks[2].queue = Subscribed
    /\ Checks[3].queue = "stripe.invoices.inbound"
    /\ Checks[4].queue = "stripe.customers.inbound"
    /\ Checks[5].queue = Audit
  BY DEF Checks, Check, Audit, Subscribed

LEMMA MessagesAre ==
    /\ NoMessage \notin Messages
    /\ \A i \in 1..5 : EventOf(i) \in Messages /\ EventOf(i).from = "check"
                       /\ EventOf(i).type = Checks[i].type
    /\ \A m \in Messages : m.from = "check" => \E i \in 1..5 : m = EventOf(i)
    /\ \A i, j \in 1..5 : EventOf(i) = EventOf(j) => i = j
    /\ \A type \in Types : /\ Message("sender", type) \in Messages
                           /\ Message("sender", type).from = "sender"
    /\ LeftOvers \subseteq Messages /\ \A m \in LeftOvers : m.from # "check"
<1>1. DOMAIN Checks = 1..5
  BY ChecksAre
<1>2. \A from, type : Message(from, type).from = from /\ Message(from, type).type = type
  BY DEF Message
<1> HIDE DEF Message
<1>3. \A i \in 1..5 : EventOf(i).from = "check" /\ EventOf(i).type = Checks[i].type
  BY <1>2 DEF EventOf
<1>4. OwnMessages = {EventOf(i) : i \in 1..5}
  BY <1>1 DEF OwnMessages
<1>5. \A m \in LeftOvers : m.from \in {"earlier", "foreign"}
  BY <1>2 DEF LeftOvers
<1>6. \A m \in Messages : m \in OwnMessages \/ m.from \in {"sender", "earlier", "foreign"}
  BY <1>2, <1>5 DEF Messages
<1>7. NoMessage.from = "nobody"
  BY <1>2 DEF NoMessage
<1>8. ASSUME NEW i \in 1..5, NEW j \in 1..5, Checks[i].type = Checks[j].type PROVE i = j
  <2>1. i \in {1, 2, 3, 4, 5} /\ j \in {1, 2, 3, 4, 5}
    OBVIOUS
  <2>2. /\ Len(Checks[1].type) = 2 /\ Checks[1].type[1] = "payment_intent"
        /\ Len(Checks[2].type) = 3 /\ Checks[2].type[1] = "customer"
        /\ Len(Checks[3].type) = 2 /\ Checks[3].type[1] = "invoice"
        /\ Len(Checks[4].type) = 2 /\ Checks[4].type[1] = "customer"
        /\ Len(Checks[5].type) = 3 /\ Checks[5].type[1] = "checkout"
    BY ChecksAre
  <2> QED
    BY <1>8, <2>1, <2>2
<1> QED
  BY <1>2, <1>3, <1>4, <1>5, <1>6, <1>7, <1>8 DEF Messages

LEMMA QueueNamesAre ==
    QueueNames = {"stripe.payments.inbound", Subscribed, "stripe.invoices.inbound",
                  "stripe.customers.inbound", Audit, "stripe.errors.dmq"}
<1>1. DOMAIN QUEUE_DEFINITIONS = {1, 2, 3, 4, 5, 6}
  BY DEF QUEUE_DEFINITIONS
<1>2. /\ QUEUE_DEFINITIONS[1].name = "stripe.payments.inbound"
      /\ QUEUE_DEFINITIONS[2].name = Subscribed
      /\ QUEUE_DEFINITIONS[3].name = "stripe.invoices.inbound"
      /\ QUEUE_DEFINITIONS[4].name = "stripe.customers.inbound"
      /\ QUEUE_DEFINITIONS[5].name = Audit
      /\ QUEUE_DEFINITIONS[6].name = "stripe.errors.dmq"
  BY DEF QUEUE_DEFINITIONS, QueueDefinition, Audit, Subscribed
<1> QED
  BY <1>1, <1>2 DEF QueueNames

LEMMA CheckQueues ==
    ASSUME NEW i \in DOMAIN Checks
    PROVE  /\ Checks[i].queue \in QueueNames
           /\ Checks[i].queue = Audit <=> i = 5
           /\ Checks[i].queue = Subscribed <=> i = 2
<1>1. i \in {1, 2, 3, 4, 5}
  BY ChecksAre
<1> QED
  BY <1>1, ChecksAre, QueueNamesAre DEF Audit, Subscribed

(* The category of the topic of the event of each check. *)
LEMMA CategoryOf ==
    /\ MapEventType(Checks[1].type)[1] = "payment_intent"
    /\ MapEventType(Checks[2].type)[1] = "subscription"
    /\ MapEventType(Checks[3].type)[1] = "invoice"
    /\ MapEventType(Checks[4].type)[1] = "customer"
    /\ MapEventType(Checks[5].type)[1] = "checkout"
<1>1. ASSUME NEW t, NEW s, Entry(t, s) \in Mapping PROVE MapEventType(t) = s
  <2>1. Entry(t, s).type = t /\ Entry(t, s).segments = s
    BY DEF Entry
  <2> QED
    BY <1>1, <2>1, MapEventTypeIs
<1>2. /\ Entry(<<"payment_intent", "succeeded">>, <<"payment_intent", "succeeded">>) \in Mapping
      /\ Entry(<<"customer", "subscription", "created">>, <<"subscription", "created">>) \in Mapping
      /\ Entry(<<"invoice", "payment_failed">>, <<"invoice", "payment_failed">>) \in Mapping
      /\ Entry(<<"customer", "created">>, <<"customer", "created">>) \in Mapping
      /\ Entry(<<"checkout", "session", "completed">>,
               <<"checkout", "session", "completed">>) \in Mapping
  BY DEF Mapping
<1>3. /\ MapEventType(Checks[1].type) = <<"payment_intent", "succeeded">>
      /\ MapEventType(Checks[2].type) = <<"subscription", "created">>
      /\ MapEventType(Checks[3].type) = <<"invoice", "payment_failed">>
      /\ MapEventType(Checks[4].type) = <<"customer", "created">>
      /\ MapEventType(Checks[5].type) = <<"checkout", "session", "completed">>
  BY <1>1, <1>2, ChecksAre
<1> QED
  BY <1>3

-----------------------------------------------------------------------------
(* The subscriptions of the plan *)

LEMMA SubscriptionsAre ==
    /\ \A o \in Objects :
          o.kind = "subscription" =>
             \/ o.of = "stripe.payments.inbound" /\ o.topic = CategoryTopic("payment_intent")
             \/ o.of = Subscribed /\ o.topic = CategoryTopic("subscription")
             \/ o.of = "stripe.invoices.inbound" /\ o.topic = CategoryTopic("invoice")
             \/ o.of = "stripe.customers.inbound" /\ o.topic = CategoryTopic("customer")
             \/ o.of = Audit /\ o.topic = AllTopic
    /\ Subscription(Audit, AllTopic) \in Objects \ {TopicException}
<1>1. QUEUE_DEFINITIONS =
        << QueueDefinition("stripe.payments.inbound", <<CategoryTopic("payment_intent")>>),
           QueueDefinition(Subscribed, <<CategoryTopic("subscription")>>),
           QueueDefinition("stripe.invoices.inbound", <<CategoryTopic("invoice")>>),
           QueueDefinition("stripe.customers.inbound", <<CategoryTopic("customer")>>),
           QueueDefinition(Audit, <<AllTopic>>),
           QueueDefinition("stripe.errors.dmq", << >>) >>
  BY DEF QUEUE_DEFINITIONS, CategoryTopic, AllTopic, Audit, Subscribed
<1>2. ASSUME NEW name, NEW topic
      PROVE  ObjectsOf(QueueDefinition(name, <<topic>>)) = {Queue(name), Subscription(name, topic)}
  BY DEF ObjectsOf, QueueDefinition
<1>3. ASSUME NEW name PROVE ObjectsOf(QueueDefinition(name, << >>)) = {Queue(name)}
  BY DEF ObjectsOf, QueueDefinition
<1> DEFINE of(n) == ObjectsOf(QUEUE_DEFINITIONS[n])
<1>4. /\ of(1) = {Queue("stripe.payments.inbound"),
                  Subscription("stripe.payments.inbound", CategoryTopic("payment_intent"))}
      /\ of(2) = {Queue(Subscribed), Subscription(Subscribed, CategoryTopic("subscription"))}
      /\ of(3) = {Queue("stripe.invoices.inbound"),
                  Subscription("stripe.invoices.inbound", CategoryTopic("invoice"))}
      /\ of(4) = {Queue("stripe.customers.inbound"),
                  Subscription("stripe.customers.inbound", CategoryTopic("customer"))}
      /\ of(5) = {Queue(Audit), Subscription(Audit, AllTopic)}
      /\ of(6) = {Queue("stripe.errors.dmq")}
  BY <1>1, <1>2, <1>3
<1>5. Objects = (UNION {of(n) : n \in 1..6}) \cup {AclProfile, TopicException, ClientProfile}
  BY PlannedObjects
<1> HIDE DEF of
<1>6. \A o : o \in Objects <=>
          \/ o \in of(1) \/ o \in of(2) \/ o \in of(3) \/ o \in of(4) \/ o \in of(5) \/ o \in of(6)
          \/ o \in {AclProfile, TopicException, ClientProfile}
  BY <1>5
<1>7. /\ \A name : Queue(name).kind # "subscription"
      /\ AclProfile.kind # "subscription" /\ TopicException.kind # "subscription"
      /\ ClientProfile.kind # "subscription"
      /\ \A name, topic : /\ Subscription(name, topic).kind = "subscription"
                          /\ Subscription(name, topic).of = name
                          /\ Subscription(name, topic).topic = topic
  BY DEF Queue, Subscription, AclProfile, TopicException, ClientProfile
<1> QED
  BY <1>4, <1>6, <1>7

(* A queue has one subscription, to the category of its check, and the     *)
(* audit queue one to everything: it matches the event of the check.       *)
LEMMA QueueSubscriptions ==
    ASSUME NEW i \in 1..5, NEW o \in Objects, o.kind = "subscription", o.of = Checks[i].queue
    PROVE  /\ i # 5 => o.topic = CategoryTopic(MapEventType(Checks[i].type)[1])
           /\ Matches(o.topic, GetTopic(Checks[i].type, AccountId))
<1>1. i \in {1, 2, 3, 4, 5}
  OBVIOUS
<1>2. /\ i # 5 => o.topic = CategoryTopic(MapEventType(Checks[i].type)[1])
      /\ i = 5 => o.topic = AllTopic
  BY <1>1, ChecksAre, CategoryOf, SubscriptionsAre DEF Audit, Subscribed
<1>3. /\ Matches(AllTopic, GetTopic(Checks[i].type, AccountId))
      /\ Matches(CategoryTopic(MapEventType(Checks[i].type)[1]),
                 GetTopic(Checks[i].type, AccountId))
  BY GetTopicIs, SegmentsType, WhatMatches
<1> QED
  BY <1>2, <1>3

(* The queues of the first four checks do not get each other's events.     *)
LEMMA WiredTells ==
    ASSUME ValidateTypeOK, NEW i \in 1..4, NEW j \in 1..5, Wired(EventOf(j), Checks[i].queue)
    PROVE  j = i
<1>1. PICK o \in objects :
         /\ o.kind = "subscription" /\ o.of = Checks[i].queue
         /\ Matches(o.topic, GetTopic(Checks[j].type, AccountId))
  BY MessagesAre DEF Wired, Reached
<1>2. o \in Objects
  BY DEF ValidateTypeOK, TypeOK
<1>3. o.topic = CategoryTopic(MapEventType(Checks[i].type)[1])
  BY <1>1, <1>2, QueueSubscriptions
<1>4. MapEventType(Checks[j].type)[1] = MapEventType(Checks[i].type)[1]
  BY <1>1, <1>3, GetTopicIs, SegmentsType, WhatMatches
<1>5. i \in {1, 2, 3, 4} /\ j \in {1, 2, 3, 4, 5}
  OBVIOUS
<1> QED
  BY <1>4, <1>5, CategoryOf

(* Every message matches the subscription of the audit queue. *)
LEMMA AuditMatches ==
    ASSUME NEW type PROVE Matches(AllTopic, GetTopic(type, AccountId))
  BY GetTopicIs, SegmentsType, WhatMatches

-----------------------------------------------------------------------------
(* What a step does to the broker, and to the run of the script *)

(* A step of the whole is one of a provisioning run, or leaves the broker  *)
(* alone and is at most a fault.                                           *)
LEMMA BrokerSteps ==
    ASSUME [ValidateNext]_validateVars
    PROVE  \/ [\E r \in Runs : AnyRunStep(r)]_vars
           \/ UNCHANGED brokerVars /\ Fault
<1>0. Own \in Runs
  BY ValidateAssumption
<1>1. CASE Begins
  BY <1>0, <1>1 DEF Begins, AnyRunStep, provisioningVars
<1>2. CASE OwnRunEnds \/ Connects \/ PostAccepted \/ Takes \/ Closes \/ QueueMissing
  BY <1>2 DEF OwnRunEnds, Connects, PostAccepted, Takes, Closes, QueueMissing, provisioningVars
<1>3. CASE PostNotAccepted \/ Raises
  BY <1>3 DEF PostNotAccepted, Raises
<1>4. CASE TimesOut
  BY <1>4 DEF TimesOut, NoneComes, brokerVars, vars
<1>5. CASE SenderPosts \/ BridgePublishes
  BY <1>5 DEF SenderPosts, BridgePublishes, provisioningVars
<1>6. CASE BridgeLoses
  BY <1>6 DEF BridgeLoses
<1>7. CASE \E r \in Runs : ProvisioningStep(r) \/ ProvisioningKilled(r)
  BY <1>7 DEF ProvisioningStep, ProvisioningKilled, AnyRunStep
<1>8. CASE UNCHANGED validateVars
  BY <1>8 DEF validateVars, provisioningVars
<1> QED
  BY <1>1, <1>2, <1>3, <1>4, <1>5, <1>6, <1>7, <1>8 DEF ValidateNext, ScriptStep, BridgeStep

LEMMA ProvisioningKept ==
    ASSUME ProvisioningInv, [ValidateNext]_validateVars PROVE ProvisioningInv'
<1>1. CASE [\E r \in Runs : AnyRunStep(r)]_vars
  BY <1>1, ProvisioningInvStep
<1>2. CASE UNCHANGED brokerVars /\ Fault
  <2>1. faults' \in 0..MaxFaults
    <3>1. faults \in 0..MaxFaults /\ MaxFaults \in Nat
      BY ProvisioningAssumption DEF ProvisioningInv, TypeOK
    <3> QED
      BY <1>2, <3>1 DEF Fault
  <2>2. LossesAreExplained'
    <3>1. /\ faults \in Int /\ faults' = faults + 1 /\ UNCHANGED <<objects, failures>>
          /\ Cardinality(objects) \in Nat /\ failures \in [Runs -> Nat]
      BY <1>2, CountsBounded DEF Fault, brokerVars, ProvisioningInv, TypeOK
    <3>2. \A r \in Runs : Losing(r)' = Losing(r) /\ Losing(r) \in {0, 1}
      BY <1>2 DEF brokerVars, Losing, At
    <3>3. ASSUME NEW r \in Runs
          PROVE  failures'[r] + Losing(r)' <= faults' + Cardinality(objects')
      <4>1. failures[r] + Losing(r) <= faults + Cardinality(objects)
        BY DEF ProvisioningInv, LossesAreExplained
      <4>2. failures[r] \in Nat /\ Losing(r) \in {0, 1}
        BY <3>1, <3>2
      <4> QED
        BY <3>1, <3>2, <4>1, <4>2
    <3> QED
      BY <3>3 DEF LossesAreExplained
  <2> QED
    BY <1>2, <2>1, <2>2 DEF brokerVars, ProvisioningInv, TypeOK, PastIsThere, Past, ParentsComeFirst
<1> QED
  BY <1>1, <1>2, BrokerSteps

(* Nothing is taken away from the broker. *)
LEMMA ObjectsGrow ==
    ASSUME [ValidateNext]_validateVars PROVE objects \subseteq objects'
<1>1. CASE [\E r \in Runs : AnyRunStep(r)]_vars
  BY <1>1 DEF vars, AnyRunStep, RunStep, Start, Launch, GetFound, GetNotFound, GetFails,
         TopicCheckFails, Post, PostRefused, PostFails, Killed
<1>2. CASE UNCHANGED brokerVars
  BY <1>2 DEF brokerVars
<1> QED
  BY <1>1, <1>2, BrokerSteps

LEMMA WiredGrows ==
    ASSUME [ValidateNext]_validateVars, NEW m, NEW q, Wired(m, q) PROVE Wired(m, q)'
  BY ObjectsGrow DEF Wired, Reached

(* The script's own run is past while a check is under way. *)
LEMMA OwnPhase ==
    ASSUME ValidateInv, NEW r \in Runs, RunStep(r) \/ Killed(r), at # "provision"
    PROVE  phase'[Own] = phase[Own]
<1>1. Own \in Runs /\ Own \notin Jobs /\ phase \in [Runs -> Phases]
  BY ValidateAssumption DEF ValidateInv, ValidateTypeOK, TypeOK
<1>2. phase[Own] \notin {"get", "post"}
  BY DEF ValidateInv, OwnInv, ValidateTypeOK, Ats
<1>3. r # Own
  BY <1>1, <1>2 DEF RunStep, Start, GetFound, GetNotFound, GetFails, TopicCheckFails, Post,
         PostRefused, PostFails, Killed
<1> QED
  BY <1>1, <1>3 DEF RunStep, Start, Launch, GetFound, GetNotFound, GetFails, TopicCheckFails,
         Post, PostRefused, PostFails, Killed, Proceed, Fail

-----------------------------------------------------------------------------
(* What a step does to the messages *)

LEMMA NumbersType ==
    ASSUME ValidateInv
    PROVE  /\ check \in {1, 2, 3, 4, 5} /\ DOMAIN Checks = {1, 2, 3, 4, 5} /\ Len(Checks) = 5
           /\ EventOf(check) \in Messages /\ NoMessage \notin Messages
           /\ passed \in 0..5 /\ sent \in Nat
           /\ Checks[check].queue \in QueueNames
<1>1. DOMAIN Checks = {1, 2, 3, 4, 5} /\ Len(Checks) = 5
  BY ChecksAre
<1> QED
  BY <1>1, MessagesAre, CheckQueues DEF ValidateInv, ValidateTypeOK

(* The next check, or the end of the loop. *)
LEMMA NextCheckIs ==
    ASSUME ValidateInv, NextCheck
    PROVE  /\ at' \in {"post", "close"} /\ check' \in {1, 2, 3, 4, 5} /\ check <= check'
           /\ at' = "close" => check = 5 /\ check' = 5
           /\ at' = "post" => check' = check + 1
<1>1. check \in {1, 2, 3, 4, 5} /\ Len(Checks) = 5
  BY NumbersType
<1>2. CASE check < Len(Checks)
  <2>1. check + 1 \in {1, 2, 3, 4, 5} /\ check <= check + 1
    BY <1>1, <1>2
  <2> QED
    BY <1>2, <2>1 DEF NextCheck
<1>3. CASE ~(check < Len(Checks))
  <2>1. check = 5 /\ check <= check
    BY <1>1, <1>3
  <2> QED
    BY <1>3, <2>1 DEF NextCheck
<1> QED
  BY <1>2, <1>3

LEMMA MessagesType ==
    ASSUME ValidateInv
    PROVE  /\ In(transit) \subseteq Messages
           /\ transit # << >> => Head(transit) \in In(transit) /\ In(Tail(transit)) \subseteq In(transit)
           /\ \A q \in QueueNames :
                 /\ queue[q] \in Seq(Messages) /\ In(queue[q]) \subseteq Messages
                 /\ queue[q] # << >> =>
                       Head(queue[q]) \in In(queue[q]) /\ In(Tail(queue[q])) \subseteq In(queue[q])
<1>1. transit \in Seq(Messages) /\ \A q \in QueueNames : queue[q] \in Seq(Messages)
  BY DEF ValidateInv, ValidateTypeOK
<1> QED
  BY <1>1, InType, InTail

(* A message on a queue stays, is taken, or has come from the bridge. *)
LEMMA QueueMoves ==
    ASSUME ValidateInv, [ValidateNext]_validateVars, NEW q \in QueueNames
    PROVE  In(queue'[q]) \subseteq In(queue[q]) \cup {m \in In(transit) : Wired(m, q)}
<1>0. queue \in [QueueNames -> Seq(Messages)]
  BY DEF ValidateInv, ValidateTypeOK
<1>1. CASE Takes
  <2>1. queue'[q] = queue[q] \/ (queue[q] # << >> /\ queue'[q] = Tail(queue[q]))
    BY <1>0, <1>1 DEF Takes
  <2> QED
    BY <2>1, MessagesType
<1>2. CASE BridgePublishes
  <2> DEFINE m == Head(transit)
  <2>1. m \in In(transit) /\ m \in Messages
    BY <1>2, MessagesType DEF BridgePublishes
  <2>2. queue'[q] = queue[q] \/ (queue'[q] = Append(queue[q], m) /\ Wired(m, q))
    BY <1>2 DEF BridgePublishes, Wired
  <2> HIDE DEF m
  <2>3. In(Append(queue[q], m)) = In(queue[q]) \cup {m}
    BY <1>0, <2>1, InAppend
  <2> QED
    BY <2>1, <2>2, <2>3
<1>3. CASE UNCHANGED queue
  BY <1>3
<1> QED
  BY <1>1, <1>2, <1>3 DEF ValidateNext, ScriptStep, BridgeStep, Begins, OwnRunEnds, Connects,
     PostAccepted, PostNotAccepted, TimesOut, NoneComes, Closes, Raises, QueueMissing,
     SenderPosts, BridgeLoses, ProvisioningStep, ProvisioningKilled, validateVars

(* An event reaches the bridge once it is posted. *)
LEMMA TransitMoves ==
    ASSUME ValidateInv, [ValidateNext]_validateVars
    PROVE  /\ transit' \in Seq(Messages)
           /\ \A m \in In(transit') : m \in In(transit) \/ (Posted(m)' /\ Fresh(m))
<1>0. /\ transit \in Seq(Messages) /\ EventOf(check) \in Messages
      /\ EventOf(check).from = "check" /\ check \in 1..check
  BY NumbersType, MessagesAre DEF ValidateInv, ValidateTypeOK
<1>1. CASE PostAccepted
  <2>1. transit' \in Seq(Messages) /\ In(transit') = In(transit) \cup {EventOf(check)}
    BY <1>0, <1>1, InAppend DEF PostAccepted
  <2>2. check' = check /\ at' = "consume"
    BY <1>1 DEF PostAccepted
  <2>3. Fresh(EventOf(check)) /\ \A m : m = EventOf(check) => Posted(m)'
    BY <1>0, <2>2 DEF Posted, Fresh
  <2> QED
    BY <2>1, <2>3
<1>2. CASE Raises
  <2>1. CASE transit' = transit
    BY <1>0, <2>1
  <2>2. CASE transit' = Append(transit, EventOf(check))
    <3>1. transit' \in Seq(Messages) /\ In(transit') = In(transit) \cup {EventOf(check)}
      BY <1>0, <2>2, InAppend
    <3>2. check' = check /\ at' = "exited"
      BY <1>2 DEF Raises, Exit
    <3>3. Fresh(EventOf(check)) /\ \A m : m = EventOf(check) => Posted(m)'
      BY <1>0, <3>2 DEF Posted, Fresh
    <3> QED
      BY <3>1, <3>3
  <2> QED
    BY <1>2, <2>1, <2>2 DEF Raises
<1>3. CASE SenderPosts
  <2>1. CASE transit' = transit
    BY <1>0, <2>1
  <2>2. ASSUME NEW type \in Types, transit' = Append(transit, Message("sender", type))
        PROVE  /\ transit' \in Seq(Messages)
               /\ \A m \in In(transit') : m \in In(transit) \/ (Posted(m)' /\ Fresh(m))
    <3>1. Message("sender", type) \in Messages /\ Message("sender", type).from = "sender"
      BY MessagesAre
    <3>2. /\ transit' \in Seq(Messages)
          /\ In(transit') = In(transit) \cup {Message("sender", type)}
      BY <1>0, <2>2, <3>1, InAppend
    <3> QED
      BY <3>1, <3>2 DEF Posted, Fresh
  <2> QED
    BY <1>3, <2>1, <2>2 DEF SenderPosts
<1>4. CASE BridgeStep
  <2>1. transit # << >> /\ transit' = Tail(transit)
    BY <1>4 DEF BridgeStep, BridgePublishes, BridgeLoses
  <2> QED
    BY <1>0, <2>1, MessagesType
<1>5. CASE UNCHANGED transit
  BY <1>0, <1>5
<1> QED
  BY <1>1, <1>2, <1>3, <1>4, <1>5 DEF ValidateNext, ScriptStep, Begins, OwnRunEnds, Connects,
     PostNotAccepted, Takes, TimesOut, NoneComes, Closes, QueueMissing,
     ProvisioningStep, ProvisioningKilled, validateVars

(* Only the check under way takes a message, and from its queue. *)
LEMMA TakenMoves ==
    ASSUME ValidateInv, [ValidateNext]_validateVars, NEW i \in DOMAIN Checks
    PROVE  taken'[i] = taken[i] \/ taken'[i] \in In(queue[Checks[i].queue])
<1>1. CASE Takes
  <2>1. taken'[i] = taken[i] \/ (i = check /\ taken'[i] = Head(queue[Checks[check].queue]))
    BY <1>1 DEF Takes, ValidateInv, ValidateTypeOK
  <2>2. Head(queue[Checks[check].queue]) \in In(queue[Checks[check].queue])
    BY <1>1, NumbersType, MessagesType DEF Takes
  <2> QED
    BY <2>1, <2>2
<1>2. CASE UNCHANGED taken
  BY <1>2
<1> QED
  BY <1>1, <1>2 DEF ValidateNext, ScriptStep, BridgeStep, Begins, OwnRunEnds, Connects,
     PostAccepted, PostNotAccepted, TimesOut, NoneComes, Closes, Raises, QueueMissing,
     SenderPosts, BridgePublishes, BridgeLoses, ProvisioningStep, ProvisioningKilled,
     validateVars, scriptVars

-----------------------------------------------------------------------------
(* Each part of the invariant is kept *)

LEMMA TypesKept ==
    ASSUME ValidateInv, [ValidateNext]_validateVars PROVE ValidateTypeOK'
<1>1. TypeOK'
  BY ProvisioningKept DEF ValidateInv, ProvisioningInv
<1>2. at' \in Ats /\ check' \in DOMAIN Checks
  <2>1. at \in Ats /\ check \in DOMAIN Checks
    BY DEF ValidateInv, ValidateTypeOK
  <2>2. CASE PostNotAccepted \/ Takes \/ TimesOut
    <3>1. NextCheck
      BY <2>2 DEF PostNotAccepted, Takes, TimesOut, NoneComes
    <3> QED
      BY <3>1, NextCheckIs, NumbersType DEF Ats
  <2>3. CASE ~(PostNotAccepted \/ Takes \/ TimesOut)
    BY <2>1, <2>3 DEF Ats, ValidateNext, ScriptStep, BridgeStep, Begins, OwnRunEnds, Connects,
       PostAccepted, Closes, Raises, QueueMissing, SenderPosts, BridgePublishes, BridgeLoses,
       ProvisioningStep, ProvisioningKilled, Exit, validateVars, scriptVars
  <2> QED
    BY <2>2, <2>3
<1>3. passed' \in 0..Len(Checks)
  <2>1. CASE Takes
    <3>1. passed <= check - 1
      BY <2>1 DEF Takes, ValidateInv, PassedInv, Done
    <3>2. passed' \in {passed, passed + 1}
      BY <2>1 DEF Takes
    <3>3. passed \in 0..5 /\ check \in {1, 2, 3, 4, 5} /\ Len(Checks) = 5
      BY NumbersType
    <3>4. passed + 1 \in 0..5
      BY <3>1, <3>3
    <3> QED
      BY <3>2, <3>3, <3>4
  <2>2. CASE ~Takes
    BY <2>2, NumbersType DEF ValidateNext, ScriptStep, BridgeStep, Begins, OwnRunEnds, Connects,
       PostAccepted, PostNotAccepted, TimesOut, NoneComes, Closes, Raises, QueueMissing,
       SenderPosts, BridgePublishes, BridgeLoses, ProvisioningStep, ProvisioningKilled,
       validateVars, scriptVars
  <2> QED
    BY <2>1, <2>2
<1>4. status' \in {None, 0, 1}
  BY DEF ValidateInv, ValidateTypeOK, ValidateNext, ScriptStep, BridgeStep, Begins, OwnRunEnds,
     Connects, PostAccepted, PostNotAccepted, Takes, TimesOut, NoneComes, Closes, Raises,
     QueueMissing, SenderPosts, BridgePublishes, BridgeLoses, ProvisioningStep,
     ProvisioningKilled, Exit, validateVars, scriptVars
<1>5. taken' \in [DOMAIN Checks -> Messages \cup {NoMessage}]
  <2>1. taken \in [DOMAIN Checks -> Messages \cup {NoMessage}]
    BY DEF ValidateInv, ValidateTypeOK
  <2>2. CASE Takes
    <3>1. Head(queue[Checks[check].queue]) \in Messages
      BY <2>2, NumbersType, MessagesType DEF Takes
    <3> QED
      BY <2>1, <2>2, <3>1 DEF Takes
  <2>3. CASE ~Takes
    BY <2>1, <2>3 DEF ValidateNext, ScriptStep, BridgeStep, Begins, OwnRunEnds, Connects,
       PostAccepted, PostNotAccepted, TimesOut, NoneComes, Closes, Raises, QueueMissing,
       SenderPosts, BridgePublishes, BridgeLoses, ProvisioningStep, ProvisioningKilled,
       validateVars, scriptVars
  <2> QED
    BY <2>2, <2>3
<1>6. transit' \in Seq(Messages)
  BY TransitMoves
<1>7. queue' \in [QueueNames -> Seq(Messages)]
  <2>1. queue \in [QueueNames -> Seq(Messages)]
    BY DEF ValidateInv, ValidateTypeOK
  <2>2. CASE Takes
    <3>1. /\ Checks[check].queue \in QueueNames
          /\ Tail(queue[Checks[check].queue]) \in Seq(Messages)
      BY <2>1, <2>2, NumbersType, InType DEF Takes
    <3> QED
      BY <2>1, <2>2, <3>1 DEF Takes
  <2>3. CASE BridgePublishes
    <3>1. Head(transit) \in Messages
      BY <2>3, MessagesType DEF BridgePublishes
    <3>2. \A q \in QueueNames : Append(queue[q], Head(transit)) \in Seq(Messages)
      BY <2>1, <3>1
    <3> QED
      BY <2>1, <2>3, <3>2 DEF BridgePublishes
  <2>4. CASE ~(Takes \/ BridgePublishes)
    BY <2>1, <2>4 DEF ValidateNext, ScriptStep, BridgeStep, Begins, OwnRunEnds, Connects,
       PostAccepted, PostNotAccepted, TimesOut, NoneComes, Closes, Raises, QueueMissing,
       SenderPosts, BridgeLoses, ProvisioningStep, ProvisioningKilled, validateVars
  <2> QED
    BY <2>2, <2>3, <2>4
<1>8. sent' \in Nat
  <2>1. sent' = sent \/ sent' = sent + 1
    BY DEF ValidateNext, ScriptStep, BridgeStep, Begins, OwnRunEnds, Connects, PostAccepted,
       PostNotAccepted, Takes, TimesOut, NoneComes, Closes, Raises, QueueMissing, SenderPosts,
       BridgePublishes, BridgeLoses, ProvisioningStep, ProvisioningKilled, validateVars
  <2> QED
    BY <2>1, NumbersType
<1>9. ahead' \in [DOMAIN Checks -> Messages \cup {NoMessage}]
  <2>1. ahead \in [DOMAIN Checks -> Messages \cup {NoMessage}]
    BY DEF ValidateInv, ValidateTypeOK
  <2>2. CASE PostAccepted
    <3>1. queue[Checks[check].queue] # << >> => Head(queue[Checks[check].queue]) \in Messages
      BY NumbersType, MessagesType
    <3> QED
      BY <2>1, <2>2, <3>1 DEF PostAccepted
  <2>3. CASE ~PostAccepted
    BY <2>1, <2>3 DEF ValidateNext, ScriptStep, BridgeStep, Begins, OwnRunEnds, Connects,
       PostNotAccepted, Takes, TimesOut, NoneComes, Closes, Raises, QueueMissing,
       SenderPosts, BridgePublishes, BridgeLoses, ProvisioningStep, ProvisioningKilled,
       validateVars, scriptVars
  <2> QED
    BY <2>2, <2>3
<1> QED
  BY <1>1, <1>2, <1>3, <1>4, <1>5, <1>6, <1>7, <1>8, <1>9 DEF ValidateTypeOK

LEMMA WiredKept ==
    ASSUME ValidateInv, [ValidateNext]_validateVars PROVE WiredInv'
<1>1. ASSUME NEW q \in QueueNames, NEW m \in In(queue'[q]) PROVE Wired(m, q)'
  <2>1. Wired(m, q)
    BY <1>1, QueueMoves DEF ValidateInv, WiredInv
  <2> QED
    BY <2>1, WiredGrows
<1>2. ASSUME NEW i \in DOMAIN Checks, taken'[i] # NoMessage
      PROVE  \A m : m = taken'[i] => Wired(m, Checks[i].queue)'
  <2>1. Checks[i].queue \in QueueNames
    BY CheckQueues
  <2>2. \A m : m = taken'[i] => Wired(m, Checks[i].queue)
    BY <1>2, <2>1, TakenMoves DEF ValidateInv, WiredInv
  <2> QED
    BY <2>2, WiredGrows
<1> QED
  BY <1>1, <1>2 DEF WiredInv, Wired, Reached, In

(* What is posted stays posted. *)
LEMMA PostedGrows ==
    ASSUME ValidateInv, [ValidateNext]_validateVars, NEW m \in Messages, Posted(m)
    PROVE  Posted(m)'
<1>1. check <= check'
  <2>1. CASE NextCheck
    BY <2>1, NextCheckIs
  <2>2. CASE UNCHANGED check
    BY <2>2, NumbersType
  <2> QED
    BY <2>1, <2>2 DEF ValidateNext, ScriptStep, BridgeStep, Begins, OwnRunEnds, Connects,
       PostAccepted, PostNotAccepted, Takes, TimesOut, NoneComes, Closes, Raises,
       QueueMissing, SenderPosts, BridgePublishes, BridgeLoses, ProvisioningStep,
       ProvisioningKilled, validateVars, scriptVars
<1>2. ASSUME at \notin {"new", "provision", "connect"}
      PROVE  at' \notin {"new", "provision", "connect"}
  <2>1. CASE NextCheck
    BY <2>1, NextCheckIs
  <2>2. CASE ~NextCheck
    BY <1>2, <2>2 DEF ValidateNext, ScriptStep, BridgeStep, Begins, OwnRunEnds, Connects,
       PostAccepted, PostNotAccepted, Takes, TimesOut, NoneComes, Closes, Raises,
       QueueMissing, SenderPosts, BridgePublishes, BridgeLoses, ProvisioningStep,
       ProvisioningKilled, Exit, validateVars, scriptVars
  <2> QED
    BY <2>1, <2>2
<1>3. check \in Int /\ check' \in Int
  <2>1. check' \in DOMAIN Checks
    BY TypesKept DEF ValidateTypeOK
  <2> QED
    BY <2>1, NumbersType
<1>4. \A j \in 1..check : j \in 1..check'
  BY <1>1, <1>3
<1> QED
  BY <1>2, <1>4 DEF Posted, EventOf

LEMMA PostedKept ==
    ASSUME ValidateInv, [ValidateNext]_validateVars PROVE PostedInv'
<1>1. ASSUME NEW m \in In(transit') PROVE Posted(m)' /\ Fresh(m)
  <2>1. CASE m \in In(transit)
    <3>1. m \in Messages /\ Posted(m) /\ Fresh(m)
      BY <2>1, MessagesType DEF ValidateInv, PostedInv
    <3> QED
      BY <3>1, PostedGrows
  <2>2. CASE m \notin In(transit)
    BY <2>2, TransitMoves
  <2> QED
    BY <2>1, <2>2
<1>2. ASSUME NEW q \in QueueNames, NEW m \in In(queue'[q]) PROVE Posted(m)'
  <2>1. m \in In(queue[q]) \/ m \in In(transit)
    BY QueueMoves
  <2>2. m \in Messages /\ Posted(m)
    BY <2>1, MessagesType DEF ValidateInv, PostedInv
  <2> QED
    BY <2>2, PostedGrows
<1> QED
  BY <1>1, <1>2 DEF PostedInv, Posted, In, Fresh

LEMMA FoundKept ==
    ASSUME ValidateInv, [ValidateNext]_validateVars PROVE FoundInv'
<1>0. /\ check \in DOMAIN Checks /\ Checks[check].queue \in QueueNames
      /\ queue \in [QueueNames -> Seq(Messages)] /\ NoMessage \notin Messages
      /\ taken \in [DOMAIN Checks -> Messages \cup {NoMessage}]
      /\ ahead \in [DOMAIN Checks -> Messages \cup {NoMessage}]
  BY NumbersType DEF ValidateInv, ValidateTypeOK
<1> DEFINE here == Checks[check].queue
           Told(i) == taken[i] # NoMessage =>
                         IF ahead[i] = NoMessage THEN Fresh(taken[i]) ELSE taken[i] = ahead[i]
<1>1. \A i \in DOMAIN Checks : Told(i)
  BY DEF ValidateInv, FoundInv
<1>2. CASE PostAccepted
  <2>1. /\ at = "post" /\ at' = "consume" /\ UNCHANGED <<check, taken, queue>>
        /\ ahead' = [ahead EXCEPT ![check] = IF queue[here] = << >> THEN NoMessage
                                              ELSE Head(queue[here])]
    BY <1>2 DEF PostAccepted
  <2>2. taken[check] = NoMessage
    <3>1. check > Done
      BY <2>1, NumbersType DEF Done
    <3> QED
      BY <1>0, <2>1, <3>1 DEF ValidateInv, PassedInv
  <2>3. \A i \in DOMAIN Checks : Told(i)'
    BY <1>0, <1>1, <2>1, <2>2
  <2>4. CASE queue[here] = << >>
    <3>1. ahead'[check] = NoMessage /\ In(queue[here]) = {}
      BY <1>0, <2>1, <2>4 DEF In
    <3> QED
      BY <2>1, <2>3, <3>1 DEF FoundInv
  <2>5. CASE queue[here] # << >>
    <3>1. ahead'[check] = Head(queue[here]) /\ Head(queue[here]) \in Messages
      BY <1>0, <2>1, <2>5, MessagesType
    <3> QED
      BY <1>0, <2>1, <2>3, <2>5, <3>1 DEF FoundInv
  <2> QED
    BY <2>4, <2>5
<1>3. CASE Takes
  <2>1. /\ at = "consume" /\ NextCheck /\ queue[here] # << >> /\ UNCHANGED ahead
        /\ taken' = [taken EXCEPT ![check] = Head(queue[here])]
    BY <1>3 DEF Takes
  <2>2. at' # "consume"
    BY <2>1, NextCheckIs
  <2>3. IF ahead[check] = NoMessage THEN Fresh(Head(queue[here]))
        ELSE Head(queue[here]) = ahead[check]
    BY <1>0, <2>1, MessagesType DEF ValidateInv, FoundInv
  <2>4. \A i \in DOMAIN Checks : Told(i)'
    BY <1>0, <1>1, <2>1, <2>3
  <2> QED
    BY <2>2, <2>4 DEF FoundInv
(* Of the other steps, only the bridge touches the queue, and puts what it *)
(* publishes behind what is there.                                         *)
<1>4. ASSUME UNCHANGED <<ahead, taken>>,
             at' = "consume" => at = "consume" /\ UNCHANGED <<check, queue>>
      PROVE  FoundInv'
  <2>1. \A i \in DOMAIN Checks : Told(i)'
    BY <1>1, <1>4
  <2>2. CASE at' = "consume"
    BY <1>4, <2>1, <2>2 DEF ValidateInv, FoundInv
  <2>3. CASE at' # "consume"
    BY <2>1, <2>3 DEF FoundInv
  <2> QED
    BY <2>2, <2>3
<1>5. CASE BridgePublishes
  <2> DEFINE m == Head(transit)
  <2>1. m \in Messages /\ Fresh(m)
    BY <1>5, MessagesType DEF BridgePublishes, ValidateInv, PostedInv
  <2>2. queue'[here] = queue[here] \/ queue'[here] = Append(queue[here], m)
    BY <1>0, <1>5 DEF BridgePublishes
  <2>0. UNCHANGED <<at, check, ahead, taken>>
    BY <1>5 DEF BridgePublishes, scriptVars
  <2>4. \A i \in DOMAIN Checks : Told(i)'
    BY <1>1, <2>0 DEF Fresh
  <2> HIDE DEF m
  <2>3. /\ In(queue'[here]) \subseteq In(queue[here]) \cup {m}
        /\ queue[here] # << >> =>
              queue'[here] # << >> /\ Head(queue'[here]) = Head(queue[here])
    <3>1. /\ In(Append(queue[here], m)) = In(queue[here]) \cup {m}
          /\ Append(queue[here], m) # << >>
          /\ queue[here] # << >> => Head(Append(queue[here], m)) = Head(queue[here])
      BY <1>0, <2>1, InAppend
    <3> QED
      BY <2>2, <3>1
  <2> QED
    BY <2>0, <2>1, <2>3, <2>4 DEF ValidateInv, FoundInv
<1>6. CASE PostNotAccepted \/ TimesOut
  <2>1. NextCheck /\ UNCHANGED <<ahead, taken>>
    BY <1>6 DEF PostNotAccepted, TimesOut, NoneComes
  <2>2. at' # "consume"
    BY <2>1, NextCheckIs
  <2> QED
    BY <1>4, <2>1, <2>2
<1>7. CASE Begins \/ OwnRunEnds \/ Connects \/ Closes \/ Raises \/ QueueMissing
  <2>1. at' # "consume" /\ UNCHANGED <<ahead, taken>>
    BY <1>7 DEF Begins, OwnRunEnds, Connects, Closes, Raises, QueueMissing, Exit
  <2> QED
    BY <1>4, <2>1
<1>8. CASE \/ SenderPosts \/ BridgeLoses \/ UNCHANGED validateVars
           \/ \E r \in Runs : ProvisioningStep(r) \/ ProvisioningKilled(r)
  <2>1. UNCHANGED <<scriptVars, queue>>
    BY <1>8 DEF SenderPosts, BridgeLoses, ProvisioningStep, ProvisioningKilled, validateVars
  <2> QED
    BY <1>4, <2>1 DEF scriptVars
<1> QED
  BY <1>2, <1>3, <1>5, <1>6, <1>7, <1>8 DEF ValidateNext, ScriptStep, BridgeStep

LEMMA OwnKept ==
    ASSUME ValidateInv, [ValidateNext]_validateVars PROVE OwnInv'
<1>0. /\ Own \in Runs /\ phase \in [Runs -> Phases]
      /\ check \in {1, 2, 3, 4, 5} /\ Len(Checks) = 5 /\ at \in Ats
  BY ValidateAssumption, NumbersType DEF ValidateInv, ValidateTypeOK, TypeOK
<1>1. CASE \E r \in Runs : ProvisioningStep(r) \/ ProvisioningKilled(r)
  <2>1. UNCHANGED scriptVars
    BY <1>1 DEF ProvisioningStep, ProvisioningKilled
  <2>2. at # "provision" => phase'[Own] = phase[Own]
    BY <1>1, OwnPhase DEF ProvisioningStep, ProvisioningKilled
  <2> QED
    BY <2>1, <2>2 DEF ValidateInv, OwnInv, scriptVars
<1>2. CASE Begins
  <2>1. CASE Launch(Own) /\ at' = "provision"
    BY <1>2, <2>1 DEF Begins, ValidateInv, OwnInv
  <2>2. CASE UNCHANGED provisioningVars /\ at' = "connect"
    BY <1>2, <2>2 DEF Begins, provisioningVars, vars, ValidateInv, OwnInv
  <2> QED
    BY <1>2, <2>1, <2>2 DEF Begins
<1>3. CASE OwnRunEnds
  BY <1>3 DEF OwnRunEnds, Exit, provisioningVars, vars, ValidateInv, OwnInv
<1>4. CASE PostNotAccepted \/ Takes \/ TimesOut
  <2>1. /\ NextCheck /\ phase' = phase /\ status' = status
        /\ at \in {"post", "consume"}
    BY <1>4 DEF PostNotAccepted, Takes, TimesOut, NoneComes, provisioningVars, brokerVars, vars
  <2>2. at' \in {"post", "close"} /\ (at' = "close" => check' = 5)
    BY <2>1, NextCheckIs
  <2> QED
    BY <1>0, <2>1, <2>2 DEF ValidateInv, OwnInv
<1>5. CASE Connects \/ PostAccepted \/ Closes \/ QueueMissing
  BY <1>5 DEF Connects, PostAccepted, Closes, QueueMissing, Exit, provisioningVars, vars,
     ValidateInv, OwnInv
<1>6. CASE Raises
  BY <1>6 DEF Raises, Exit, brokerVars, ValidateInv, OwnInv
<1>7. CASE SenderPosts \/ BridgeStep \/ UNCHANGED validateVars
  <2>1. UNCHANGED <<scriptVars, phase>>
    BY <1>7 DEF SenderPosts, BridgeStep, BridgePublishes, BridgeLoses, validateVars,
       provisioningVars, brokerVars, vars
  <2> QED
    BY <2>1 DEF scriptVars, ValidateInv, OwnInv
<1> QED
  BY <1>1, <1>2, <1>3, <1>4, <1>5, <1>6, <1>7 DEF ValidateNext, ScriptStep

LEMMA PassedKept ==
    ASSUME ValidateInv, [ValidateNext]_validateVars PROVE PassedInv'
<1>0. /\ check \in {1, 2, 3, 4, 5} /\ passed \in 0..5 /\ Len(Checks) = 5
      /\ DOMAIN Checks = {1, 2, 3, 4, 5} /\ taken \in [DOMAIN Checks -> Messages \cup {NoMessage}]
      /\ NoMessage \notin Messages
  BY NumbersType DEF ValidateInv, ValidateTypeOK
(* A check that is not the last leaves one check more behind. *)
<1>1. ASSUME NextCheck, at \in {"post", "consume"}
      PROVE  Done = check - 1 /\ Done' = check /\ at' # "exited"
  BY <1>0, <1>1, NextCheckIs DEF Done
<1>2. CASE PostNotAccepted \/ TimesOut
  <2>1. /\ NextCheck /\ at \in {"post", "consume"} /\ UNCHANGED <<passed, status, taken>>
    BY <1>2 DEF PostNotAccepted, TimesOut, NoneComes
  <2>2. Done = check - 1 /\ Done' = check /\ at' # "exited"
    BY <1>1, <2>1
  <2>3. passed <= check - 1 /\ \A i \in DOMAIN Checks : i > check - 1 => taken[i] = NoMessage
    BY <2>1, <2>2 DEF ValidateInv, PassedInv
  <2>4. passed <= check /\ passed # check /\ \A i \in DOMAIN Checks : i > check => i > check - 1
    BY <1>0, <2>3
  <2>5. status # 0
    BY <2>1 DEF ValidateInv, OwnInv, None
  <2> QED
    BY <2>1, <2>2, <2>3, <2>4, <2>5 DEF PassedInv
<1>3. CASE Takes
  <2> DEFINE m == Head(queue[Checks[check].queue])
  <2>1. /\ NextCheck /\ at = "consume" /\ status' = status
        /\ passed' = IF IsEnvelope(m) THEN passed + 1 ELSE passed
        /\ taken' = [taken EXCEPT ![check] = m]
    BY <1>3 DEF Takes
  <2>2. Done = check - 1 /\ Done' = check /\ at' # "exited"
    BY <1>1, <2>1
  <2>3. m \in Messages
    BY <1>3, NumbersType, MessagesType DEF Takes
  <2> HIDE DEF m
  <2>4. taken'[check] = m /\ \A i \in DOMAIN Checks : i # check => taken'[i] = taken[i]
    BY <1>0, <2>1
  <2>5. /\ passed <= check - 1
        /\ passed = check - 1 => \A i \in 1..(check - 1) : TookEnvelope(i)
        /\ \A i \in DOMAIN Checks : i > check - 1 => taken[i] = NoMessage
    BY <2>1, <2>2 DEF ValidateInv, PassedInv
  <2>6. passed' <= check /\ (passed' = check => passed = check - 1 /\ IsEnvelope(m))
    BY <1>0, <2>1, <2>5
  <2>7. ASSUME passed' = check, NEW i \in 1..check PROVE TookEnvelope(i)'
    <3>1. i = check \/ (i \in 1..(check - 1) /\ i # check)
      BY <1>0
    <3>2. i \in DOMAIN Checks
      BY <1>0
    <3> QED
      BY <1>0, <2>3, <2>4, <2>5, <2>6, <2>7, <3>1, <3>2 DEF TookEnvelope
  <2>8. ASSUME NEW i \in DOMAIN Checks, i > check PROVE taken'[i] = NoMessage
    <3>1. i > check - 1 /\ i # check
      BY <1>0, <2>8
    <3> QED
      BY <2>4, <2>5, <3>1
  <2>9. status' # 0
    BY <2>1 DEF ValidateInv, OwnInv, None
  <2> QED
    BY <2>2, <2>6, <2>7, <2>8, <2>9 DEF PassedInv
<1>4. CASE Closes
  <2>1. /\ at = "close" /\ at' = "exited" /\ UNCHANGED <<passed, taken>>
        /\ status' = IF passed = Len(Checks) THEN 0 ELSE 1
    BY <1>4 DEF Closes, Exit
  <2>2. passed = 5 => \A i \in DOMAIN Checks : TookEnvelope(i)
    <3>1. Done = 5 /\ \A i \in DOMAIN Checks : i \in 1..5
      BY <1>0, <2>1 DEF Done
    <3> QED
      BY <2>1, <3>1 DEF ValidateInv, PassedInv
  <2> QED
    BY <1>0, <2>1, <2>2 DEF PassedInv, TookEnvelope
<1>5. CASE Raises \/ QueueMissing
  <2>1. at' = "exited" /\ status' = 1
    BY <1>5 DEF Raises, QueueMissing, Exit
  <2> QED
    BY <2>1 DEF PassedInv
<1>6. CASE OwnRunEnds
  <2>1. CASE at' = "exited"
    BY <1>6, <2>1 DEF OwnRunEnds, Exit, PassedInv, ValidateInv, OwnInv, None
  <2>2. CASE at' = "connect"
    <3>1. Done' = Done
      BY <1>6, <2>2 DEF OwnRunEnds, Done
    <3> QED
      BY <1>6, <2>2, <3>1 DEF OwnRunEnds, Exit, PassedInv, ValidateInv, TookEnvelope
  <2> QED
    BY <1>6, <2>1, <2>2 DEF OwnRunEnds, Exit
<1>7. CASE Begins \/ Connects \/ PostAccepted
  <2>1. /\ UNCHANGED <<check, passed, status, taken>>
        /\ at \notin {"close", "exited"} /\ at' \notin {"close", "exited"}
    BY <1>7 DEF Begins, Connects, PostAccepted
  <2>2. Done' = Done
    BY <2>1 DEF Done
  <2> QED
    BY <2>1, <2>2 DEF PassedInv, ValidateInv, TookEnvelope
<1>8. CASE \/ SenderPosts \/ BridgeStep \/ UNCHANGED validateVars
           \/ \E r \in Runs : ProvisioningStep(r) \/ ProvisioningKilled(r)
  <2>1. UNCHANGED scriptVars
    BY <1>8 DEF SenderPosts, BridgeStep, BridgePublishes, BridgeLoses, validateVars,
       ProvisioningStep, ProvisioningKilled
  <2> QED
    BY <2>1 DEF scriptVars, ValidateInv, PassedInv, Done, TookEnvelope
<1> QED
  BY <1>2, <1>3, <1>4, <1>5, <1>6, <1>7, <1>8 DEF ValidateNext, ScriptStep

LEMMA AuditThere ==
    ASSUME ProvisioningInv, phase[Own] = "succeeded"
    PROVE  Subscription(Audit, AllTopic) \in objects
  BY PastTheEnd, SubscriptionsAre, ValidateAssumption DEF SuccessMeansProvisioned

(* The script's own run succeeds while nothing of the checks is under way. *)
LEMMA OwnSucceeds ==
    ASSUME ValidateInv, [ValidateNext]_validateVars, phase'[Own] = "succeeded"
    PROVE  \/ phase[Own] = "succeeded"
           \/ at = "provision" /\ UNCHANGED <<scriptVars, queue>>
<1>1. CASE \E r \in Runs : ProvisioningStep(r) \/ ProvisioningKilled(r)
  BY <1>1, OwnPhase DEF ProvisioningStep, ProvisioningKilled
<1>2. CASE Begins
  <2>1. CASE Launch(Own)
    <3>1. phase'[Own] = "get"
      BY <2>1, ValidateAssumption DEF Launch, ValidateInv, ValidateTypeOK, TypeOK
    <3> QED
      BY <3>1
  <2>2. CASE UNCHANGED provisioningVars
    BY <2>2 DEF provisioningVars, vars
  <2> QED
    BY <1>2, <2>1, <2>2 DEF Begins
<1>3. CASE phase' = phase
  BY <1>3
<1> QED
  BY <1>1, <1>2, <1>3 DEF ValidateNext, ScriptStep, BridgeStep, OwnRunEnds, Connects,
     PostAccepted, PostNotAccepted, Takes, TimesOut, NoneComes, Closes, Raises, QueueMissing,
     SenderPosts, BridgePublishes, BridgeLoses, validateVars, provisioningVars, brokerVars, vars

(* Where the event of an early check waits, the audit queue has something. *)
AuditFilled ==
    \A i \in 1..4 :
        check <= 4 /\ EventOf(i) \in In(queue[Checks[i].queue]) => queue[Audit] # << >>

AuditAhead ==
    GotItsOwn /\ taken[5] = NoMessage => queue[Audit] # << >> /\ Head(queue[Audit]) # EventOf(5)

LEMMA AuditKept ==
    ASSUME ValidateInv, [ValidateNext]_validateVars PROVE AuditInv'
<1> SUFFICES ASSUME phase'[Own] = "succeeded"
             PROVE  AuditFilled' /\ AuditAhead' /\ (GotItsOwn' => taken'[5] # EventOf(5))
  BY DEF AuditInv, AuditFilled, AuditAhead, EventOf
<1>0. /\ check \in {1, 2, 3, 4, 5} /\ DOMAIN Checks = {1, 2, 3, 4, 5}
      /\ taken \in [DOMAIN Checks -> Messages \cup {NoMessage}] /\ NoMessage \notin Messages
      /\ queue \in [QueueNames -> Seq(Messages)] /\ Audit \in QueueNames
      /\ \A i \in 1..5 : EventOf(i) \in Messages /\ EventOf(i).from = "check"
      /\ \A i \in 1..4 : i \in DOMAIN Checks /\ Checks[i].queue \in QueueNames
                          /\ Checks[i].queue # Audit
  <2>1. \A i \in 1..4 : i \in DOMAIN Checks /\ i # 5
    BY ChecksAre
  <2> QED
    BY <2>1, NumbersType, QueueNamesAre, CheckQueues, MessagesAre DEF ValidateInv, ValidateTypeOK
<1>1. CASE at = "provision" /\ UNCHANGED <<scriptVars, queue>>
  <2>1. check = 1 /\ Done = 0
    BY <1>1 DEF ValidateInv, OwnInv, Done
  <2>2. \A i \in DOMAIN Checks : taken[i] = NoMessage
    BY <1>0, <1>1, <2>1 DEF ValidateInv, PassedInv
  <2>3. \A i \in 1..4 : EventOf(i) \notin In(queue[Checks[i].queue])
    BY <1>0, <1>1 DEF ValidateInv, PostedInv, Posted
  <2>4. ~GotItsOwn
    BY <1>0, <2>2 DEF GotItsOwn
  <2> QED
    BY <1>1, <2>3, <2>4 DEF scriptVars, AuditFilled, AuditAhead, GotItsOwn, EventOf
<1>2. ASSUME phase[Own] = "succeeded"
      PROVE  AuditFilled /\ AuditAhead /\ (GotItsOwn => taken[5] # EventOf(5))
  BY <1>2 DEF ValidateInv, AuditInv, AuditFilled, AuditAhead
<1>3. CASE phase[Own] = "succeeded" /\ Takes
  <2> DEFINE here == Checks[check].queue
             m == Head(queue[here])
  <2>1. /\ NextCheck /\ at = "consume" /\ queue[here] # << >>
        /\ queue' = [queue EXCEPT ![here] = Tail(@)]
        /\ taken' = [taken EXCEPT ![check] = m]
    BY <1>3 DEF Takes
  <2>2. check' \in {1, 2, 3, 4, 5} /\ check <= check' /\ (check' <= 4 => check <= 4)
    BY <1>0, <2>1, NextCheckIs
  <2>3. \A i \in DOMAIN Checks : i > check - 1 => taken[i] = NoMessage
    BY <2>1 DEF ValidateInv, PassedInv, Done
  <2>4. m \in In(queue[here]) /\ m \in Messages /\ In(Tail(queue[here])) \subseteq In(queue[here])
    BY <2>1, NumbersType, MessagesType
  <2>5. CASE check = 5
    <3>1. here = Audit
      BY <2>5, ChecksAre
    <3>2. taken'[5] = m /\ m = Head(queue[Audit]) /\ \A i \in 1..4 : taken'[i] = taken[i]
      BY <1>0, <2>1, <2>5, <3>1
    <3>3. taken[5] = NoMessage /\ ~(check' <= 4)
      BY <1>0, <2>2, <2>3, <2>5
    <3>4. GotItsOwn' = GotItsOwn
      BY <3>2 DEF GotItsOwn, EventOf
    <3>5. AuditFilled' /\ AuditAhead'
      BY <1>0, <2>4, <3>2, <3>3 DEF AuditFilled, AuditAhead
    <3>6. GotItsOwn => taken'[5] # EventOf(5)
      BY <1>2, <1>3, <3>2, <3>3 DEF AuditAhead
    <3> QED
      BY <3>4, <3>5, <3>6
  <2>6. CASE check # 5
    <3>1. check \in 1..4 /\ here # Audit /\ here \in QueueNames
      BY <1>0, <2>6
    <3>2. queue'[Audit] = queue[Audit] /\ taken'[5] = taken[5] /\ taken[5] = NoMessage
      BY <1>0, <2>1, <2>3, <2>6, <3>1
    <3>3. \A i \in 1..4 : In(queue'[Checks[i].queue]) \subseteq In(queue[Checks[i].queue])
      BY <1>0, <2>1, <2>4, <3>1
    <3>4. AuditFilled'
      BY <1>2, <1>3, <2>2, <3>2, <3>3 DEF AuditFilled, EventOf, In
    <3>5. ASSUME GotItsOwn' PROVE queue[Audit] # << >> /\ Head(queue[Audit]) # EventOf(5)
      <4>1. CASE GotItsOwn
        BY <1>2, <1>3, <3>2, <4>1 DEF AuditAhead
      <4>2. CASE ~GotItsOwn
        <5>1. PICK i \in 1..4 : taken'[i] = EventOf(i)
          BY <3>5 DEF GotItsOwn, EventOf
        <5>2. i = check /\ m = EventOf(check)
          BY <1>0, <2>1, <4>2, <5>1 DEF GotItsOwn
        <5>3. queue[Audit] # << >>
          BY <1>2, <1>3, <2>4, <3>1, <5>2 DEF AuditFilled
        <5>4. Posted(Head(queue[Audit]))
          BY <1>0, <5>3, MessagesType DEF ValidateInv, PostedInv
        <5>5. \A j \in 1..check : EventOf(5) # EventOf(j)
          <6>1. \A j \in 1..check : j \in 1..5 /\ j # 5
            BY <3>1
          <6> QED
            BY <6>1, MessagesAre
        <5> QED
          BY <1>0, <5>3, <5>4, <5>5 DEF Posted
      <4> QED
        BY <4>1, <4>2
    <3> QED
      BY <1>0, <3>2, <3>4, <3>5 DEF AuditAhead, EventOf
  <2> QED
    BY <2>5, <2>6
<1>4. CASE phase[Own] = "succeeded" /\ BridgePublishes
  <2> DEFINE m == Head(transit)
  <2>1. Audit \in Reached(m.type)
    <3>1. Subscription(Audit, AllTopic) \in objects
      BY <1>4, AuditThere DEF ValidateInv
    <3>2. Matches(AllTopic, GetTopic(m.type, AccountId))
      BY AuditMatches
    <3>3. /\ Subscription(Audit, AllTopic).kind = "subscription"
          /\ Subscription(Audit, AllTopic).of = Audit
          /\ Subscription(Audit, AllTopic).topic = AllTopic
      BY DEF Subscription
    <3> QED
      BY <3>1, <3>2, <3>3 DEF Reached
  <2>2. queue'[Audit] = Append(queue[Audit], m)
    BY <1>0, <1>4, <2>1 DEF BridgePublishes
  <2>3. m \in Messages
    BY <1>4, MessagesType DEF BridgePublishes
  <2> HIDE DEF m
  <2>4. queue'[Audit] # << >> /\ (queue[Audit] # << >> => Head(queue'[Audit]) = Head(queue[Audit]))
    BY <1>0, <2>2, <2>3, InAppend
  <2>5. taken' = taken
    BY <1>4 DEF BridgePublishes, scriptVars
  <2> QED
    BY <1>2, <1>4, <2>4, <2>5 DEF AuditFilled, AuditAhead, GotItsOwn, EventOf
<1>5. CASE phase[Own] = "succeeded" /\ ~(Takes \/ BridgePublishes)
  <2>1. queue' = queue /\ taken' = taken
    BY <1>5 DEF ValidateNext, ScriptStep, BridgeStep, Begins, OwnRunEnds, Connects, PostAccepted,
       PostNotAccepted, TimesOut, NoneComes, Closes, Raises, QueueMissing, SenderPosts,
       BridgeLoses, ProvisioningStep, ProvisioningKilled, validateVars, scriptVars
  <2>2. check' <= 4 => check <= 4
    <3>1. CASE NextCheck
      BY <1>0, <3>1, NextCheckIs
    <3>2. CASE check' = check
      BY <3>2
    <3> QED
      BY <1>5, <3>1, <3>2 DEF ValidateNext, ScriptStep, BridgeStep, Begins, OwnRunEnds, Connects,
         PostAccepted, PostNotAccepted, TimesOut, NoneComes, Closes, Raises, QueueMissing,
         SenderPosts, BridgeLoses, ProvisioningStep, ProvisioningKilled, validateVars, scriptVars
  <2> QED
    BY <1>2, <1>5, <2>1, <2>2 DEF AuditFilled, AuditAhead, GotItsOwn, EventOf
<1> QED
  BY <1>1, <1>3, <1>4, <1>5, OwnSucceeds

(* The messages that were there before the script. *)
LEMMA LeftBehind ==
    ASSUME ValidateInit, NEW q \in QueueNames
    PROVE  /\ queue[q] \in Seq(Messages)
           /\ \A m \in In(queue[q]) : m \in LeftOvers /\ Wired(m, q)
<1>1. queue[q] \in BoundedSeq(LeftOvers, MaxLeft)
  BY DEF ValidateInit
<1>2. queue[q] \in Seq(LeftOvers)
  BY <1>1 DEF BoundedSeq, SeqOf
<1>3. In(queue[q]) = ToSet(queue[q])
  BY <1>2, LenProperties DEF In, ToSet
<1>4. In(queue[q]) \subseteq LeftOvers
  BY <1>2, InType
<1>5. queue[q] \in Seq(Messages)
  BY <1>2, MessagesAre
<1> QED
  BY <1>3, <1>4, <1>5 DEF ValidateInit, Wired

LEMMA ValidateInvInit ==
    ASSUME ValidateInit PROVE ValidateInv
<1>1. ProvisioningInv
  BY ProvisioningInvInit DEF ValidateInit
<1>2. /\ at = "new" /\ check = 1 /\ passed = 0 /\ status = None /\ sent = 0
      /\ transit = << >>
      /\ \A i \in DOMAIN Checks : taken[i] = NoMessage
      /\ phase[Own] = "idle"
  BY ValidateAssumption DEF ValidateInit, Init
<1>3. ValidateTypeOK
  <2>1. TypeOK
    BY <1>1 DEF ProvisioningInv
  <2>2. 1 \in DOMAIN Checks /\ 0 \in 0..Len(Checks)
    BY ChecksAre
  <2>3. queue \in [QueueNames -> Seq(Messages)]
    BY LeftBehind DEF ValidateInit
  <2>4. transit \in Seq(Messages)
    BY <1>2
  <2>5. /\ ahead \in [DOMAIN Checks -> Messages \cup {NoMessage}]
        /\ taken \in [DOMAIN Checks -> Messages \cup {NoMessage}]
    BY DEF ValidateInit
  <2> QED
    BY <1>2, <2>1, <2>2, <2>3, <2>4, <2>5 DEF ValidateTypeOK, Ats
<1>4. In(<< >>) = {}
  BY DEF In
<1>5. PassedInv
  <2>1. Done = 0
    BY <1>2 DEF Done
  <2> QED
    BY <1>2, <2>1 DEF PassedInv, None
<1>6. OwnInv
  BY <1>2 DEF OwnInv
<1>7. PostedInv
  BY <1>2, <1>4, LeftBehind, MessagesAre DEF PostedInv, Posted
<1>8. WiredInv
  BY <1>2, LeftBehind DEF WiredInv
<1>9. AuditInv
  BY <1>2 DEF AuditInv
<1>10. FoundInv
  BY <1>2 DEF FoundInv
<1> QED
  BY <1>1, <1>3, <1>5, <1>6, <1>7, <1>8, <1>9, <1>10 DEF ValidateInv

LEMMA ValidateInvariant == ValidateSpec => []ValidateInv
<1>1. ValidateInit => ValidateInv
  BY ValidateInvInit
<1>2. ValidateInv /\ [ValidateNext]_validateVars => ValidateInv'
  <2> SUFFICES ASSUME ValidateInv, [ValidateNext]_validateVars PROVE ValidateInv'
    OBVIOUS
  <2>1. ProvisioningInv'
    BY ProvisioningKept DEF ValidateInv
  <2> QED
    BY <2>1, TypesKept, OwnKept, PassedKept, PostedKept, WiredKept, FoundKept, AuditKept
       DEF ValidateInv
<1> QED
  BY <1>1, <1>2, PTL DEF ValidateSpec

-----------------------------------------------------------------------------
(* Theorems *)

(* Every variable keeps its type, the broker's among them: the script is   *)
(* never past its last check, and no more checks pass than there are.      *)
THEOREM ValidateTypeCorrect == ValidateSpec => []ValidateTypeOK
<1>1. ValidateInv => ValidateTypeOK
  BY DEF ValidateInv
<1> QED
  BY <1>1, ValidateInvariant, PTL

(* A provisioning run beside the script, or started by it, that exits with *)
(* status 0 leaves everything in place, whatever the script does meanwhile. *)
THEOREM ValidateProvisions == ValidateSpec => []SuccessMeansProvisioned
<1>1. ValidateInv => SuccessMeansProvisioned
  BY PastTheEnd DEF ValidateInv
<1> QED
  BY <1>1, ValidateInvariant, PTL

(* Nor does the script's own run ask for an object before its parent.      *)
THEOREM ValidateParentsFirst == ValidateSpec => []ParentsComeFirst
<1>1. ValidateInv => ParentsComeFirst
  BY DEF ValidateInv, ProvisioningInv
<1> QED
  BY <1>1, ValidateInvariant, PTL

(* An exit of a provisioning run with status 1 is still a fault of its own *)
(* or a lost race for an object, also with a validation beside it.         *)
THEOREM ValidateFailuresExplained == ValidateSpec => []FailuresAreExplained
<1>1. ValidateInv => FailuresAreExplained
  BY FailuresFollow DEF ValidateInv
<1> QED
  BY <1>1, ValidateInvariant, PTL

(* What exit status 0 says of the events of the checks, with any messages  *)
(* left on the queues, any traffic beside it and any losses: each check    *)
(* took an envelope, the one it found on its queue if there was one, its   *)
(* own event or one of the demo sender if there was none.  The first four  *)
(* never took each other's.  The fifth did not take its own when the       *)
(* script has provisioned the broker and one of the four did.              *)
THEOREM PassDelivers == ValidateSpec => []PassMeansDelivered
<1>1. ValidateInv => PassMeansDelivered
  <2> SUFFICES ASSUME ValidateInv, status = 0 PROVE PassMeansDelivered
    BY DEF PassMeansDelivered
  <2>1. \A i \in DOMAIN Checks : taken[i] # NoMessage /\ IsEnvelope(taken[i])
    BY DEF ValidateInv, PassedInv, TookEnvelope
  <2>2. ASSUME NEW i \in DOMAIN Checks
        PROVE  /\ ahead[i] # NoMessage => taken[i] = ahead[i]
               /\ ahead[i] = NoMessage => taken[i].from \in {"check", "sender"}
    BY <2>1 DEF ValidateInv, FoundInv, Fresh
  <2>3. ASSUME NEW i \in 1..4, taken[i].from = "check" PROVE taken[i] = EventOf(i)
    <3>1. i \in DOMAIN Checks
      BY ChecksAre
    <3>2. taken[i] \in Messages /\ Wired(taken[i], Checks[i].queue)
      BY <2>1, <3>1 DEF ValidateInv, ValidateTypeOK, WiredInv
    <3>3. PICK j \in 1..5 : taken[i] = EventOf(j)
      BY <2>3, <3>2, MessagesAre
    <3> QED
      BY <3>2, <3>3, WiredTells DEF ValidateInv
  <2>4. phase[Own] = "succeeded" /\ GotItsOwn => taken[5] # EventOf(5)
    BY DEF ValidateInv, AuditInv
  <2> QED
    BY <2>1, <2>2, <2>3, <2>4 DEF PassMeansDelivered, GotItsOwn
<1> QED
  BY <1>1, ValidateInvariant, PTL

(* Exit status 0 means that the queue of each check has a subscription     *)
(* that matches its event, by whichever run it has been put there.         *)
THEOREM PassIsWired == ValidateSpec => []PassMeansWired
<1>1. ValidateInv => PassMeansWired
  <2> SUFFICES ASSUME ValidateInv, status = 0, NEW i \in DOMAIN Checks
               PROVE  \E o \in objects :
                         /\ o.kind = "subscription" /\ o.of = Checks[i].queue
                         /\ Matches(o.topic, GetTopic(Checks[i].type, AccountId))
    BY DEF PassMeansWired
  <2>1. Wired(taken[i], Checks[i].queue)
    BY DEF ValidateInv, PassedInv, TookEnvelope, WiredInv
  <2>2. PICK o \in objects : o.kind = "subscription" /\ o.of = Checks[i].queue
    BY <2>1 DEF Wired, Reached
  <2>3. o \in Objects /\ i \in 1..5
    BY ChecksAre DEF ValidateInv, ValidateTypeOK, TypeOK
  <2> QED
    BY <2>2, <2>3, QueueSubscriptions
<1> QED
  BY <1>1, ValidateInvariant, PTL

=============================================================================
