------------------------------- MODULE Routing -------------------------------
(***************************************************************************)
(* What becomes of an event's type: EventRouter.get_topic picks the topic, *)
(* AsyncProcessor._resolve_handler the handler, and the subscriptions of   *)
(* the broker the queues.  Three tables in three files that have to agree. *)
(* The handler then has to make a message of the payload.                  *)
(*                                                                         *)
(* An event type is the sequence of its words.  Every prefix of the code's *)
(* handler map ends with a dot, so startswith() compares whole words and   *)
(* asks for one word more.                                                 *)
(***************************************************************************)
EXTENDS EventRouter, EventHandlers

CONSTANTS
    Words,              \* words of event types
    MaxWords,           \* bound: words of an event type
    Accounts,           \* Stripe accounts; get_topic never sees an empty one
    OddTypes            \* bound: event types with payloads of every shape

ASSUME RoutingAssumption == MaxWords \in Nat

Types == UNION {[1..n -> Words] : n \in 1..MaxWords}

-----------------------------------------------------------------------------
(* AsyncProcessor._handler_map, _resolve_handler *)

Row(prefix, handler) == [prefix |-> prefix, handler |-> handler]

WrongHandlerMap ==              \* seeded fault: sorted by name
    << Row(<<"charge">>, "ChargeHandler"),
       Row(<<"charge", "dispute">>, "DisputeHandler"),
       Row(<<"checkout", "session">>, "CheckoutSessionHandler"),
       Row(<<"customer">>, "CustomerHandler"),
       Row(<<"customer", "subscription">>, "SubscriptionHandler"),
       Row(<<"invoice">>, "InvoiceHandler"),
       Row(<<"payment_intent">>, "PaymentIntentHandler"),
       Row(<<"payout">>, "PayoutHandler") >>

HandlerMap ==
    << Row(<<"payment_intent">>, "PaymentIntentHandler"),
       Row(<<"customer", "subscription">>, "SubscriptionHandler"),
       Row(<<"invoice">>, "InvoiceHandler"),
       Row(<<"charge", "dispute">>, "DisputeHandler"),
       Row(<<"charge">>, "ChargeHandler"),
       Row(<<"customer">>, "CustomerHandler"),
       Row(<<"checkout", "session">>, "CheckoutSessionHandler"),
       Row(<<"payout">>, "PayoutHandler") >>

Handlers == {HandlerMap[i].handler : i \in DOMAIN HandlerMap} \cup {"BaseEventHandler"}

(* event_type.startswith(prefix) *)
StartsWith(type, prefix) ==
    Len(type) > Len(prefix) /\ SubSeq(type, 1, Len(prefix)) = prefix

MatchingRows(type) ==
    {i \in DOMAIN HandlerMap : StartsWith(type, HandlerMap[i].prefix)}

(* The first row that matches decides. *)
WrongResolveHandler(type) ==    \* seeded fault: no handler when none matches
    IF MatchingRows(type) = {} THEN "None"
    ELSE HandlerMap[CHOOSE i \in MatchingRows(type) :
                        \A j \in MatchingRows(type) : i <= j].handler

ResolveHandler(type) ==
    IF MatchingRows(type) = {} THEN "BaseEventHandler"
    ELSE HandlerMap[CHOOSE i \in MatchingRows(type) :
                        \A j \in MatchingRows(type) : i <= j].handler

-----------------------------------------------------------------------------
(* The events of a bridge, one after another *)

VARIABLES
    stage,              \* "waiting", "routed", "normalized", "failed", "published"
    type, account,      \* of the event in hand
    payload,            \* the shape of the rest of it
    topic, handler,     \* what _process_one chose for it
    queues              \* where the broker put its message

vars == <<stage, type, account, payload, topic, handler, queues>>

Init ==
    /\ stage = "waiting"
    /\ type \in Types
    /\ account \in Accounts
    /\ payload \in (IF type \in OddTypes THEN Payloads ELSE {Plain})
    /\ topic = << >>
    /\ handler = "BaseEventHandler"
    /\ queues = {}

(* The topic is chosen before the handler. *)
Route ==
    /\ stage = "waiting"
    /\ topic' = GetTopic(type, account)
    /\ stage' = "routed"
    /\ UNCHANGED <<type, account, payload, handler, queues>>

(* Either the message is made, or the event counts as a failure. *)
Normalize ==
    /\ stage = "routed"
    /\ handler' = ResolveHandler(type)
    /\ stage' = IF NormalizeRaises(handler', payload) THEN "failed" ELSE "normalized"
    /\ UNCHANGED <<type, account, payload, topic, queues>>

Publish ==
    /\ stage = "normalized"
    /\ queues' = QueuesOf(topic)
    /\ stage' = "published"
    /\ UNCHANGED <<type, account, payload, topic, handler>>

Next == Route \/ Normalize \/ Publish

Spec == Init /\ [][Next]_vars

-----------------------------------------------------------------------------
(* Properties *)

(* Every level a topic can have: no word of an unknown type gets into one. *)
TopicLevels ==
    (UNION {{s[i] : i \in DOMAIN s} :
               s \in {Root, <<"error", "unroutable">>} \cup {entry.segments : entry \in Mapping}})
      \cup Accounts

(* A topic is chosen before a message is made, and a handler always is. *)
TypeOK ==
    /\ stage \in {"waiting", "routed", "normalized", "failed", "published"}
    /\ type \in Types
    /\ account \in Accounts
    /\ payload \in Payloads
    /\ topic \in Seq(TopicLevels)
    /\ handler \in Handlers
    /\ queues \subseteq QueueNames

(* "Return best matching handler for event type": the first row that       *)
(* matches is the one with the longest prefix, for every type there is.    *)
BestHandler ==
    stage \in {"normalized", "published"} =>
        \A i \in MatchingRows(type) :
            \E j \in MatchingRows(type) :
                /\ HandlerMap[j].handler = handler
                /\ Len(HandlerMap[j].prefix) >= Len(HandlerMap[i].prefix)

(* README, "Queue Inventory": the consumers each queue is meant for. *)
QueueFor(h) ==
    CASE h = "PaymentIntentHandler" -> {"stripe.payments.inbound"}
      [] h = "SubscriptionHandler" -> {"stripe.subscriptions.inbound"}
      [] h = "InvoiceHandler" -> {"stripe.invoices.inbound"}
      [] h = "CustomerHandler" -> {"stripe.customers.inbound"}
      [] OTHER -> {}

(* Router, handlers and subscriptions agree: a supported event reaches the *)
(* audit queue and the queue for what its handler made of it; any other    *)
(* event reaches the audit queue only.  None goes to the dead message      *)
(* queue by its topic.                                                     *)
TablesAgree ==
    stage = "published" =>
        queues = {"stripe.all.inbound"}
                   \cup (IF type \in Supported THEN QueueFor(handler) ELSE {})

(* Only an event that Stripe's API does not send fails for its shape: for  *)
(* all the rest, the nine handlers together look into no field before they *)
(* know that it is there.                                                  *)
ApiEventsGetThrough == stage = "failed" => payload \notin ApiPayloads

(* A consumer can tell supported events apart by their topics, and every   *)
(* topic ends with the account.                                            *)
TopicsTellTypes ==
    stage # "waiting" =>
        /\ topic[Len(topic)] = account
        /\ \A t \in Supported : t # type => GetTopic(t, account) # topic

=============================================================================
