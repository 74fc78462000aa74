------------------------------ MODULE Topology ------------------------------
(***************************************************************************)
(* The queues of the broker and the topics they subscribe to, as           *)
(* scripts/provision_solace.py declares them.  A topic is the sequence of  *)
(* its levels; the last level of a subscription may be ">".                *)
(***************************************************************************)
EXTENDS Integers, Sequences

Root == <<"stripe", "webhook", "v1">>

QueueDefinition(name, subscriptions) ==
    [name |-> name, subscriptions |-> subscriptions]

WrongQueueDefinitions ==        \* seeded fault: a subscription one level too short
    << QueueDefinition("stripe.payments.inbound", << Root \o <<"payment_intent", ">">> >>),
       QueueDefinition("stripe.subscriptions.inbound", << Root \o <<"subscription", ">">> >>),
       QueueDefinition("stripe.invoices.inbound", << Root \o <<"invoice", ">">> >>),
       QueueDefinition("stripe.customers.inbound", << Root \o <<">">> >>),
       QueueDefinition("stripe.all.inbound", << Root \o <<">">> >>),
       QueueDefinition("stripe.errors.dmq", << >>) >>

QUEUE_DEFINITIONS ==
    << QueueDefinition("stripe.payments.inbound", << Root \o <<"payment_intent", ">">> >>),
       QueueDefinition("stripe.subscriptions.inbound", << Root \o <<"subscription", ">">> >>),
       QueueDefinition("stripe.invoices.inbound", << Root \o <<"invoice", ">">> >>),
       QueueDefinition("stripe.customers.inbound", << Root \o <<"customer", ">">> >>),
       QueueDefinition("stripe.all.inbound", << Root \o <<">">> >>),
       QueueDefinition("stripe.errors.dmq", << >>) >>

QueueNames == {QUEUE_DEFINITIONS[i].name : i \in DOMAIN QUEUE_DEFINITIONS}

(* ">" stands for one level or more; the levels before it are compared. *)
Matches(subscription, topic) ==
    LET n == Len(subscription)
    IN  IF subscription[n] = ">"
        THEN /\ Len(topic) >= n
             /\ \A i \in 1..(n - 1) : topic[i] = subscription[i]
        ELSE topic = subscription

(* The queues the broker puts a message of this topic on. *)
QueuesOf(topic) ==
    {QUEUE_DEFINITIONS[i].name : i \in
        {j \in DOMAIN QUEUE_DEFINITIONS :
            \E k \in DOMAIN QUEUE_DEFINITIONS[j].subscriptions :
                Matches(QUEUE_DEFINITIONS[j].subscriptions[k], topic)}}

=============================================================================
