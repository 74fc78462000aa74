----------------------------- MODULE EventRouter -----------------------------
(***************************************************************************)
(* app/services/event_router.py: the topic of an event.  An event type is  *)
(* the sequence of its words.                                              *)
(***************************************************************************)
EXTENDS Topology

Entry(type, segments) == [type |-> type, segments |-> segments]

(* The event types of the mapping, with the middle of their topics. *)
Mapping ==
    { Entry(<<"payment_intent", "succeeded">>, <<"payment_intent", "succeeded">>),
      Entry(<<"payment_intent", "payment_failed">>, <<"payment_intent", "payment_failed">>),
      Entry(<<"customer", "subscription", "created">>, <<"subscription", "created">>),
      Entry(<<"customer", "subscription", "updated">>, <<"subscription", "updated">>),
      Entry(<<"customer", "subscription", "deleted">>, <<"subscription", "deleted">>),
      Entry(<<"invoice", "payment_succeeded">>, <<"invoice", "payment_succeeded">>),
      Entry(<<"invoice", "payment_failed">>, <<"invoice", "payment_failed">>),
      Entry(<<"invoice", "finalized">>, <<"invoice", "finalized">>),
      Entry(<<"charge", "succeeded">>, <<"charge", "succeeded">>),
      Entry(<<"charge", "failed">>, <<"charge", "failed">>),
      Entry(<<"charge", "dispute", "created">>, <<"charge", "dispute", "created">>),
      Entry(<<"customer", "created">>, <<"customer", "created">>),
      Entry(<<"customer", "deleted">>, <<"customer", "deleted">>),
      Entry(<<"checkout", "session", "completed">>, <<"checkout", "session", "completed">>),
      Entry(<<"payout", "failed">>, <<"payout", "failed">>) }

Supported == {entry.type : entry \in Mapping}

WrongMapEventType(type) ==      \* seeded fault: the type itself is the topic
    IF type \in Supported THEN type ELSE <<"error", "unroutable">>

WrongMapLastWord(type) ==       \* seeded fault: only the category and the last word
    IF type \in Supported THEN <<type[1], type[Len(type)]>> ELSE <<"error", "unroutable">>

MapEventType(type) ==
    IF type \in Supported
    THEN (CHOOSE entry \in Mapping : entry.type = type).segments
    ELSE <<"error", "unroutable">>

GetTopic(type, account) == Root \o MapEventType(type) \o <<account>>

=============================================================================
