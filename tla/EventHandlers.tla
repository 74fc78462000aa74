---------------------------- MODULE EventHandlers ----------------------------
(***************************************************************************)
(* app/handlers: what a handler makes of a payload that is not the way it  *)
(* expects it.  Any JSON whose signature verifies gets here, so each field *)
(* the handlers look into may be absent, null, or of another type.         *)
(*                                                                         *)
(* Extracting the data of an event "raises", or gives "nothing" (an empty  *)
(* data section), or gives its "fields" (null where they are absent).      *)
(***************************************************************************)

(* The fields looked into: created, data, data.object and, in the object,  *)
(* the list of an invoice (lines), a checkout session (line_items) or a    *)
(* subscription (items), a page whose data is the list itself.             *)
Shapes == {"absent", "null", "odd", "right"}
Lists == {"absent", "null", "odd", "page", "page of null", "page of odd", "page of list"}

Payloads == [created : Shapes, data : Shapes, object : Shapes, list : Lists]

Plain == [created |-> "right", data |-> "right", object |-> "right", list |-> "absent"]

(* What Stripe's API sends: a list may be absent, null or a page. *)
ApiPayloads ==
    {[Plain EXCEPT !.list = l] : l \in {"absent", "null", "page of list"}}

(* (event.get("data", {}) or {}).get("object", {}), and the test for a     *)
(* mapping.  An odd value is a true one that has no get().                 *)
FieldsOf(p) ==
    CASE p.data = "odd" -> "raises"
      [] p.data = "right" /\ p.object \in {"null", "odd"} -> "nothing"
      [] OTHER -> "fields"

HasObject(p) == p.data = "right" /\ p.object = "right"

(* obj.get(...).get("data", []), iterated over: absent and odd lists count *)
(* as empty ones, a page of anything but a list does not.                  *)
WrongCannotIterate(p) ==        \* seeded fault: the page is not tested to be a mapping
    HasObject(p) /\ p.list \in {"null", "odd", "page of null", "page of odd"}

CannotIterate(p) == HasObject(p) /\ p.list \in {"page of null", "page of odd"}

PaymentIntentData(p) == FieldsOf(p)

CustomerData(p) == FieldsOf(p)

PayoutData(p) == FieldsOf(p)

(* outcome and evidence_details are tested to be mappings as well. *)
ChargeData(p) == FieldsOf(p)

DisputeData(p) == FieldsOf(p)

(* The items are passed on as they are. *)
SubscriptionData(p) == FieldsOf(p)

InvoiceData(p) == IF CannotIterate(p) THEN "raises" ELSE FieldsOf(p)

CheckoutSessionData(p) == IF CannotIterate(p) THEN "raises" ELSE FieldsOf(p)

ExtractData(handler, p) ==
    CASE handler = "PaymentIntentHandler" -> PaymentIntentData(p)
      [] handler = "CustomerHandler" -> CustomerData(p)
      [] handler = "PayoutHandler" -> PayoutData(p)
      [] handler = "ChargeHandler" -> ChargeData(p)
      [] handler = "DisputeHandler" -> DisputeData(p)
      [] handler = "SubscriptionHandler" -> SubscriptionData(p)
      [] handler = "InvoiceHandler" -> InvoiceData(p)
      [] handler = "CheckoutSessionHandler" -> CheckoutSessionData(p)
      [] OTHER -> "nothing"

(* normalize(): int(created), then extract_data(); the raw object is never *)
(* looked into.                                                            *)
NormalizeRaises(handler, p) ==
    p.created \in {"null", "odd"} \/ ExtractData(handler, p) = "raises"

=============================================================================
