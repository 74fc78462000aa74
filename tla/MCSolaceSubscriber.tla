------------------------- MODULE MCSolaceSubscriber -------------------------
(* Instances of SolaceSubscriber for TLC. *)
EXTENDS SolaceSubscriber

(* Calls as the validation, the tests and the consumer script make them. *)
MixedTasks == {ConsumeN(0, TRUE), ConsumeN(2, TRUE), ConsumeN(2, FALSE), Drain}

(* README: consume_queue.py --queue stripe.payments.inbound --count 10 *)
BrowseTen == {ConsumeN(10, FALSE)}
=============================================================================
