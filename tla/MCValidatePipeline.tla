-------------------------- MODULE MCValidatePipeline --------------------------
(* Instances of ValidatePipeline, and so of Provisioning, for TLC. *)
EXTENDS ValidatePipeline

(* A type that reaches the queue of the third check, and the audit queue. *)
OneType == {<<"invoice", "paid">>}
=============================================================================
