------------------------- MODULE MCSolacePublisher -------------------------
(* Instances of SolacePublisher for TLC. *)
EXTENDS SolacePublisher
=============================================================================
