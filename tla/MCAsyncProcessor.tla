-------------------------- MODULE MCAsyncProcessor --------------------------
(* Instances of AsyncProcessor for TLC. *)
EXTENDS AsyncProcessor, TLC

(* Replicas only differ by name; sound where no liveness is checked. *)
ReplicaSymmetry == Permutations(Replicas)
=============================================================================
