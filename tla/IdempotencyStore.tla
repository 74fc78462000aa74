-------------------------- MODULE IdempotencyStore --------------------------
(***************************************************************************)
(* The two families of Redis keys behind app/services/idempotency.py:      *)
(* stripe:bridge:processing:<id>, the lock of an event being worked on,    *)
(* and stripe:bridge:processed:<id>, the record of an event that is done.  *)
(* Redis is one server shared by every replica of the bridge and runs each *)
(* command, and each MULTI block, atomically.  Every operator below is     *)
(* therefore one command: IdempotencyStore.is_duplicate is two of them and *)
(* is NOT atomic; the processor that awaits it is in between.              *)
(*                                                                         *)
(* Both keys carry a time to live (ex=ttl_seconds), so either may vanish.  *)
(***************************************************************************)

CONSTANT Events         \* event identifiers, as they appear in the keys

VARIABLES
    processing,         \* identifiers with a processing key
    processed           \* identifiers with a processed key

storeVars == <<processing, processed>>

StoreInit ==
    /\ processing = {}
    /\ processed = {}

StoreTypeOK ==
    /\ processing \subseteq Events
    /\ processed \subseteq Events

(* EXISTS processed:<e>, the first half of is_duplicate. *)
WrongIsProcessed(e) == FALSE    \* seeded fault: the record is not consulted

IsProcessed(e) == e \in processed

(* The answer of SET processing:<e> NX: is the lock free to be taken? *)
WrongLockIsFree(e) == TRUE      \* seeded fault: SET without NX

LockIsFree(e) == e \notin processing

(* The effect of SET processing:<e> NX, which leaves an existing key alone. *)
SetProcessing(e) ==
    /\ processing' = processing \cup {e}
    /\ UNCHANGED processed

(* MULTI; SET processed:<e>; DEL processing:<e>; EXEC. *)
WrongMarkProcessed(e) ==        \* seeded fault: the lock is not released
    /\ processed' = processed \cup {e}
    /\ UNCHANGED processing

MarkProcessed(e) ==
    /\ processed' = processed \cup {e}
    /\ processing' = processing \ {e}

(* DEL processing:<e>, whoever set it. *)
ClearProcessing(e) ==
    /\ processing' = processing \ {e}
    /\ UNCHANGED processed

ProcessingKeyExpires(e) ==
    /\ e \in processing
    /\ processing' = processing \ {e}
    /\ UNCHANGED processed

ProcessedKeyExpires(e) ==
    /\ e \in processed
    /\ processed' = processed \ {e}
    /\ UNCHANGED processing

=============================================================================
