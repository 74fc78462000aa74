--------------------------- MODULE PublishContract ---------------------------
(***************************************************************************)
(* What SolacePublisher.publish promises the processor that awaits it, and *)
(* what AsyncProcessor takes for granted: a call hands at most one message *)
(* of its event to the Solace client; it returns, without raising, after a *)
(* success exactly when it handed one; and nothing of a call is left       *)
(* running once it has returned.  A call that is cancelled may still hand  *)
(* its message over, once, behind the back of its caller.                  *)
(***************************************************************************)
EXTENDS Naturals

CONSTANTS Events, Nothing

VARIABLES
    stage,              \* "idle", "working", "handed": how far the call is
    event,              \* the event of the call
    cancelled,          \* has the awaiting task been cancelled?
    handed,             \* messages handed over, by event
    successes,          \* calls counted as a success
    losses              \* calls counted as a failure; their message is lost

vars == <<stage, event, cancelled, handed, successes, losses>>

Init ==
    /\ stage = "idle"
    /\ event = Nothing
    /\ cancelled = FALSE
    /\ handed = [e \in Events |-> 0]
    /\ successes = 0
    /\ losses = 0

Call(e) ==
    /\ stage = "idle"
    /\ stage' = "working"
    /\ event' = e
    /\ UNCHANGED <<cancelled, handed, successes, losses>>

HandOver ==
    /\ stage = "working"
    /\ stage' = "handed"
    /\ handed' = [handed EXCEPT ![event] = @ + 1]
    /\ UNCHANGED <<event, cancelled, successes, losses>>

ReturnSuccess ==
    /\ stage = "handed" /\ ~cancelled
    /\ stage' = "idle"
    /\ event' = Nothing
    /\ successes' = successes + 1
    /\ UNCHANGED <<cancelled, handed, losses>>

ReturnLoss ==
    /\ stage = "working" /\ ~cancelled
    /\ stage' = "idle"
    /\ event' = Nothing
    /\ losses' = losses + 1
    /\ UNCHANGED <<cancelled, handed, successes>>

Cancel ==
    /\ stage # "idle" /\ ~cancelled
    /\ cancelled' = TRUE
    /\ UNCHANGED <<stage, event, handed, successes, losses>>

Next ==
    \/ \E e \in Events : Call(e)
    \/ HandOver \/ ReturnSuccess \/ ReturnLoss \/ Cancel

Spec == Init /\ [][Next]_vars

=============================================================================
