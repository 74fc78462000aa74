-------------------------- MODULE SolaceSubscriber --------------------------
(***************************************************************************)
(* app/services/solace_subscriber.py: clients that consume from, browse or *)
(* drain one durable queue of the broker.                                  *)
(*                                                                         *)
(* consume_one builds a receiver for a single message: start, receive,     *)
(* perhaps ack, and terminate on every path.  consume_n and drain_queue    *)
(* repeat it.  pc[c] names the await at which the call of c is suspended;  *)
(* each of them is a blocking call of the library on a pool thread.        *)
(*                                                                         *)
(* The broker is external.  The queue is non-exclusive and ordered.  A     *)
(* message that is delivered to a receiver and not acknowledged before the *)
(* receiver ends goes back to its place; one that has been redelivered     *)
(* maxRedeliveryCount times goes to the dead message queue instead.        *)
(***************************************************************************)
EXTENDS Integers, FiniteSets

CONSTANTS
    Clients,            \* processes with a SolaceSubscriber of their own
    MessageCount,       \* messages sent to the queue, numbered in order
    MaxRedelivery,      \* maxRedeliveryCount of the queue
    Prefetch,           \* messages the broker delivers to a receiver unasked
    Tasks,              \* calls a client may make: see the operators below
    MaxTasks,           \* bound: calls, over all clients
    MayFail             \* library calls and conversions may raise, clients may die

(* consume_n(n, ack); drain_queue() *)
ConsumeN(n, ack) == [op |-> "consume", n |-> n, ack |-> ack]
Drain == [op |-> "drain", n |-> 0, ack |-> TRUE]

Places == {"unsent", "queued", "acked", "dmq"}

ASSUME SubscriberAssumption ==
    /\ Clients \cap Places = {}
    /\ MessageCount \in Nat
    /\ MaxRedelivery \in Nat
    /\ Prefetch \in Nat \ {0}
    /\ Tasks \subseteq [op : {"consume", "drain"}, n : Int, ack : BOOLEAN]
    /\ MaxTasks \in Nat
    /\ MayFail \in BOOLEAN

Messages == 1..MessageCount
NoMessage == 0

VARIABLES
    place,              \* where a message is: with a client, or one of Places
    deliveries,         \* times the broker has delivered a message
    pc,                 \* the await of the call of a client
    task,               \* its call
    got,                \* the message its consume_one has received
    raising,            \* is an exception on its way out of consume_one?
    results,            \* messages collected (or drained) so far, in no order
    returned,           \* history: times acknowledging calls have returned a message
    forfeited,          \* history: messages acknowledged that no caller will ever see
    tasks               \* counts calls up to MaxTasks

vars == <<place, deliveries, pc, task, got, raising, results, returned, forfeited,
          tasks>>
brokerVars == <<place, deliveries>>
callVars == <<pc, task, got, raising, results, returned, forfeited, tasks>>
historyVars == <<returned, forfeited>>

PCs == {"idle", "start", "receive", "ack", "terminate"}

Init ==
    /\ place = [m \in Messages |-> "unsent"]
    /\ deliveries = [m \in Messages |-> 0]
    /\ pc = [c \in Clients |-> "idle"]
    /\ task = [c \in Clients |-> Drain]
    /\ got = [c \in Clients |-> NoMessage]
    /\ raising = [c \in Clients |-> FALSE]
    /\ results = [c \in Clients |-> [m \in Messages |-> 0]]
    /\ returned = [m \in Messages |-> 0]
    /\ forfeited = {}
    /\ tasks = 0

Goto(c, await) == pc' = [pc EXCEPT ![c] = await]

-----------------------------------------------------------------------------
(* The broker *)

Held(c) == {m \in Messages : place[m] = c}

Bound(c) == pc[c] \in {"receive", "ack", "terminate"}

Send(m) ==
    /\ place[m] = "unsent"
    /\ \A k \in Messages : k < m => place[k] # "unsent"
    /\ place' = [place EXCEPT ![m] = "queued"]
    /\ UNCHANGED <<deliveries, callVars>>

(* The oldest message on the queue goes to a receiver that has room for it. *)
Deliver(c, m) ==
    /\ pc[c] = "receive"
    /\ Cardinality(Held(c)) < Prefetch
    /\ place[m] = "queued"
    /\ \A k \in Messages : k < m => place[k] # "queued"
    /\ place' = [place EXCEPT ![m] = c]
    /\ deliveries' = [deliveries EXCEPT ![m] = @ + 1]
    /\ UNCHANGED callVars

(* The receiver of c ends: what it holds is queued again, or is given up. *)
WrongUnbind(c) ==               \* seeded fault: redelivered without a limit
    place' = [m \in Messages |-> IF place[m] # c THEN place[m] ELSE "queued"]

Unbind(c) ==
    place' = [m \in Messages |->
                IF place[m] # c THEN place[m]
                ELSE IF deliveries[m] > MaxRedelivery THEN "dmq" ELSE "queued"]

-----------------------------------------------------------------------------
(* consume_n, drain_queue *)

SizeOf(bag) ==
    LET sum[k \in 0..MessageCount] == IF k = 0 THEN 0 ELSE sum[k - 1] + bag[k]
    IN  sum[MessageCount]

WrongWantsMore(t, bag) ==       \* seeded fault: the loop takes one message too many
    t.op = "drain" \/ SizeOf(bag) <= t.n

(* "while len(messages) < n"; "while True" *)
WantsMore(t, bag) == t.op = "drain" \/ SizeOf(bag) < t.n

(* m is off the queue for the sake of the call of c. *)
Claims(c, m) ==
    task[c].ack /\ (results[c][m] > 0 \/ (got[c] = m /\ place[m] = "acked"))

WrongCollected(c) ==            \* seeded fault: the list begins anew each time round
    [m \in Messages |-> IF m = got[c] THEN 1 ELSE 0]

(* "messages.append(msg)"; "drained += 1" *)
Collected(c) == [results[c] EXCEPT ![got[c]] = @ + 1]

(* The call ends.  consume_n returns its list, drain_queue only a number;  *)
(* an exception takes the list with it, acknowledged as it is.             *)
Return(c, bag, normally) ==
    /\ Goto(c, "idle")
    /\ IF normally /\ task[c].op = "consume" /\ task[c].ack
       THEN /\ returned' = [m \in Messages |-> returned[m] + bag[m]]
            /\ UNCHANGED forfeited
       ELSE /\ forfeited' = forfeited \cup {m \in Messages : Claims(c, m)}
            /\ UNCHANGED returned
    /\ results' = [results EXCEPT ![c] = [m \in Messages |-> 0]]

(* A call; with n <= 0, consume_n has nothing to do. *)
Call(c, t) ==
    /\ pc[c] = "idle" /\ tasks < MaxTasks
    /\ tasks' = tasks + 1
    /\ task' = [task EXCEPT ![c] = t]
    /\ IF WantsMore(t, results[c]) THEN Goto(c, "start") ELSE UNCHANGED pc
    /\ UNCHANGED <<brokerVars, got, raising, results, historyVars>>

-----------------------------------------------------------------------------
(* consume_one *)

Started(c) ==
    /\ pc[c] = "start"
    /\ Goto(c, "receive")
    /\ UNCHANGED <<brokerVars, task, got, raising, results, historyVars, tasks>>

WrongAfterReceiveNoAck(c) == "terminate"        \* seeded fault: never acknowledged

AfterReceive(c) == IF task[c].ack THEN "ack" ELSE "terminate"

Received(c) ==
    /\ pc[c] = "receive"
    /\ \E m \in Held(c) :
          /\ \A k \in Held(c) : m <= k
          /\ got' = [got EXCEPT ![c] = m]
    /\ Goto(c, AfterReceive(c))
    /\ UNCHANGED <<brokerVars, task, raising, results, historyVars, tasks>>

ReceiveTimesOut(c) ==
    /\ pc[c] = "receive"
    /\ Goto(c, "terminate")
    /\ UNCHANGED <<brokerVars, task, got, raising, results, historyVars, tasks>>

Acked(c) ==
    /\ pc[c] = "ack"
    /\ place' = [place EXCEPT ![got[c]] = "acked"]
    /\ Goto(c, "terminate")
    /\ UNCHANGED <<deliveries, task, got, raising, results, historyVars, tasks>>

WrongRaises(c) ==               \* seeded fault: no "finally"
    /\ MayFail
    /\ pc[c] \in {"receive", "ack"}
    /\ Return(c, results[c], FALSE)
    /\ UNCHANGED <<brokerVars, task, got, raising, tasks>>

(* start, receive, a conversion of the payload, or ack raises; the receiver *)
(* is terminated all the same.  An ack may have reached the broker.        *)
Raises(c) ==
    /\ MayFail
    /\ \/ pc[c] \in {"start", "receive", "ack"} /\ UNCHANGED place
       \/ pc[c] = "ack" /\ place' = [place EXCEPT ![got[c]] = "acked"]
    /\ raising' = [raising EXCEPT ![c] = TRUE]
    /\ Goto(c, "terminate")
    /\ UNCHANGED <<deliveries, task, got, results, historyVars, tasks>>

(* receiver.terminate() is over, or raises itself; consume_one returns its *)
(* message, None, or raises.  The loop goes on while it wants more and the *)
(* deadline of consume_n has not passed.                                   *)
WrongTerminated(c) ==           \* seeded fault: None does not end the loop
    /\ pc[c] = "terminate"
    /\ Unbind(c)
    /\ got' = [got EXCEPT ![c] = NoMessage]
    /\ raising' = [raising EXCEPT ![c] = FALSE]
    /\ IF raising[c] THEN Return(c, results[c], FALSE)
       ELSE Goto(c, "start") /\ UNCHANGED <<results, historyVars>>
    /\ UNCHANGED <<deliveries, task, tasks>>

Terminated(c) ==
    /\ pc[c] = "terminate"
    /\ Unbind(c)
    /\ got' = [got EXCEPT ![c] = NoMessage]
    /\ raising' = [raising EXCEPT ![c] = FALSE]
    /\ \/ (raising[c] \/ MayFail) /\ Return(c, results[c], FALSE)
       \/ ~raising[c] /\ got[c] = NoMessage /\ Return(c, results[c], TRUE)
       \/ /\ ~raising[c] /\ got[c] # NoMessage
          /\ LET bag == Collected(c)
             IN  \/ /\ WantsMore(task[c], bag)
                    /\ results' = [results EXCEPT ![c] = bag]
                    /\ Goto(c, "start")
                    /\ UNCHANGED historyVars
                 \/ /\ WantsMore(task[c], bag) => task[c].op = "consume"
                    /\ Return(c, bag, TRUE)
    /\ UNCHANGED <<deliveries, task, tasks>>

(* The process of c dies; the broker sees its receiver end. *)
Dies(c) ==
    /\ MayFail
    /\ pc[c] # "idle"
    /\ Unbind(c)
    /\ got' = [got EXCEPT ![c] = NoMessage]
    /\ raising' = [raising EXCEPT ![c] = FALSE]
    /\ Return(c, results[c], FALSE)
    /\ UNCHANGED <<deliveries, task, tasks>>

-----------------------------------------------------------------------------
CallStep(c) ==
    \/ Started(c) \/ Received(c) \/ ReceiveTimesOut(c) \/ Acked(c)
    \/ Raises(c) \/ Terminated(c)

Next ==
    \/ \E m \in Messages : Send(m)
    \/ \E c \in Clients :
        \/ \E t \in Tasks : Call(c, t)
        \/ \E m \in Messages : Deliver(c, m)
        \/ CallStep(c)
        \/ Dies(c)

(* Calls of the library return, raise or time out; nobody has to call. *)
Fairness == \A c \in Clients : WF_vars(CallStep(c))

Spec == Init /\ [][Next]_vars

FairSpec == Spec /\ Fairness

-----------------------------------------------------------------------------
(* Properties *)

TypeOK ==
    /\ place \in [Messages -> Places \cup Clients]
    /\ deliveries \in [Messages -> 0..(MaxRedelivery + 1)]
    /\ pc \in [Clients -> PCs]
    /\ task \in [Clients -> Tasks \cup {Drain}]
    /\ got \in [Clients -> Messages \cup {NoMessage}]
    /\ raising \in [Clients -> BOOLEAN]
    /\ results \in [Clients -> [Messages -> Nat]]
    /\ returned \in [Messages -> Nat]
    /\ forfeited \subseteq Messages
    /\ tasks \in Nat

(* A message is never stranded with a client that has no receiver for it:  *)
(* "finally" covers every way out of consume_one.                          *)
NothingStranded ==
    \A m \in Messages, c \in Clients : place[m] = c => Bound(c)

(* No message is given to two callers, or twice to one, among those that   *)
(* acknowledge, whatever raises or dies between receive, ack and terminate *)
(* and whoever browses beside them: what such a call has collected or      *)
(* returned is off the queue for good.                                     *)
ReturnedOnce ==
    \A m \in Messages :
        /\ returned[m] <= 1
        /\ returned[m] = 1 => place[m] = "acked"
        /\ \A c \in Clients :
              (task[c].ack /\ results[c][m] > 0) =>
                  results[c][m] = 1 /\ returned[m] = 0 /\ place[m] = "acked"

(* consume_n never collects, nor acknowledges, more than it was asked for:  *)
(* an acknowledged message beyond n would be lost.                         *)
NeverTooMany ==
    \A c \in Clients :
        (pc[c] # "idle" /\ task[c].op = "consume") => SizeOf(results[c]) < task[c].n

(* No acknowledged message is lost unless its call raised, died, or only   *)
(* counts: until one of these happens it is in the hands of a call that    *)
(* is running, or its caller has it.  In particular consume_n, when it     *)
(* ends at its deadline or at an empty queue, returns all it has taken.    *)
AckedIsAccounted ==
    \A m \in Messages :
        /\ place[m] = "acked" =>
              returned[m] = 1 \/ m \in forfeited \/ \E c \in Clients : Claims(c, m)
        /\ m \in forfeited =>
              place[m] = "acked" /\ returned[m] = 0 /\ \A c \in Clients : ~Claims(c, m)

(* scripts/consume_queue.py without --ack: "default browse mode". *)
BrowsingIsHarmless == \A m \in Messages : place[m] # "dmq"

(* Every call ends: consume_n at its deadline, drain_queue once the queue  *)
(* has nothing for it.                                                     *)
CallsEnd == \A c \in Clients : pc[c] # "idle" ~> pc[c] = "idle"

=============================================================================
