----------------------- MODULE SolaceSubscriberProofs -----------------------
(***************************************************************************)
(* Proofs about SolaceSubscriber, for any number of clients, messages,     *)
(* redeliveries and calls, and any prefetch of the broker.                 *)
(*                                                                         *)
(* HandInv says where the message is that a consume_one has in hand, and   *)
(* ClaimInv that an acknowledged message belongs to one call: the one that *)
(* has it in hand, or among its results, or has returned it.               *)
(***************************************************************************)
EXTENDS SolaceSubscriber, TLAPS

USE DEF brokerVars, callVars, historyVars

(* A message that is still on the queue may be delivered once more. *)
WithinLimit ==
    \A m \in Messages :
        place[m] \in {"unsent", "queued"} => deliveries[m] <= MaxRedelivery

TypeInv == TypeOK /\ WithinLimit

(* consume_one has a message only between receive and terminate, and holds *)
(* it until it has acknowledged it.                                        *)
HandInv ==
    \A c \in Clients :
        /\ got[c] # NoMessage =>
              pc[c] \in {"ack", "terminate"} /\ place[got[c]] \in {c, "acked"}
        /\ pc[c] = "ack" =>
              got[c] # NoMessage /\ place[got[c]] = c /\ task[c].ack
        /\ (pc[c] = "terminate" /\ ~raising[c] /\ got[c] # NoMessage /\ task[c].ack)
              => place[got[c]] = "acked"

ClaimInv ==
    \A m \in Messages :
        /\ returned[m] <= 1
        /\ returned[m] = 1 => place[m] = "acked" /\ \A c \in Clients : ~Claims(c, m)
        /\ \A c, d \in Clients : Claims(c, m) /\ Claims(d, m) => c = d
        /\ \A c \in Clients :
              /\ pc[c] = "idle" => results[c][m] = 0
              /\ (task[c].ack /\ results[c][m] > 0) =>
                    results[c][m] = 1 /\ place[m] = "acked" /\ got[c] # m

SubscriberInv ==
    TypeInv /\ NothingStranded /\ HandInv /\ ClaimInv /\ AckedIsAccounted

-----------------------------------------------------------------------------
(* Steps *)

LEMMA UnbindFrees ==
    ASSUME TypeInv, NEW c \in Clients, Unbind(c)
    PROVE  /\ place' \in [Messages -> Places \cup Clients]
           /\ \A m \in Messages :
                 /\ place[m] # c => place'[m] = place[m]
                 /\ place[m] = c => place'[m] \in {"dmq", "queued"}
                 /\ place[m] = c /\ place'[m] = "queued" => deliveries[m] <= MaxRedelivery
<1>1. deliveries \in [Messages -> 0..(MaxRedelivery + 1)] /\ MaxRedelivery \in Nat
  BY SubscriberAssumption DEF TypeInv, TypeOK
<1>2. place \in [Messages -> Places \cup Clients] /\ "dmq" \in Places /\ "queued" \in Places
  BY SubscriberAssumption DEF TypeInv, TypeOK, Places
<1>3. \A m \in Messages : ~(deliveries[m] > MaxRedelivery) => deliveries[m] <= MaxRedelivery
  BY <1>1
<1> QED
  BY <1>2, <1>3 DEF Unbind

(* A call that ends leaves its client idle, and its results empty.  What it *)
(* returns is its results, if it acknowledges and nothing is raised.       *)
LEMMA ReturnEnds ==
    ASSUME TypeInv, NEW c \in Clients, NEW bag \in [Messages -> Nat],
           NEW normally \in BOOLEAN, Return(c, bag, normally)
    PROVE  /\ pc' \in [Clients -> PCs] /\ pc' = [pc EXCEPT ![c] = "idle"]
           /\ results' \in [Clients -> [Messages -> Nat]]
           /\ results' = [results EXCEPT ![c] = [m \in Messages |-> 0]]
           /\ returned' \in [Messages -> Nat]
           /\ \A m \in Messages :
                 \/ returned'[m] = returned[m]
                 \/ normally /\ task[c].ack /\ returned'[m] = returned[m] + bag[m]
           /\ forfeited' \subseteq Messages
<1>1. /\ results \in [Clients -> [Messages -> Nat]] /\ returned \in [Messages -> Nat]
      /\ pc \in [Clients -> PCs] /\ forfeited \subseteq Messages
  BY DEF TypeInv, TypeOK
<1>2. "idle" \in PCs
  BY DEF PCs
<1>3. [m \in Messages |-> 0] \in [Messages -> Nat]
  OBVIOUS
<1>4. pc' \in [Clients -> PCs] /\ pc' = [pc EXCEPT ![c] = "idle"]
  BY <1>1, <1>2 DEF Return, Goto
<1>5. /\ results' \in [Clients -> [Messages -> Nat]]
      /\ results' = [results EXCEPT ![c] = [m \in Messages |-> 0]]
  BY <1>1, <1>3 DEF Return
<1>6. CASE normally /\ task[c].op = "consume" /\ task[c].ack
  <2>1. returned' = [m \in Messages |-> returned[m] + bag[m]] /\ forfeited' = forfeited
    BY <1>6 DEF Return
  <2>2. \A m \in Messages : returned[m] + bag[m] \in Nat
    BY <1>1
  <2> QED
    BY <1>1, <1>4, <1>5, <1>6, <2>1, <2>2
<1>7. CASE ~(normally /\ task[c].op = "consume" /\ task[c].ack)
  <2>1. returned' = returned /\ forfeited' \subseteq Messages
    BY <1>1, <1>7 DEF Return
  <2> QED
    BY <1>1, <1>4, <1>5, <2>1
<1> QED
  BY <1>6, <1>7

(* The three ways in which consume_one ends, or its process dies: an       *)
(* exception, no message, or one message more among the results.           *)
LEMMA TerminatedCases ==
    ASSUME TypeInv, NEW c \in Clients, Terminated(c) \/ Dies(c)
    PROVE  /\ Unbind(c)
           /\ got' = [got EXCEPT ![c] = NoMessage]
           /\ raising' = [raising EXCEPT ![c] = FALSE]
           /\ UNCHANGED <<deliveries, task, tasks>>
           /\ \/ Return(c, results[c], FALSE)
              \/ pc[c] = "terminate" /\ got[c] = NoMessage /\ Return(c, results[c], TRUE)
              \/ \E bag \in [Messages -> Nat] :
                    /\ pc[c] = "terminate"
                    /\ got[c] \in Messages /\ ~raising[c]
                    /\ bag = [results[c] EXCEPT ![got[c]] = results[c][got[c]] + 1]
                    /\ \/ /\ WantsMore(task[c], bag)
                          /\ results' = [results EXCEPT ![c] = bag]
                          /\ pc' = [pc EXCEPT ![c] = "start"]
                          /\ UNCHANGED historyVars
                       \/ Return(c, bag, TRUE)
<1>1. CASE Dies(c)
  BY <1>1 DEF Dies
<1>2. CASE Terminated(c)
  <2> DEFINE bag == [results[c] EXCEPT ![got[c]] = @ + 1]
  <2>1. got[c] # NoMessage => got[c] \in Messages /\ bag \in [Messages -> Nat]
    BY DEF TypeInv, TypeOK
  <2>2. /\ Unbind(c) /\ UNCHANGED <<deliveries, task, tasks>>
        /\ got' = [got EXCEPT ![c] = NoMessage]
        /\ raising' = [raising EXCEPT ![c] = FALSE]
    BY <1>2 DEF Terminated
  <2>3. \/ Return(c, results[c], FALSE)
        \/ pc[c] = "terminate" /\ got[c] = NoMessage /\ Return(c, results[c], TRUE)
        \/ /\ pc[c] = "terminate" /\ got[c] # NoMessage /\ ~raising[c]
           /\ \/ /\ WantsMore(task[c], bag)
                 /\ results' = [results EXCEPT ![c] = bag]
                 /\ pc' = [pc EXCEPT ![c] = "start"]
                 /\ UNCHANGED historyVars
              \/ Return(c, bag, TRUE)
    BY <1>2 DEF Terminated, Collected, Goto
  <2> QED
    BY <2>1, <2>2, <2>3
<1> QED
  BY <1>1, <1>2

(* Whichever it is, the client and its receiver let go of everything. *)
LEMMA TerminatedMoves ==
    ASSUME TypeInv, NEW c \in Clients, Terminated(c) \/ Dies(c)
    PROVE  /\ got' = [got EXCEPT ![c] = NoMessage]
           /\ raising' = [raising EXCEPT ![c] = FALSE]
           /\ UNCHANGED <<deliveries, task, tasks>>
           /\ pc' \in [Clients -> PCs] /\ pc'[c] \in {"idle", "start"}
           /\ \A d \in Clients \ {c} : pc'[d] = pc[d] /\ results'[d] = results[d]
           /\ results' \in [Clients -> [Messages -> Nat]]
           /\ returned' \in [Messages -> Nat] /\ forfeited' \subseteq Messages
<1>1. /\ results \in [Clients -> [Messages -> Nat]] /\ returned \in [Messages -> Nat]
      /\ pc \in [Clients -> PCs] /\ "idle" \in PCs /\ "start" \in PCs
      /\ forfeited \subseteq Messages
  BY DEF TypeInv, TypeOK, PCs
<1>2. /\ got' = [got EXCEPT ![c] = NoMessage]
      /\ raising' = [raising EXCEPT ![c] = FALSE]
      /\ UNCHANGED <<deliveries, task, tasks>>
  BY TerminatedCases
<1>3. ASSUME NEW bag \in [Messages -> Nat], NEW normally \in BOOLEAN, Return(c, bag, normally)
      PROVE  /\ pc' \in [Clients -> PCs] /\ pc'[c] = "idle"
             /\ \A d \in Clients \ {c} : pc'[d] = pc[d] /\ results'[d] = results[d]
             /\ results' \in [Clients -> [Messages -> Nat]] /\ returned' \in [Messages -> Nat]
             /\ forfeited' \subseteq Messages
  <2>1. /\ pc' \in [Clients -> PCs] /\ pc' = [pc EXCEPT ![c] = "idle"]
        /\ results' \in [Clients -> [Messages -> Nat]]
        /\ results' = [results EXCEPT ![c] = [m \in Messages |-> 0]]
        /\ returned' \in [Messages -> Nat] /\ forfeited' \subseteq Messages
    BY <1>3, ReturnEnds
  <2> QED
    BY <1>1, <2>1
<1>4. CASE Return(c, results[c], FALSE) \/ Return(c, results[c], TRUE)
  <2>1. results[c] \in [Messages -> Nat]
    BY <1>1
  <2> QED
    BY <1>2, <1>3, <1>4, <2>1
<1>5. ASSUME NEW bag \in [Messages -> Nat],
             \/ /\ results' = [results EXCEPT ![c] = bag]
                /\ pc' = [pc EXCEPT ![c] = "start"]
                /\ UNCHANGED historyVars
             \/ Return(c, bag, TRUE)
      PROVE  /\ pc' \in [Clients -> PCs] /\ pc'[c] \in {"idle", "start"}
             /\ \A d \in Clients \ {c} : pc'[d] = pc[d] /\ results'[d] = results[d]
             /\ results' \in [Clients -> [Messages -> Nat]] /\ returned' \in [Messages -> Nat]
             /\ forfeited' \subseteq Messages
  <2>1. CASE Return(c, bag, TRUE)
    BY <1>3, <2>1
  <2>2. CASE ~Return(c, bag, TRUE)
    BY <1>1, <1>5, <2>2
  <2> QED
    BY <2>1, <2>2
<1>6. \/ Return(c, results[c], FALSE) \/ Return(c, results[c], TRUE)
      \/ \E bag \in [Messages -> Nat] :
            \/ /\ results' = [results EXCEPT ![c] = bag]
               /\ pc' = [pc EXCEPT ![c] = "start"]
               /\ UNCHANGED historyVars
            \/ Return(c, bag, TRUE)
  BY TerminatedCases
<1> QED
  BY <1>2, <1>4, <1>5, <1>6

-----------------------------------------------------------------------------
(* Types *)

LEMMA TypeInvInit == ASSUME Init PROVE TypeInv
  BY SubscriberAssumption
     DEF Init, TypeInv, TypeOK, WithinLimit, Places, PCs, Messages, NoMessage

LEMMA TypeInvNext ==
    ASSUME TypeInv, [Next]_vars PROVE TypeInv'
<1> USE SubscriberAssumption DEF TypeInv, TypeOK, WithinLimit
<1>1. CASE UNCHANGED vars
  BY <1>1 DEF vars
<1>2. ASSUME NEW m \in Messages, Send(m) PROVE TypeInv'
  BY <1>2 DEF Send, Places
<1>3. ASSUME NEW c \in Clients, NEW t \in Tasks, Call(c, t) PROVE TypeInv'
  <2>1. pc' \in [Clients -> PCs]
    BY <1>3 DEF Call, Goto, PCs
  <2>2. task' \in [Clients -> Tasks \cup {Drain}]
    BY <1>3 DEF Call
  <2> QED
    BY <1>3, <2>1, <2>2 DEF Call
<1>4. ASSUME NEW c \in Clients, NEW m \in Messages, Deliver(c, m) PROVE TypeInv'
  <2>1. deliveries[m] \in Nat /\ deliveries[m] <= MaxRedelivery
    BY <1>4 DEF Deliver
  <2>2. deliveries[m] + 1 \in 0..(MaxRedelivery + 1)
    BY <2>1
  <2>3. deliveries' \in [Messages -> 0..(MaxRedelivery + 1)]
    BY <1>4, <2>2 DEF Deliver
  <2>4. place' \in [Messages -> Places \cup Clients]
    BY <1>4 DEF Deliver
  <2>5. WithinLimit'
    BY <1>4 DEF Deliver, Places
  <2> QED
    BY <1>4, <2>3, <2>4, <2>5 DEF Deliver
<1>5. ASSUME NEW c \in Clients, Started(c) \/ Received(c) \/ ReceiveTimesOut(c)
      PROVE  TypeInv'
  <2>1. pc' \in [Clients -> PCs]
    BY <1>5 DEF Started, Received, ReceiveTimesOut, AfterReceive, Goto, PCs
  <2>2. got' \in [Clients -> Messages \cup {NoMessage}]
    BY <1>5 DEF Started, Received, ReceiveTimesOut, Held
  <2> QED
    BY <1>5, <2>1, <2>2 DEF Started, Received, ReceiveTimesOut
<1>6. ASSUME NEW c \in Clients, Acked(c) \/ Raises(c) PROVE TypeInv'
  <2>1. pc' \in [Clients -> PCs]
    BY <1>6 DEF Acked, Raises, Goto, PCs
  <2>2. place' \in [Messages -> Places \cup Clients] /\ WithinLimit'
    BY <1>6 DEF Acked, Raises, Places
  <2>3. raising' \in [Clients -> BOOLEAN]
    BY <1>6 DEF Acked, Raises
  <2> QED
    BY <1>6, <2>1, <2>2, <2>3 DEF Acked, Raises
<1>7. ASSUME NEW c \in Clients, Terminated(c) \/ Dies(c) PROVE TypeInv'
  <2>1. /\ Unbind(c) /\ UNCHANGED <<deliveries, task, tasks>>
        /\ got' = [got EXCEPT ![c] = NoMessage]
        /\ raising' = [raising EXCEPT ![c] = FALSE]
    BY <1>7, TerminatedCases
  <2>2. place' \in [Messages -> Places \cup Clients] /\ WithinLimit'
    BY <2>1, UnbindFrees
  <2>3. /\ pc' \in [Clients -> PCs] /\ returned' \in [Messages -> Nat]
        /\ forfeited' \subseteq Messages
        /\ results' \in [Clients -> [Messages -> Nat]]
    BY <1>7, TerminatedMoves
  <2>4. /\ got' \in [Clients -> Messages \cup {NoMessage}]
        /\ raising' \in [Clients -> BOOLEAN]
    BY <2>1
  <2> QED
    BY <2>1, <2>2, <2>3, <2>4
<1> HIDE DEF TypeInv
<1> QED
  BY <1>1, <1>2, <1>3, <1>4, <1>5, <1>6, <1>7 DEF Next, CallStep
-----------------------------------------------------------------------------
(* A receiver of its own for every message a client holds *)

LEMMA StrandedNext ==
    ASSUME TypeInv, NothingStranded, [Next]_vars PROVE NothingStranded'
<1> USE DEF NothingStranded, Bound
<1>0. /\ place \in [Messages -> Places \cup Clients] /\ pc \in [Clients -> PCs]
      /\ \A c \in Clients : c # "queued" /\ c # "acked" /\ c # "dmq"
  BY SubscriberAssumption DEF TypeInv, TypeOK, Places
<1>1. CASE UNCHANGED vars
  BY <1>1 DEF vars
<1>2. ASSUME NEW m \in Messages, Send(m) PROVE NothingStranded'
  BY <1>0, <1>2 DEF Send
<1>3. ASSUME NEW c \in Clients, NEW t \in Tasks, Call(c, t) PROVE NothingStranded'
  BY <1>0, <1>3 DEF Call, Goto
<1>4. ASSUME NEW c \in Clients, NEW m \in Messages, Deliver(c, m) PROVE NothingStranded'
  BY <1>0, <1>4 DEF Deliver
<1>5. ASSUME NEW c \in Clients, Started(c) \/ Received(c) \/ ReceiveTimesOut(c)
      PROVE  NothingStranded'
  BY <1>0, <1>5 DEF Started, Received, ReceiveTimesOut, AfterReceive, Goto
<1>6. ASSUME NEW c \in Clients, Acked(c) \/ Raises(c) PROVE NothingStranded'
  BY <1>0, <1>6 DEF Acked, Raises, Goto
<1>7. ASSUME NEW c \in Clients, Terminated(c) \/ Dies(c) PROVE NothingStranded'
  <2>1. \A m \in Messages : place'[m] # c /\ (place'[m] \in Clients => place'[m] = place[m])
    <3>1. Unbind(c)
      BY <1>7, TerminatedCases
    <3> QED
      BY <1>0, <3>1, UnbindFrees
  <2>2. \A d \in Clients \ {c} : pc'[d] = pc[d]
    BY <1>7, TerminatedMoves
  <2> QED
    BY <2>1, <2>2
<1> QED
  BY <1>1, <1>2, <1>3, <1>4, <1>5, <1>6, <1>7 DEF Next, CallStep

-----------------------------------------------------------------------------
(* The message in hand *)

LEMMA HandNext ==
    ASSUME TypeInv, HandInv, [Next]_vars PROVE HandInv'
<1> USE DEF HandInv
<1>0. /\ place \in [Messages -> Places \cup Clients] /\ pc \in [Clients -> PCs]
      /\ task \in [Clients -> Tasks \cup {Drain}]
      /\ got \in [Clients -> Messages \cup {NoMessage}] /\ NoMessage \notin Messages
      /\ raising \in [Clients -> BOOLEAN]
      /\ \A c \in Clients : c # "queued" /\ c # "acked" /\ c # "dmq" /\ c # "unsent"
  BY SubscriberAssumption DEF TypeInv, TypeOK, Places, NoMessage, Messages
<1>1. CASE UNCHANGED vars
  BY <1>1 DEF vars
<1>2. ASSUME NEW m \in Messages, Send(m) PROVE HandInv'
  BY <1>0, <1>2 DEF Send
<1>3. ASSUME NEW c \in Clients, NEW t \in Tasks, Call(c, t) PROVE HandInv'
  BY <1>0, <1>3 DEF Call, Goto
<1>4. ASSUME NEW c \in Clients, NEW m \in Messages, Deliver(c, m) PROVE HandInv'
  BY <1>0, <1>4 DEF Deliver
<1>5. ASSUME NEW c \in Clients, Started(c) \/ ReceiveTimesOut(c) PROVE HandInv'
  BY <1>0, <1>5 DEF Started, ReceiveTimesOut, Goto
<1>6. ASSUME NEW c \in Clients, Received(c) PROVE HandInv'
  BY <1>0, <1>6 DEF Received, AfterReceive, Goto, Held
<1>7. ASSUME NEW c \in Clients, Acked(c) \/ Raises(c) PROVE HandInv'
  BY <1>0, <1>7 DEF Acked, Raises, Goto
<1>8. ASSUME NEW c \in Clients, Terminated(c) \/ Dies(c) PROVE HandInv'
  <2>1. \A m \in Messages : place[m] # c => place'[m] = place[m]
    BY <1>8, TerminatedCases, UnbindFrees
  <2>2. pc'[c] \in {"idle", "start"} /\ \A d \in Clients \ {c} : pc'[d] = pc[d]
    BY <1>8, TerminatedMoves
  <2>3. /\ got' = [got EXCEPT ![c] = NoMessage]
        /\ raising' = [raising EXCEPT ![c] = FALSE] /\ task' = task
    BY <1>8, TerminatedMoves
  <2> QED
    BY <1>0, <2>1, <2>2, <2>3
<1> QED
  BY <1>1, <1>2, <1>3, <1>4, <1>5, <1>6, <1>7, <1>8 DEF Next, CallStep

-----------------------------------------------------------------------------
(* Who owns an acknowledged message *)

(* A step that acknowledges nothing, and leaves the calls what they have.  *)
LEMMA ClaimsKept ==
    ASSUME ClaimInv, UNCHANGED <<task, got, results, returned>>,
           \A m \in Messages : place'[m] = "acked" <=> place[m] = "acked",
           \A c \in Clients : pc'[c] = "idle" => pc[c] = "idle"
    PROVE  ClaimInv'
<1>1. \A c \in Clients, m \in Messages : Claims(c, m)' <=> Claims(c, m)
  BY DEF Claims
<1> QED
  BY <1>1 DEF ClaimInv

(* The receiver of c has its message acknowledged: now c claims it, and    *)
(* nobody did before.                                                      *)
LEMMA ClaimsTaken ==
    ASSUME TypeInv, HandInv, ClaimInv, NEW c \in Clients, pc[c] = "ack",
           place' = [place EXCEPT ![got[c]] = "acked"],
           UNCHANGED <<task, got, results, returned>>,
           \A d \in Clients : pc'[d] = "idle" => pc[d] = "idle"
    PROVE  ClaimInv'
<1>1. /\ place \in [Messages -> Places \cup Clients]
      /\ got \in [Clients -> Messages \cup {NoMessage}] /\ c # "acked"
      /\ \A d \in Clients : d # "acked"
  BY SubscriberAssumption DEF TypeInv, TypeOK, Places
<1>2. got[c] \in Messages /\ place[got[c]] = c /\ task[c].ack
  BY <1>1 DEF HandInv
<1>3. \A d \in Clients : ~Claims(d, got[c])
  BY <1>1, <1>2 DEF Claims, ClaimInv
<1>4. \A d \in Clients : got[d] = got[c] => d = c
  BY <1>1, <1>2 DEF HandInv, NoMessage, Messages
<1>5. \A m \in Messages \ {got[c]} :
         place'[m] = place[m] /\ \A d \in Clients : Claims(d, m)' <=> Claims(d, m)
  BY <1>1 DEF Claims
<1>6. place'[got[c]] = "acked" /\ \A d \in Clients : Claims(d, got[c])' => d = c
  BY <1>1, <1>2, <1>3, <1>4 DEF Claims
<1>7. returned[got[c]] # 1 /\ \A d \in Clients : ~(task[d].ack /\ results[d][got[c]] > 0)
  BY <1>1, <1>2, <1>3 DEF ClaimInv, Claims
<1>8. ASSUME NEW m \in Messages
      PROVE  /\ returned[m] <= 1
             /\ returned[m] = 1 => place'[m] = "acked" /\ \A d \in Clients : ~Claims(d, m)'
             /\ \A d, e \in Clients : Claims(d, m)' /\ Claims(e, m)' => d = e
             /\ \A d \in Clients :
                   /\ pc'[d] = "idle" => results[d][m] = 0
                   /\ (task[d].ack /\ results[d][m] > 0) =>
                         results[d][m] = 1 /\ place'[m] = "acked" /\ got[d] # m
  <2>1. CASE m = got[c]
    BY <1>6, <1>7, <2>1 DEF ClaimInv
  <2>2. CASE m # got[c]
    BY <1>5, <2>2 DEF ClaimInv
  <2> QED
    BY <2>1, <2>2
<1> QED
  BY <1>8 DEF ClaimInv

(* consume_one is over, and c keeps its claims, or gives them up, or has   *)
(* returned what it claimed.                                               *)
LEMMA ClaimsSettled ==
    ASSUME TypeInv, HandInv, ClaimInv, NEW c \in Clients, Terminated(c) \/ Dies(c)
    PROVE  ClaimInv'
<1>1. /\ got' = [got EXCEPT ![c] = NoMessage] /\ UNCHANGED task
      /\ \A d \in Clients \ {c} : pc'[d] = pc[d] /\ results'[d] = results[d]
  BY TerminatedMoves
<1>2. /\ results \in [Clients -> [Messages -> Nat]] /\ returned \in [Messages -> Nat]
      /\ got \in [Clients -> Messages \cup {NoMessage}] /\ NoMessage \notin Messages
      /\ place \in [Messages -> Places \cup Clients] /\ \A d \in Clients : d # "acked"
      /\ pc \in [Clients -> PCs] /\ task \in [Clients -> Tasks \cup {Drain}]
  <2>1. NoMessage \notin Messages /\ \A d \in Clients : d # "acked"
    BY SubscriberAssumption DEF Places, NoMessage, Messages
  <2> QED
    BY <2>1 DEF TypeInv, TypeOK
<1>3. \A m \in Messages : place'[m] = "acked" <=> place[m] = "acked"
  <2>1. Unbind(c)
    BY TerminatedCases
  <2> QED
    BY <1>2, <2>1, UnbindFrees
<1>4. \A d \in Clients \ {c}, m \in Messages : Claims(d, m)' <=> Claims(d, m)
  BY <1>1, <1>2, <1>3 DEF Claims
<1>5. \A m \in Messages : Claims(c, m)' <=> task[c].ack /\ results'[c][m] > 0
  BY <1>1, <1>2 DEF Claims
(* What c has collected, with the message in hand, is what it claims. *)
<1>6. ASSUME NEW bag \in [Messages -> Nat], task[c].ack,
             \/ bag = results[c]
             \/ /\ pc[c] = "terminate" /\ got[c] \in Messages /\ ~raising[c]
                /\ bag = [results[c] EXCEPT ![got[c]] = results[c][got[c]] + 1],
             NEW m \in Messages, bag[m] > 0
      PROVE  bag[m] = 1 /\ Claims(c, m) /\ place[m] = "acked"
  <2>1. CASE bag[m] = results[c][m]
    BY <1>6, <2>1 DEF Claims, ClaimInv
  <2>2. CASE bag[m] # results[c][m]
    <3>1. /\ pc[c] = "terminate" /\ got[c] = m /\ ~raising[c]
          /\ bag[m] = results[c][m] + 1
      BY <1>2, <1>6, <2>2
    <3>2. place[m] = "acked"
      BY <1>2, <1>6, <3>1 DEF HandInv
    <3>3. ~(results[c][m] > 0) /\ results[c][m] \in Nat
      BY <1>2, <1>6, <3>1 DEF ClaimInv
    <3> QED
      BY <1>6, <3>1, <3>2, <3>3 DEF Claims
  <2> QED
    BY <2>1, <2>2
(* A call that ends. *)
<1>7. ASSUME NEW bag \in [Messages -> Nat], NEW normally \in BOOLEAN,
             Return(c, bag, normally),
             \/ bag = results[c]
             \/ /\ pc[c] = "terminate" /\ got[c] \in Messages /\ ~raising[c]
                /\ bag = [results[c] EXCEPT ![got[c]] = results[c][got[c]] + 1]
      PROVE  ClaimInv'
  <2>1. /\ results' = [results EXCEPT ![c] = [m \in Messages |-> 0]]
        /\ \A m \in Messages :
              \/ returned'[m] = returned[m]
              \/ task[c].ack /\ returned'[m] = returned[m] + bag[m]
    BY <1>7, ReturnEnds
  <2>2. \A m \in Messages : results'[c][m] = 0 /\ ~Claims(c, m)'
    BY <1>2, <1>5, <2>1
  <2>3. ASSUME NEW m \in Messages
        PROVE  \/ returned'[m] = returned[m]
               \/ /\ returned[m] = 0 /\ returned'[m] = 1 /\ place[m] = "acked"
                  /\ Claims(c, m)
    <3>1. CASE bag[m] > 0 /\ task[c].ack
      <4>1. bag[m] = 1 /\ Claims(c, m) /\ place[m] = "acked"
        BY <1>6, <1>7, <3>1
      <4>2. returned[m] # 1 /\ returned[m] <= 1 /\ returned[m] \in Nat
        BY <1>2, <4>1 DEF ClaimInv
      <4>3. returned[m] = 0
        BY <4>2
      <4> QED
        BY <2>1, <4>1, <4>3
    <3>2. CASE ~(bag[m] > 0 /\ task[c].ack)
      <4>1. returned[m] \in Nat /\ bag[m] \in Nat
        BY <1>2
      <4> QED
        BY <2>1, <3>2, <4>1
    <3> QED
      BY <3>1, <3>2
  <2>4. ASSUME NEW m \in Messages, returned'[m] = 1, NEW d \in Clients
        PROVE  ~Claims(d, m)' /\ place'[m] = "acked"
    <3>1. CASE returned'[m] = returned[m]
      BY <1>3, <1>4, <2>2, <2>4, <3>1 DEF ClaimInv
    <3>2. CASE place[m] = "acked" /\ Claims(c, m)
      BY <1>3, <1>4, <2>2, <3>2 DEF ClaimInv
    <3> QED
      BY <2>3, <3>1, <3>2
  <2>5. \A m \in Messages : returned'[m] <= 1
    BY <2>3 DEF ClaimInv
  <2>6. \A m \in Messages, d, e \in Clients : Claims(d, m)' /\ Claims(e, m)' => d = e
    BY <1>4, <2>2 DEF ClaimInv
  <2>7. ASSUME NEW m \in Messages, NEW d \in Clients
        PROVE  /\ pc'[d] = "idle" => results'[d][m] = 0
               /\ (task'[d].ack /\ results'[d][m] > 0) =>
                     results'[d][m] = 1 /\ place'[m] = "acked" /\ got'[d] # m
    <3>1. CASE d = c
      BY <2>2, <3>1
    <3>2. CASE d # c
      BY <1>1, <1>2, <1>3, <3>2 DEF ClaimInv
    <3> QED
      BY <3>1, <3>2
  <2> QED
    BY <2>4, <2>5, <2>6, <2>7 DEF ClaimInv
(* The loop goes on. *)
<1>8. ASSUME NEW bag \in [Messages -> Nat],
             pc[c] = "terminate", got[c] \in Messages, ~raising[c],
             bag = [results[c] EXCEPT ![got[c]] = results[c][got[c]] + 1],
             results' = [results EXCEPT ![c] = bag],
             pc' = [pc EXCEPT ![c] = "start"],
             UNCHANGED historyVars
      PROVE  ClaimInv'
  <2>1. results'[c] = bag /\ pc'[c] # "idle" /\ got'[c] = NoMessage
    BY <1>1, <1>2, <1>8
  <2>2. \A m \in Messages : Claims(c, m)' => Claims(c, m)
    BY <1>5, <1>6, <1>8, <2>1
  <2>3. \A m \in Messages :
           (task[c].ack /\ results'[c][m] > 0) =>
               results'[c][m] = 1 /\ place'[m] = "acked" /\ got'[c] # m
    BY <1>2, <1>3, <1>6, <1>8, <2>1
  <2>4. \A m \in Messages, d \in Clients : Claims(d, m)' => Claims(d, m)
    BY <1>4, <2>2
  <2>5. ASSUME NEW m \in Messages, NEW d \in Clients
        PROVE  /\ pc'[d] = "idle" => results'[d][m] = 0
               /\ (task'[d].ack /\ results'[d][m] > 0) =>
                     results'[d][m] = 1 /\ place'[m] = "acked" /\ got'[d] # m
    <3>1. CASE d = c
      BY <1>1, <2>1, <2>3, <3>1
    <3>2. CASE d # c
      BY <1>1, <1>2, <1>3, <3>2 DEF ClaimInv
    <3> QED
      BY <3>1, <3>2
  <2> QED
    BY <1>3, <1>8, <2>4, <2>5 DEF ClaimInv
<1>9. results[c] \in [Messages -> Nat]
  BY <1>2
<1>10. CASE Return(c, results[c], FALSE) \/ Return(c, results[c], TRUE)
  BY <1>7, <1>9, <1>10
<1>11. CASE ~(Return(c, results[c], FALSE) \/ Return(c, results[c], TRUE))
  BY <1>7, <1>8, <1>11, TerminatedCases
<1> QED
  BY <1>10, <1>11

LEMMA ClaimNext ==
    ASSUME TypeInv, HandInv, ClaimInv, [Next]_vars PROVE ClaimInv'
<1>0. /\ place \in [Messages -> Places \cup Clients] /\ pc \in [Clients -> PCs]
      /\ task \in [Clients -> Tasks \cup {Drain}]
      /\ got \in [Clients -> Messages \cup {NoMessage}] /\ NoMessage \notin Messages
      /\ \A c \in Clients : c # "acked"
  BY SubscriberAssumption DEF TypeInv, TypeOK, Places, NoMessage, Messages
<1>1. CASE UNCHANGED vars
  BY <1>1, ClaimsKept DEF vars
<1>2. ASSUME NEW m \in Messages, Send(m) PROVE ClaimInv'
  <2>1. \A k \in Messages : place'[k] = "acked" <=> place[k] = "acked"
    BY <1>0, <1>2 DEF Send
  <2> QED
    BY <1>2, <2>1, ClaimsKept DEF Send
<1>3. ASSUME NEW c \in Clients, NEW t \in Tasks, Call(c, t) PROVE ClaimInv'
  <2>1. /\ \A m \in Messages : results[c][m] = 0
        /\ got[c] = NoMessage
    BY <1>3 DEF Call, ClaimInv, HandInv
  <2>2. /\ UNCHANGED <<place, got, results, returned>>
        /\ \A d \in Clients \ {c} : task'[d] = task[d] /\ pc'[d] = pc[d]
    BY <1>0, <1>3 DEF Call, Goto
  <2>3. \A d \in Clients, m \in Messages :
           (~Claims(c, m)') /\ (d # c => (Claims(d, m)' <=> Claims(d, m)))
    BY <1>0, <2>1, <2>2 DEF Claims
  <2>4. ASSUME NEW m \in Messages, NEW d \in Clients
        PROVE  /\ pc'[d] = "idle" => results'[d][m] = 0
               /\ (task'[d].ack /\ results'[d][m] > 0) =>
                     results'[d][m] = 1 /\ place'[m] = "acked" /\ got'[d] # m
    <3>1. CASE d = c
      BY <2>1, <2>2, <3>1
    <3>2. CASE d # c
      BY <2>2, <3>2 DEF ClaimInv
    <3> QED
      BY <3>1, <3>2
  <2> QED
    BY <2>2, <2>3, <2>4 DEF ClaimInv
<1>4. ASSUME NEW c \in Clients, NEW m \in Messages, Deliver(c, m) PROVE ClaimInv'
  <2>1. \A k \in Messages : place'[k] = "acked" <=> place[k] = "acked"
    BY <1>0, <1>4 DEF Deliver
  <2> QED
    BY <1>4, <2>1, ClaimsKept DEF Deliver
<1>5. ASSUME NEW c \in Clients, Started(c) \/ ReceiveTimesOut(c) PROVE ClaimInv'
  <2>1. \A d \in Clients : pc'[d] = "idle" => pc[d] = "idle"
    BY <1>0, <1>5 DEF Started, ReceiveTimesOut, Goto
  <2> QED
    BY <1>5, <2>1, ClaimsKept DEF Started, ReceiveTimesOut
<1>6. ASSUME NEW c \in Clients, Received(c) PROVE ClaimInv'
  <2>1. PICK m \in Messages : place[m] = c /\ got' = [got EXCEPT ![c] = m]
    BY <1>6 DEF Received, Held
  <2>2. /\ UNCHANGED <<place, task, results, returned>>
        /\ \A d \in Clients : pc'[d] = "idle" => pc[d] = "idle"
    BY <1>0, <1>6 DEF Received, AfterReceive, Goto
  <2>3. got[c] = NoMessage /\ got'[c] = m
    BY <1>0, <1>6, <2>1 DEF Received, HandInv
  <2>4. \A d \in Clients, k \in Messages : Claims(d, k)' <=> Claims(d, k)
    BY <1>0, <2>1, <2>2, <2>3 DEF Claims
  <2>5. ASSUME NEW k \in Messages, NEW d \in Clients, task[d].ack, results[d][k] > 0
        PROVE  results[d][k] = 1 /\ place[k] = "acked" /\ got'[d] # k
    <3>1. results[d][k] = 1 /\ place[k] = "acked" /\ got[d] # k
      BY <2>5 DEF ClaimInv
    <3> QED
      BY <1>0, <2>1, <3>1
  <2> QED
    BY <2>2, <2>4, <2>5 DEF ClaimInv
<1>7. ASSUME NEW c \in Clients, Acked(c) \/ Raises(c) PROVE ClaimInv'
  <2>1. /\ UNCHANGED <<task, got, results, returned>>
        /\ \A d \in Clients : pc'[d] = "idle" => pc[d] = "idle"
    BY <1>0, <1>7 DEF Acked, Raises, Goto
  <2>2. \/ UNCHANGED place
        \/ pc[c] = "ack" /\ place' = [place EXCEPT ![got[c]] = "acked"]
    BY <1>7 DEF Acked, Raises
  <2>3. CASE UNCHANGED place
    BY <2>1, <2>3, ClaimsKept
  <2>4. CASE pc[c] = "ack" /\ place' = [place EXCEPT ![got[c]] = "acked"]
    BY <2>1, <2>4, ClaimsTaken
  <2> QED
    BY <2>2, <2>3, <2>4
<1>8. ASSUME NEW c \in Clients, Terminated(c) \/ Dies(c) PROVE ClaimInv'
  BY <1>8, ClaimsSettled
<1> QED
  BY <1>1, <1>2, <1>3, <1>4, <1>5, <1>6, <1>7, <1>8 DEF Next, CallStep

-----------------------------------------------------------------------------
(* Where the acknowledged messages are *)

(* A step that acknowledges nothing, and leaves the calls what they have.  *)
LEMMA AccountsKept ==
    ASSUME AckedIsAccounted, UNCHANGED historyVars,
           \A m \in Messages : place'[m] = "acked" <=> place[m] = "acked",
           \A m \in Messages, c \in Clients : Claims(c, m)' <=> Claims(c, m)
    PROVE  AckedIsAccounted'
  BY DEF AckedIsAccounted

(* When consume_one is over, c keeps the message, returns it, or forfeits  *)
(* it.                                                                     *)
LEMMA AccountsSettled ==
    ASSUME TypeInv, HandInv, ClaimInv, ClaimInv', AckedIsAccounted,
           NEW c \in Clients, Terminated(c) \/ Dies(c)
    PROVE  AckedIsAccounted'
<1>1. /\ got' = [got EXCEPT ![c] = NoMessage] /\ UNCHANGED task
      /\ \A d \in Clients \ {c} : results'[d] = results[d]
  BY TerminatedMoves
<1>2. /\ results \in [Clients -> [Messages -> Nat]] /\ returned \in [Messages -> Nat]
      /\ got \in [Clients -> Messages \cup {NoMessage}] /\ NoMessage \notin Messages
      /\ place \in [Messages -> Places \cup Clients] /\ \A d \in Clients : d # "acked"
  <2>1. NoMessage \notin Messages /\ \A d \in Clients : d # "acked"
    BY SubscriberAssumption DEF Places, NoMessage, Messages
  <2> QED
    BY <2>1 DEF TypeInv, TypeOK
<1>3. \A m \in Messages : place'[m] = "acked" <=> place[m] = "acked"
  <2>1. Unbind(c)
    BY TerminatedCases
  <2> QED
    BY <1>2, <2>1, UnbindFrees
<1>4. \A d \in Clients \ {c}, m \in Messages : Claims(d, m)' <=> Claims(d, m)
  BY <1>1, <1>2, <1>3 DEF Claims
<1>5. \A m \in Messages : Claims(c, m)' <=> task[c].ack /\ results'[c][m] > 0
  BY <1>1, <1>2 DEF Claims
(* The call ends and its list is returned. *)
<1>6. ASSUME NEW bag \in [Messages -> Nat], UNCHANGED forfeited, task[c].ack,
             results' = [results EXCEPT ![c] = [m \in Messages |-> 0]],
             returned' = [m \in Messages |-> returned[m] + bag[m]],
             \A m \in Messages : Claims(c, m) <=> bag[m] > 0
      PROVE  AckedIsAccounted'
  <2>1. \A m \in Messages : ~Claims(c, m)'
    BY <1>2, <1>5, <1>6
  <2>2. ASSUME NEW m \in Messages, place'[m] = "acked"
        PROVE  returned'[m] = 1 \/ m \in forfeited' \/ \E d \in Clients : Claims(d, m)'
    <3>1. returned'[m] <= 1 /\ returned'[m] \in Nat /\ returned'[m] = returned[m] + bag[m]
      BY <1>2, <1>6 DEF ClaimInv
    <3>2. returned[m] = 1 \/ m \in forfeited \/ \E d \in Clients : Claims(d, m)
      BY <1>3, <2>2 DEF AckedIsAccounted
    <3>3. returned[m] \in Nat /\ bag[m] \in Nat
      BY <1>2
    <3>4. CASE returned[m] = 1 \/ bag[m] > 0
      BY <3>1, <3>3, <3>4
    <3>5. CASE m \in forfeited \/ \E d \in Clients \ {c} : Claims(d, m)
      BY <1>4, <1>6, <3>5
    <3> QED
      BY <1>6, <3>2, <3>4, <3>5
  <2>3. ASSUME NEW m \in forfeited'
        PROVE  place'[m] = "acked" /\ returned'[m] = 0 /\ \A d \in Clients : ~Claims(d, m)'
    <3>1. /\ m \in Messages /\ place[m] = "acked" /\ returned[m] = 0
          /\ \A d \in Clients : ~Claims(d, m)
      BY <1>6, <2>3 DEF TypeInv, TypeOK, AckedIsAccounted
    <3>2. bag[m] = 0
      BY <1>6, <3>1
    <3> QED
      BY <1>3, <1>4, <1>6, <2>1, <3>1, <3>2
  <2> QED
    BY <2>2, <2>3 DEF AckedIsAccounted
(* The call ends and forfeits what it has: it raised, died or only counts. *)
<1>7. ASSUME UNCHANGED returned,
             results' = [results EXCEPT ![c] = [m \in Messages |-> 0]],
             forfeited' = forfeited \cup {m \in Messages : Claims(c, m)}
      PROVE  AckedIsAccounted'
  <2>1. \A m \in Messages : ~Claims(c, m)'
    BY <1>2, <1>5, <1>7
  <2>2. ASSUME NEW m \in Messages, place'[m] = "acked"
        PROVE  returned'[m] = 1 \/ m \in forfeited' \/ \E d \in Clients : Claims(d, m)'
    <3>1. returned[m] = 1 \/ m \in forfeited \/ \E d \in Clients : Claims(d, m)
      BY <1>3, <2>2 DEF AckedIsAccounted
    <3>2. CASE Claims(c, m)
      BY <1>7, <3>2
    <3>3. CASE ~Claims(c, m)
      BY <1>4, <1>7, <3>1, <3>3
    <3> QED
      BY <3>2, <3>3
  <2>3. ASSUME NEW m \in forfeited'
        PROVE  place'[m] = "acked" /\ returned'[m] = 0 /\ \A d \in Clients : ~Claims(d, m)'
    <3>1. CASE m \in forfeited
      <4>1. /\ m \in Messages /\ place[m] = "acked" /\ returned[m] = 0
            /\ \A d \in Clients : ~Claims(d, m)
        BY <3>1 DEF TypeInv, TypeOK, AckedIsAccounted
      <4> QED
        BY <1>3, <1>4, <1>7, <2>1, <4>1
    <3>2. CASE m \notin forfeited
      <4>1. m \in Messages /\ Claims(c, m)
        BY <1>7, <2>3, <3>2
      <4>2. place[m] = "acked"
        BY <4>1 DEF Claims, ClaimInv
      <4>3. returned[m] # 1 /\ returned[m] <= 1 /\ returned[m] \in Nat
        BY <1>2, <4>1 DEF ClaimInv
      <4>4. \A d \in Clients \ {c} : ~Claims(d, m)
        BY <4>1 DEF ClaimInv
      <4> QED
        BY <1>3, <1>4, <1>7, <2>1, <4>1, <4>2, <4>3, <4>4
    <3> QED
      BY <3>1, <3>2
  <2> QED
    BY <2>2, <2>3 DEF AckedIsAccounted
<1>8. ASSUME NEW bag \in [Messages -> Nat], NEW normally \in BOOLEAN,
             Return(c, bag, normally),
             normally /\ task[c].ack => \A m \in Messages : Claims(c, m) <=> bag[m] > 0
      PROVE  AckedIsAccounted'
  <2>1. results' = [results EXCEPT ![c] = [m \in Messages |-> 0]]
    BY <1>8 DEF Return
  <2>2. CASE normally /\ task[c].op = "consume" /\ task[c].ack
    BY <1>6, <1>8, <2>1, <2>2 DEF Return
  <2>3. CASE ~(normally /\ task[c].op = "consume" /\ task[c].ack)
    BY <1>7, <1>8, <2>1, <2>3 DEF Return
  <2> QED
    BY <2>2, <2>3
(* With the message in hand, c has collected what it claims. *)
<1>9. ASSUME NEW bag \in [Messages -> Nat], task[c].ack,
             pc[c] = "terminate", got[c] \in Messages, ~raising[c],
             bag = [results[c] EXCEPT ![got[c]] = results[c][got[c]] + 1],
             NEW m \in Messages
      PROVE  Claims(c, m) <=> bag[m] > 0
  <2>1. place[got[c]] = "acked"
    BY <1>2, <1>9 DEF HandInv
  <2>2. results[c] \in [Messages -> Nat]
    BY <1>2
  <2>3. CASE m = got[c]
    BY <1>9, <2>1, <2>2, <2>3 DEF Claims
  <2>4. CASE m # got[c]
    BY <1>9, <2>2, <2>4 DEF Claims
  <2> QED
    BY <2>3, <2>4
<1>10. CASE Return(c, results[c], FALSE)
  BY <1>2, <1>8, <1>10
<1>11. CASE got[c] = NoMessage /\ Return(c, results[c], TRUE)
  <2>1. \A m \in Messages : task[c].ack => (Claims(c, m) <=> results[c][m] > 0)
    BY <1>2, <1>11 DEF Claims
  <2>2. results[c] \in [Messages -> Nat]
    BY <1>2
  <2> QED
    BY <1>8, <1>11, <2>1, <2>2
<1>12. ASSUME NEW bag \in [Messages -> Nat],
              pc[c] = "terminate", got[c] \in Messages, ~raising[c],
              bag = [results[c] EXCEPT ![got[c]] = results[c][got[c]] + 1],
              \/ results' = [results EXCEPT ![c] = bag] /\ UNCHANGED historyVars
              \/ Return(c, bag, TRUE)
       PROVE  AckedIsAccounted'
  <2>1. \A m \in Messages : task[c].ack => (Claims(c, m) <=> bag[m] > 0)
    BY <1>9, <1>12
  <2>2. CASE Return(c, bag, TRUE)
    BY <1>8, <2>1, <2>2
  <2>3. CASE results' = [results EXCEPT ![c] = bag] /\ UNCHANGED historyVars
    <3>1. results'[c] = bag
      BY <1>2, <2>3
    <3>2. \A m \in Messages : Claims(c, m)' <=> Claims(c, m)
      BY <1>5, <2>1, <3>1 DEF Claims
    <3>3. \A m \in Messages, d \in Clients : Claims(d, m)' <=> Claims(d, m)
      BY <1>4, <3>2
    <3> QED
      BY <1>3, <2>3, <3>3, AccountsKept
  <2> QED
    BY <1>12, <2>2, <2>3
<1> QED
  BY <1>10, <1>11, <1>12, TerminatedCases

LEMMA AccountsNext ==
    ASSUME TypeInv, HandInv, ClaimInv, ClaimInv', AckedIsAccounted, [Next]_vars
    PROVE  AckedIsAccounted'
<1>0. /\ place \in [Messages -> Places \cup Clients] /\ pc \in [Clients -> PCs]
      /\ task \in [Clients -> Tasks \cup {Drain}]
      /\ got \in [Clients -> Messages \cup {NoMessage}] /\ NoMessage \notin Messages
      /\ \A c \in Clients : c # "acked"
  BY SubscriberAssumption DEF TypeInv, TypeOK, Places, NoMessage, Messages
(* Of most steps it is enough that they leave the calls what they have. *)
<1>1. ASSUME UNCHANGED <<task, got, results, returned, forfeited>>,
             \A m \in Messages : place'[m] = "acked" <=> place[m] = "acked"
      PROVE  AckedIsAccounted'
  BY <1>1, AccountsKept DEF Claims
<1>2. CASE UNCHANGED vars
  BY <1>1, <1>2 DEF vars
<1>3. ASSUME NEW m \in Messages, Send(m) \/ \E c \in Clients : Deliver(c, m)
      PROVE  AckedIsAccounted'
  BY <1>0, <1>1, <1>3 DEF Send, Deliver
<1>4. ASSUME NEW c \in Clients, NEW t \in Tasks, Call(c, t) PROVE AckedIsAccounted'
  <2>1. (\A m \in Messages : results[c][m] = 0) /\ got[c] = NoMessage
    BY <1>4 DEF Call, ClaimInv, HandInv
  <2>2. /\ UNCHANGED <<place, got, results, returned, forfeited>>
        /\ \A d \in Clients \ {c} : task'[d] = task[d]
    BY <1>0, <1>4 DEF Call
  <2>3. \A d \in Clients, m \in Messages : Claims(d, m)' <=> Claims(d, m)
    BY <1>0, <2>1, <2>2 DEF Claims
  <2> QED
    BY <2>2, <2>3, AccountsKept
<1>5. ASSUME NEW c \in Clients, Started(c) \/ ReceiveTimesOut(c) PROVE AckedIsAccounted'
  BY <1>1, <1>5 DEF Started, ReceiveTimesOut
<1>6. ASSUME NEW c \in Clients, Received(c) PROVE AckedIsAccounted'
  <2>1. PICK m \in Messages : place[m] = c /\ got' = [got EXCEPT ![c] = m]
    BY <1>6 DEF Received, Held
  <2>2. UNCHANGED <<place, task, results, returned, forfeited>>
    BY <1>6 DEF Received
  <2>3. got[c] = NoMessage
    BY <1>6 DEF Received, HandInv
  <2>4. \A d \in Clients, k \in Messages : Claims(d, k)' <=> Claims(d, k)
    BY <1>0, <2>1, <2>2, <2>3 DEF Claims
  <2> QED
    BY <2>2, <2>4, AccountsKept
<1>7. ASSUME NEW c \in Clients, Acked(c) \/ Raises(c) PROVE AckedIsAccounted'
  <2>1. UNCHANGED <<task, got, results, returned, forfeited>>
    BY <1>7 DEF Acked, Raises
  <2>2. CASE UNCHANGED place
    BY <1>1, <2>1, <2>2
  <2>3. CASE pc[c] = "ack" /\ place' = [place EXCEPT ![got[c]] = "acked"]
    <3>1. got[c] \in Messages /\ place[got[c]] = c /\ task[c].ack
      BY <1>0, <2>3 DEF HandInv
    <3>2. place'[got[c]] = "acked" /\ Claims(c, got[c])'
      BY <1>0, <2>1, <2>3, <3>1 DEF Claims
    <3>3. \A m \in Messages \ {got[c]} :
             place'[m] = place[m] /\ \A d \in Clients : Claims(d, m)' <=> Claims(d, m)
      BY <1>0, <2>1, <2>3 DEF Claims
    <3>4. got[c] \notin forfeited
      BY <1>0, <3>1 DEF AckedIsAccounted
    <3>5. ASSUME NEW m \in Messages
          PROVE  /\ place'[m] = "acked" =>
                       \/ returned[m] = 1 \/ m \in forfeited
                       \/ \E d \in Clients : Claims(d, m)'
                 /\ m \in forfeited =>
                       /\ place'[m] = "acked" /\ returned[m] = 0
                       /\ \A d \in Clients : ~Claims(d, m)'
      <4>1. CASE m = got[c]
        BY <2>1, <3>2, <3>4, <4>1 DEF Claims
      <4>2. CASE m # got[c]
        <5>1. place'[m] = place[m] /\ \A d \in Clients : Claims(d, m)' <=> Claims(d, m)
          BY <3>3, <4>2
        <5> QED
          BY <5>1 DEF AckedIsAccounted
      <4> QED
        BY <4>1, <4>2
    <3> QED
      BY <2>1, <3>5 DEF AckedIsAccounted
  <2> QED
    BY <1>7, <2>2, <2>3 DEF Acked, Raises
<1>8. ASSUME NEW c \in Clients, Terminated(c) \/ Dies(c) PROVE AckedIsAccounted'
  BY <1>8, AccountsSettled
<1> QED
  BY <1>2, <1>3, <1>4, <1>5, <1>6, <1>7, <1>8 DEF Next, CallStep

-----------------------------------------------------------------------------
(* How many messages a call takes *)

LEMMA NeverTooManyNext ==
    ASSUME TypeInv, NeverTooMany, [Next]_vars PROVE NeverTooMany'
<1>0. /\ pc \in [Clients -> PCs] /\ task \in [Clients -> Tasks \cup {Drain}]
      /\ results \in [Clients -> [Messages -> Nat]]
  BY DEF TypeInv, TypeOK
<1> HIDE DEF SizeOf
(* Of most steps it is enough that they leave the results as they are. *)
<1>1. ASSUME UNCHANGED <<task, results>>,
             \A c \in Clients : pc'[c] # "idle" => pc[c] # "idle"
      PROVE  NeverTooMany'
  BY <1>1 DEF NeverTooMany
<1>2. CASE UNCHANGED vars
  BY <1>1, <1>2 DEF vars
<1>3. ASSUME NEW m \in Messages, Send(m) PROVE NeverTooMany'
  BY <1>1, <1>3 DEF Send
<1>4. ASSUME NEW c \in Clients, NEW t \in Tasks, Call(c, t) PROVE NeverTooMany'
  <2>1. /\ task' = [task EXCEPT ![c] = t] /\ UNCHANGED results
        /\ \A d \in Clients \ {c} : pc'[d] = pc[d]
        /\ pc'[c] # "idle" => WantsMore(t, results[c])
    BY <1>0, <1>4 DEF Call, Goto
  <2>2. (pc'[c] # "idle" /\ task'[c].op = "consume") => SizeOf(results'[c]) < task'[c].n
    BY <1>0, <2>1 DEF WantsMore
  <2>3. \A d \in Clients \ {c} : task'[d] = task[d]
    BY <1>0, <2>1
  <2> QED
    BY <2>1, <2>2, <2>3 DEF NeverTooMany
<1>5. ASSUME NEW c \in Clients, NEW m \in Messages, Deliver(c, m) PROVE NeverTooMany'
  BY <1>1, <1>5 DEF Deliver
<1>6. ASSUME NEW c \in Clients,
             Started(c) \/ Received(c) \/ ReceiveTimesOut(c) \/ Acked(c) \/ Raises(c)
      PROVE  NeverTooMany'
  <2>1. UNCHANGED <<task, results>>
    BY <1>6 DEF Started, Received, ReceiveTimesOut, Acked, Raises
  <2>2. pc[c] # "idle" /\ \A d \in Clients \ {c} : pc'[d] = pc[d]
    BY <1>0, <1>6 DEF Started, Received, ReceiveTimesOut, Acked, Raises, Goto
  <2> QED
    BY <1>1, <2>1, <2>2
<1>7. ASSUME NEW c \in Clients, Terminated(c) \/ Dies(c) PROVE NeverTooMany'
  <2>1. /\ UNCHANGED task
        /\ \A d \in Clients \ {c} : pc'[d] = pc[d] /\ results'[d] = results[d]
    BY <1>7, TerminatedMoves
  <2>2. \/ pc'[c] = "idle"
        \/ pc[c] # "idle" /\ WantsMore(task[c], results'[c])
    <3>1. \A bag \in [Messages -> Nat], normally \in BOOLEAN :
             Return(c, bag, normally) => pc'[c] = "idle"
      BY <1>0 DEF Return, Goto
    <3>2. results[c] \in [Messages -> Nat]
      BY <1>0
    <3>3. CASE Return(c, results[c], FALSE) \/ Return(c, results[c], TRUE)
      BY <3>1, <3>2, <3>3
    <3>4. CASE ~(Return(c, results[c], FALSE) \/ Return(c, results[c], TRUE))
      <4>1. PICK bag \in [Messages -> Nat] :
               /\ pc[c] = "terminate"
               /\ \/ /\ WantsMore(task[c], bag)
                     /\ results' = [results EXCEPT ![c] = bag]
                  \/ Return(c, bag, TRUE)
        BY <1>7, <3>4, TerminatedCases
      <4>2. CASE Return(c, bag, TRUE)
        BY <3>1, <4>2
      <4>3. CASE ~Return(c, bag, TRUE)
        BY <1>0, <4>1, <4>3
      <4> QED
        BY <4>2, <4>3
    <3> QED
      BY <3>3, <3>4
  <2>3. (pc'[c] # "idle" /\ task'[c].op = "consume") => SizeOf(results'[c]) < task'[c].n
    BY <2>1, <2>2 DEF WantsMore, NeverTooMany
  <2> QED
    BY <2>1, <2>3 DEF NeverTooMany
<1> QED
  BY <1>2, <1>3, <1>4, <1>5, <1>6, <1>7 DEF Next, CallStep

-----------------------------------------------------------------------------
(* The invariant *)

LEMMA SubscriberInvariant == Spec => [](SubscriberInv /\ NeverTooMany)
<1>1. Init => SubscriberInv
  <2> SUFFICES ASSUME Init PROVE SubscriberInv
    OBVIOUS
  <2>1. TypeInv
    BY TypeInvInit
  <2>2. \A c \in Clients : c # "unsent"
    BY SubscriberAssumption DEF Places
  <2> QED
    BY <2>1, <2>2
       DEF Init, SubscriberInv, NothingStranded, HandInv, ClaimInv, Claims,
           AckedIsAccounted
<1>2. Init => NeverTooMany
  BY DEF Init, NeverTooMany
<1>3. SubscriberInv /\ NeverTooMany /\ [Next]_vars => (SubscriberInv /\ NeverTooMany)'
  BY TypeInvNext, StrandedNext, HandNext, ClaimNext, AccountsNext, NeverTooManyNext
     DEF SubscriberInv
<1> QED
  BY <1>1, <1>2, <1>3, PTL DEF Spec

-----------------------------------------------------------------------------
(* Theorems *)

(* Every variable keeps its type: in particular, the broker delivers no    *)
(* message more often than maxRedeliveryCount allows.                      *)
THEOREM TypeCorrect == Spec => []TypeOK
<1>1. SubscriberInv => TypeOK
  BY DEF SubscriberInv, TypeInv
<1> QED
  BY <1>1, SubscriberInvariant, PTL

(* No client holds a message without a receiver that is going to end: the  *)
(* "finally" of consume_one covers every way out of it.                    *)
THEOREM NoneStranded == Spec => []NothingStranded
<1>1. SubscriberInv => NothingStranded
  BY DEF SubscriberInv
<1> QED
  BY <1>1, SubscriberInvariant, PTL

(* What calls that acknowledge collect and return is theirs alone: no      *)
(* message is returned twice, by whatever clients, and whoever dies.       *)
THEOREM EachReturnedOnce == Spec => []ReturnedOnce
<1>1. ASSUME SubscriberInv PROVE ReturnedOnce
  <2>1. ASSUME NEW m \in Messages, NEW c \in Clients, task[c].ack, results[c][m] > 0
        PROVE  results[c][m] = 1 /\ returned[m] = 0 /\ place[m] = "acked"
    <3>1. returned[m] # 1 /\ returned[m] <= 1
      BY <1>1, <2>1 DEF SubscriberInv, ClaimInv, Claims
    <3>2. returned[m] \in Nat
      BY <1>1 DEF SubscriberInv, TypeInv, TypeOK
    <3>3. returned[m] = 0
      BY <3>1, <3>2
    <3> QED
      BY <1>1, <2>1, <3>3 DEF SubscriberInv, ClaimInv
  <2> QED
    BY <1>1, <2>1 DEF SubscriberInv, ClaimInv, ReturnedOnce
<1> QED
  BY <1>1, SubscriberInvariant, PTL

(* consume_n keeps to n, whatever n, and however often it is called.       *)
THEOREM ConsumesAtMostN == Spec => []NeverTooMany
  BY SubscriberInvariant, PTL

(* No acknowledged message is lost to its caller unless the call raised,   *)
(* died, or only counts.                                                   *)
THEOREM AckedStaysAccounted == Spec => []AckedIsAccounted
<1>1. SubscriberInv => AckedIsAccounted
  BY DEF SubscriberInv
<1> QED
  BY <1>1, SubscriberInvariant, PTL

=============================================================================
