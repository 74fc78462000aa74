------------------------ MODULE SolacePublisherProofs ------------------------
(***************************************************************************)
(* Theorems about SolacePublisher, for any events, any number of retries,  *)
(* any capacity of the library and any bounds, and their proofs.           *)
(***************************************************************************)
EXTENDS SolacePublisher, SequenceTheorems, TLAPS

-----------------------------------------------------------------------------
(* Sequences of messages *)

(* The library's buffer loses its oldest message. *)
LEMMA OldestLeaves ==
    ASSUME NEW q \in Seq(Events), q # <<>>, NEW s \in Seq(Events)
    PROVE  /\ Tail(q) \in Seq(Events)
           /\ Len(Tail(q)) <= Len(q)
           /\ Append(s, Head(q)) \in Seq(Events)
<1>1. /\ Head(q) \in Events
      /\ Tail(q) \in Seq(Events)
      /\ Len(Tail(q)) = Len(q) - 1
  BY HeadTailProperties
<1>2. Len(q) \in Nat
  BY LenProperties
<1> QED
  BY <1>1, <1>2, AppendProperties

(* What disconnect() may rely on, and what it leaves behind. *)
ShutdownOK ==
    /\ await \in {"connect", "thread", "backoff"} => life = "serving"
    /\ life = "startup" => await = "idle"
    /\ life = "disconnecting" => buffer = <<>> /\ ~open
    /\ session = "closed" => life = "ended" /\ buffer = <<>> /\ ~open

(* What the await of a call says about its event, its loop and its thread. *)
CallOK ==
    /\ await # "idle" => event \in Events
    /\ await \in {"idle", "connect", "backoff"} => thread = "none"
    /\ await \in {"thread", "backoff"} => attempt > 0
    /\ await = "backoff" => attempt < Attempts

TypeInv == TypeOK /\ CallOK /\ ShutdownOK

LEMMA AttemptsType == Attempts \in Nat \ {0}
  BY PublisherAssumption DEF Attempts

(* Counting a status keeps the counters typed. *)
LEMMA CountType ==
    ASSUME published \in [Statuses -> Nat], NEW s \in Statuses, CountStatus(s)
    PROVE  published' \in [Statuses -> Nat]
<1>1. published[s] + 1 \in Nat
  OBVIOUS
<1> QED
  BY <1>1, Zenon DEF CountStatus

LEMMA TypeInvInit ==
    ASSUME Init PROVE TypeInv
<1>1. /\ buffer \in Seq(Events) /\ broker \in Seq(Events) /\ dropped \in Seq(Events)
      /\ Len(buffer) = 0
  BY EmptySeq DEF Init
<1>2. TypeOK
  <2>1. Len(buffer) <= Capacity /\ 0 \in 0..Attempts
    BY <1>1, AttemptsType, PublisherAssumption
  <2> QED
    BY <1>1, <2>1 DEF Init, TypeOK, Lives, Awaits, Threads, Statuses, Sessions
<1> QED
  BY <1>2 DEF Init, TypeInv, CallOK, ShutdownOK

LEMMA TypeInvNext ==
    ASSUME TypeInv, [Next]_vars PROVE TypeInv'
<1> USE AttemptsType DEF TypeInv, TypeOK, CallOK, ShutdownOK, Lives, Awaits, Threads,
                         Sessions, codeVars, libVars
<1>1. CASE UNCHANGED vars
  BY <1>1 DEF vars
<1>2. CASE StartupConnects
  BY <1>2 DEF StartupConnects, Connected
<1>3. CASE StartupFails
  BY <1>3 DEF StartupFails
<1>4. ASSUME NEW e \in Events, Publish(e) PROVE TypeInv'
  BY <1>4 DEF Publish, StartAttempt
<1>5. CASE PublishStep
  <2>1. CASE PublishConnects
    BY <2>1 DEF PublishConnects, Connected, StartAttempt
  <2>2. CASE PublishCannotConnect
    <3>1. published' \in [Statuses -> Nat]
      BY <2>2, CountType DEF PublishCannotConnect, Statuses
    <3> QED
      BY <2>2, <3>1 DEF PublishCannotConnect, Return
  <2>3. CASE PublishSucceeds
    <3>1. published' \in [Statuses -> Nat]
      BY <2>3, CountType DEF PublishSucceeds, Statuses
    <3> QED
      BY <2>3, <3>1 DEF PublishSucceeds, Return
  <2>4. CASE PublishRetries
    <3>1. published' \in [Statuses -> Nat]
      BY <2>4, CountType DEF PublishRetries, Statuses
    <3> QED
      BY <2>4, <3>1 DEF PublishRetries, LastAttempt
  <2>5. CASE BackoffEnds
    BY <2>5 DEF BackoffEnds, StartAttempt
  <2>6. CASE PublishGivesUp
    <3>1. published' \in [Statuses -> Nat]
      BY <2>6, CountType DEF PublishGivesUp, Statuses
    <3> QED
      BY <2>6, <3>1 DEF PublishGivesUp, Return
  <2> QED
    BY <1>5, <2>1, <2>2, <2>3, <2>4, <2>5, <2>6 DEF PublishStep
<1>6. CASE CallCancelled
  BY <1>6 DEF CallCancelled
<1>7. CASE ThreadStep
  <2>1. CASE ThreadEntersLibrary
    BY <2>1 DEF ThreadEntersLibrary
  <2>2. CASE ThreadRaises
    BY <2>2 DEF ThreadRaises
  <2>3. CASE LibraryAccepts
    <3>1. event \in Events
      BY <2>3 DEF LibraryAccepts
    <3>2. /\ buffer' \in Seq(Events)
          /\ Len(buffer') = Len(buffer) + 1
      BY <2>3, <3>1, AppendProperties DEF LibraryAccepts
    <3>3. Len(buffer) \in Nat
      BY LenProperties
    <3>4. Len(buffer') <= Capacity
      BY <2>3, <3>2, <3>3, PublisherAssumption DEF LibraryAccepts
    <3>5. handed' \in [Events -> Nat]
      <4>1. handed[event] + 1 \in Nat
        BY <3>1
      <4> QED
        BY <2>3, <4>1, Zenon DEF LibraryAccepts
    <3> QED
      BY <2>3, <3>2, <3>4, <3>5 DEF LibraryAccepts
  <2>4. CASE LibraryRaises
    BY <2>4 DEF LibraryRaises
  <2> QED
    BY <1>7, <2>1, <2>2, <2>3, <2>4 DEF ThreadStep
<1>8. CASE Disconnect
  BY <1>8 DEF Disconnect
<1>9. CASE DisconnectSkipped
  BY <1>9 DEF DisconnectSkipped
<1>10. CASE DisconnectStep
  <2>1. CASE TerminateCloses
    BY <2>1 DEF TerminateCloses
  <2>2. CASE Terminated
    BY <2>2 DEF Terminated
  <2>3. CASE TerminateRaises
    <3>1. dropped' \in Seq(Events) /\ buffer' \in Seq(Events) /\ Len(buffer') <= Capacity
      BY <2>3, ConcatProperties, EmptySeq, PublisherAssumption DEF TerminateRaises
    <3> QED
      BY <2>3, <3>1 DEF TerminateRaises
  <2>4. CASE Disconnected
    BY <2>4 DEF Disconnected
  <2> QED
    BY <1>10, <2>1, <2>2, <2>3, <2>4 DEF DisconnectStep
<1>11. CASE BrokerStep
  <2>1. /\ buffer # <<>> /\ buffer' = Tail(buffer)
        /\ broker' \in {broker, Append(broker, Head(buffer))}
        /\ dropped' \in {dropped, Append(dropped, Head(buffer))}
        /\ session = "up"
        /\ UNCHANGED <<codeVars, session, open, handed, calls, drops>>
    BY <1>11 DEF BrokerStep, Acknowledged, Refused
  <2>2. /\ broker' \in Seq(Events) /\ dropped' \in Seq(Events)
        /\ buffer' \in Seq(Events) /\ Len(buffer') <= Len(buffer)
    BY <2>1, OldestLeaves
  <2>3. Len(buffer) \in Nat /\ Len(buffer') \in Nat /\ Capacity \in Nat
    BY <2>2, LenProperties, PublisherAssumption
  <2> QED
    BY <2>1, <2>2, <2>3
<1>12. CASE LinkDrops
  BY <1>12 DEF LinkDrops
<1>13. CASE LinkStep
  <2>1. CASE LinkReturns
    BY <2>1 DEF LinkReturns
  <2>2. CASE LinkGivesUp
    <3>1. dropped' \in Seq(Events) /\ buffer' \in Seq(Events) /\ Len(buffer') <= Capacity
      BY <2>2, ConcatProperties, EmptySeq, PublisherAssumption DEF LinkGivesUp
    <3> QED
      BY <2>2, <3>1 DEF LinkGivesUp
  <2> QED
    BY <1>13, <2>1, <2>2 DEF LinkStep
<1> QED
  BY <1>1, <1>2, <1>3, <1>4, <1>5, <1>6, <1>7, <1>8, <1>9, <1>10, <1>11, <1>12, <1>13
     DEF Next

LEMMA TypeInvariant == Spec => []TypeInv
<1>1. Init => TypeInv
  BY TypeInvInit
<1>2. TypeInv /\ [Next]_vars => TypeInv'
  BY TypeInvNext
<1> QED
  BY <1>1, <1>2, PTL DEF Spec

(* Every variable keeps its type: the loop of publish() never runs past    *)
(* its last attempt, and the library never holds more than its capacity.   *)
THEOREM TypeCorrect == Spec => []TypeOK
<1>1. TypeInv => TypeOK
  BY DEF TypeInv
<1> QED
  BY <1>1, TypeInvariant, PTL

(* A disconnect() that comes to its end leaves nothing in the library,     *)
(* whatever thread of a cancelled call is still about.                     *)
THEOREM DisconnectLeavesNothing == Spec => []DisconnectFlushes
<1>1. TypeInv => DisconnectFlushes
  BY DEF TypeInv, ShutdownOK, DisconnectFlushes
<1> QED
  BY <1>1, TypeInvariant, PTL

-----------------------------------------------------------------------------
(* Counting *)

(* The retries the call in progress may still make. *)
RetriesLeft ==
    CASE await = "connect" -> Attempts - 1
      [] await = "thread" -> Attempts - attempt
      [] await = "backoff" -> Attempts - 1 - attempt
      [] OTHER -> 0

Returned == published["success"] + published["failure"] + published["error"]

CountInv ==
    /\ calls = Returned + (IF await = "idle" THEN 0 ELSE 1)
    /\ failures = published["failure"] + published["error"]
    /\ published["retry"] + RetriesLeft <= (Attempts - 1) * calls

LEMMA RetriesLeftType ==
    ASSUME TypeInv PROVE RetriesLeft \in Nat
  BY AttemptsType DEF TypeInv, TypeOK, CallOK, RetriesLeft

(* One call more allows for Attempts - 1 retries more. *)
LEMMA RetriesOfACall ==
    \A a \in Nat \ {0}, n \in Nat :
        /\ (a - 1) * (n + 1) = (a - 1) * n + (a - 1)
        /\ (a - 1) * n \in Nat
  OBVIOUS

(* Counting a status adds one to it, and leaves the others. *)
LEMMA CountCounts ==
    ASSUME TypeOK, NEW s \in Statuses, CountStatus(s)
    PROVE  \A t \in Statuses :
              /\ published[t] \in Nat
              /\ published'[t] = IF t = s THEN published[t] + 1 ELSE published[t]
  BY DEF TypeOK, CountStatus

LEMMA CountInvNext ==
    ASSUME TypeInv, CountInv, [Next]_vars PROVE CountInv'
<1>0. /\ \A t \in Statuses : published[t] \in Nat
      /\ failures \in Nat /\ calls \in Nat /\ attempt \in 0..Attempts
      /\ Attempts \in Nat \ {0}
  BY AttemptsType DEF TypeInv, TypeOK
<1> USE DEF CountInv, Returned, RetriesLeft, codeVars, libVars
(* A step in which no call begins, ends, or retries. *)
<1>1. ASSUME UNCHANGED <<await, attempt, published, failures, calls>>
      PROVE  CountInv'
  BY <1>1
<1>2. ASSUME NEW e \in Events, Publish(e) PROVE CountInv'
  <2>1. /\ await = "idle" /\ calls' = calls + 1 /\ UNCHANGED <<published, failures>>
        /\ await' # "idle"
        /\ RetriesLeft = 0 /\ RetriesLeft' = Attempts - 1
    BY <1>2 DEF Publish, StartAttempt
  <2>2. (Attempts - 1) * calls' = (Attempts - 1) * calls + (Attempts - 1)
    BY <1>0, <2>1, RetriesOfACall
  <2>3. published["retry"] \in Nat /\ (Attempts - 1) * calls \in Nat
    BY <1>0, RetriesOfACall DEF Statuses
  <2>4. published'["retry"] + RetriesLeft' <= (Attempts - 1) * calls'
    <3> HIDE DEF RetriesLeft
    <3>1. published["retry"] + 0 <= (Attempts - 1) * calls
      BY <2>1
    <3> QED
      BY <1>0, <2>1, <2>2, <2>3, <3>1
  <2>5. calls' = Returned' + 1
    BY <1>0, <2>1 DEF Statuses
  <2> QED
    BY <2>1, <2>4, <2>5
<1>3. CASE PublishStep
  <2>1. CASE PublishConnects
    BY <1>0, <2>1 DEF PublishConnects, Connected, StartAttempt
  <2>2. CASE PublishRetries
    <3>1. \A t \in Statuses :
             published'[t] = IF t = "retry" THEN published[t] + 1 ELSE published[t]
      BY <2>2, CountCounts DEF PublishRetries, TypeInv, Statuses
    <3>2. UNCHANGED <<calls, attempt, failures>> /\ await = "thread" /\ await' = "backoff"
      BY <2>2 DEF PublishRetries
    <3>3. published'["retry"] + RetriesLeft' = published["retry"] + RetriesLeft
      BY <1>0, <3>1, <3>2 DEF Statuses
    <3> QED
      BY <1>0, <3>1, <3>2, <3>3 DEF Statuses
  <2>3. CASE BackoffEnds
    <3>1. /\ await = "backoff" /\ await' = "thread" /\ attempt' = attempt + 1
          /\ UNCHANGED <<published, failures, calls>>
      BY <2>3 DEF BackoffEnds, StartAttempt
    <3>2. RetriesLeft' = RetriesLeft
      BY <1>0, <3>1
    <3> QED
      BY <3>1, <3>2
  <2>4. ASSUME NEW s \in {"success", "failure", "error"}, CountStatus(s), Return,
               await # "idle", UNCHANGED calls,
               failures' = IF s = "success" THEN failures ELSE failures + 1
        PROVE  CountInv'
    <3>1. \A t \in Statuses :
             published'[t] = IF t = s THEN published[t] + 1 ELSE published[t]
      BY <2>4, CountCounts DEF TypeInv, Statuses
    <3>2. RetriesLeft' = 0 /\ RetriesLeft \in Nat
      BY <2>4, RetriesLeftType, Zenon DEF Return
    <3>3. published'["retry"] + RetriesLeft' <= (Attempts - 1) * calls'
      <4> HIDE DEF RetriesLeft
      <4>1. published'["retry"] = published["retry"]
        BY <3>1 DEF Statuses
      <4>2. (Attempts - 1) * calls \in Nat /\ published["retry"] \in Nat
        BY <1>0, RetriesOfACall DEF Statuses
      <4> QED
        BY <2>4, <3>2, <4>1, <4>2
    <3>4. Returned' = Returned + 1
      BY <1>0, <3>1 DEF Statuses
    <3>5. failures' = published'["failure"] + published'["error"]
      BY <1>0, <2>4, <3>1 DEF Statuses
    <3>6. Returned \in Nat
      BY <1>0 DEF Statuses
    <3> QED
      BY <2>4, <3>3, <3>4, <3>5, <3>6 DEF Return
  <2>5. CASE PublishCannotConnect \/ PublishSucceeds \/ PublishGivesUp
    BY <2>4, <2>5 DEF PublishCannotConnect, PublishSucceeds, PublishGivesUp
  <2> QED
    BY <1>3, <2>1, <2>2, <2>3, <2>5 DEF PublishStep
<1>4. CASE CallCancelled
  <2>1. /\ await # "idle" /\ await' = "cancelled"
        /\ UNCHANGED <<published, failures, calls>>
    BY <1>4 DEF CallCancelled
  <2>2. RetriesLeft' = 0 /\ RetriesLeft \in Nat
    BY <2>1, RetriesLeftType, Zenon
  <2>3. published'["retry"] + RetriesLeft' <= (Attempts - 1) * calls'
    <3> HIDE DEF RetriesLeft
    <3>1. (Attempts - 1) * calls \in Nat /\ published["retry"] \in Nat
      BY <1>0, RetriesOfACall DEF Statuses
    <3> QED
      BY <2>1, <2>2, <3>1
  <2> QED
    BY <2>1, <2>3
<1>5. CASE StartupConnects \/ StartupFails \/ Disconnect \/ DisconnectSkipped
  BY <1>1, <1>5 DEF StartupConnects, StartupFails, Disconnect, DisconnectSkipped
<1>6. CASE ThreadStep
  BY <1>1, <1>6 DEF ThreadStep, ThreadEntersLibrary, ThreadRaises, LibraryAccepts,
                    LibraryRaises
<1>7. CASE DisconnectStep
  BY <1>1, <1>7 DEF DisconnectStep, TerminateCloses, Terminated, TerminateRaises,
                    Disconnected
<1>8. CASE BrokerStep \/ LinkDrops \/ LinkStep
  BY <1>1, <1>8 DEF BrokerStep, Acknowledged, Refused, LinkDrops, LinkStep, LinkReturns,
                    LinkGivesUp
<1>9. CASE UNCHANGED vars
  BY <1>1, <1>9 DEF vars
<1> QED
  BY <1>2, <1>3, <1>4, <1>5, <1>6, <1>7, <1>8, <1>9 DEF Next

(* The metrics of publish() balance: each call ends in one final status,   *)
(* the failures counter agrees with the statuses, and there are fewer      *)
(* retries than attempts, for any setting of max_publish_retries.          *)
THEOREM CallsStayCounted == Spec => []CallsAreCounted
<1>1. Init => CountInv
  BY AttemptsType DEF Init, CountInv, Returned, RetriesLeft, Statuses
<1>2. TypeInv /\ CountInv /\ [Next]_vars => CountInv'
  BY CountInvNext
<1>3. TypeInv /\ CountInv => CallsAreCounted
  <2> SUFFICES ASSUME TypeInv, CountInv PROVE CallsAreCounted
    OBVIOUS
  <2>1. RetriesLeft \in Nat
    BY RetriesLeftType
  <2>2. (Attempts - 1) * calls \in Nat /\ published["retry"] \in Nat
    BY AttemptsType, RetriesOfACall DEF TypeInv, TypeOK, Statuses
  <2> QED
    BY <2>1, <2>2 DEF CountInv, Returned, CallsAreCounted
<1> QED
  BY <1>1, <1>2, <1>3, TypeInvariant, PTL DEF Spec

-----------------------------------------------------------------------------
(* Refinement *)

(* A step of the publisher is a step of its contract, or none. *)
LEMMA StepKeepsContract ==
    ASSUME TypeInv, [Next]_vars PROVE [Contract!Next]_(Contract!vars)
<1> DEFINE stageBar == IF await = "idle" THEN "idle"
                       ELSE IF thread = "ok" THEN "handed" ELSE "working"
           cancelledBar == await = "cancelled"
           lossesBar == published["failure"] + published["error"]
<1> USE DEF Contract!vars, codeVars, libVars
<1>0. /\ \A t \in Statuses : published[t] \in Nat
      /\ CallOK
  BY DEF TypeInv, TypeOK
(* A step that neither begins nor ends a call, nor hands its message over. *)
<1>1. ASSUME UNCHANGED <<event, handed>>,
             stageBar' = stageBar, cancelledBar' = cancelledBar,
             published'["success"] = published["success"], lossesBar' = lossesBar
      PROVE  UNCHANGED Contract!vars
  BY <1>1
<1>2. ASSUME NEW e \in Events, Publish(e) PROVE Contract!Next
  BY <1>0, <1>2 DEF Publish, StartAttempt, Contract!Next, Contract!Call, CallOK
<1>3. CASE PublishStep
  <2>1. CASE PublishConnects \/ BackoffEnds
    BY <1>0, <1>1, <2>1 DEF PublishConnects, Connected, BackoffEnds, StartAttempt, CallOK
  <2>2. CASE PublishRetries
    <3>1. \A t \in Statuses :
             published'[t] = IF t = "retry" THEN published[t] + 1 ELSE published[t]
      BY <2>2, CountCounts DEF PublishRetries, TypeInv, Statuses
    <3> QED
      BY <1>1, <2>2, <3>1 DEF PublishRetries, Statuses
  <2>3. CASE PublishSucceeds
    <3>1. \A t \in Statuses :
             published'[t] = IF t = "success" THEN published[t] + 1 ELSE published[t]
      BY <2>3, CountCounts DEF PublishSucceeds, TypeInv, Statuses
    <3>2. Contract!ReturnSuccess
      BY <2>3, <3>1 DEF PublishSucceeds, Return, Statuses, Contract!ReturnSuccess
    <3> QED
      BY <3>2 DEF Contract!Next
  <2>4. CASE PublishGivesUp
    <3>1. \A t \in Statuses :
             published'[t] = IF t = "failure" THEN published[t] + 1 ELSE published[t]
      BY <2>4, CountCounts DEF PublishGivesUp, TypeInv, Statuses
    <3>2. lossesBar' = lossesBar + 1 /\ published'["success"] = published["success"]
      BY <1>0, <3>1 DEF Statuses
    <3>3. Contract!ReturnLoss
      BY <2>4, <3>2 DEF PublishGivesUp, Return, Contract!ReturnLoss
    <3> QED
      BY <3>3 DEF Contract!Next
  <2>5. CASE PublishCannotConnect
    <3>1. \A t \in Statuses :
             published'[t] = IF t = "error" THEN published[t] + 1 ELSE published[t]
      BY <2>5, CountCounts DEF PublishCannotConnect, TypeInv, Statuses
    <3>2. lossesBar' = lossesBar + 1 /\ published'["success"] = published["success"]
      BY <1>0, <3>1 DEF Statuses
    <3>3. Contract!ReturnLoss
      BY <1>0, <2>5, <3>2 DEF PublishCannotConnect, Return, CallOK, Contract!ReturnLoss
    <3> QED
      BY <3>3 DEF Contract!Next
  <2> QED
    BY <1>3, <2>1, <2>2, <2>3, <2>4, <2>5 DEF PublishStep
<1>4. CASE CallCancelled
  BY <1>4 DEF CallCancelled, Contract!Next, Contract!Cancel
<1>5. CASE ThreadStep
  <2>1. CASE ThreadEntersLibrary \/ ThreadRaises \/ LibraryRaises
    BY <1>1, <2>1 DEF ThreadEntersLibrary, ThreadRaises, LibraryRaises
  <2>2. CASE LibraryAccepts
    BY <1>0, <2>2 DEF LibraryAccepts, CallOK, Contract!Next, Contract!HandOver
  <2> QED
    BY <1>5, <2>1, <2>2 DEF ThreadStep
<1>6. CASE StartupConnects \/ StartupFails \/ Disconnect \/ DisconnectSkipped
  BY <1>1, <1>6 DEF StartupConnects, StartupFails, Disconnect, DisconnectSkipped
<1>7. CASE DisconnectStep
  BY <1>1, <1>7 DEF DisconnectStep, TerminateCloses, Terminated, TerminateRaises,
                    Disconnected
<1>8. CASE BrokerStep \/ LinkDrops \/ LinkStep
  BY <1>1, <1>8 DEF BrokerStep, Acknowledged, Refused, LinkDrops, LinkStep, LinkReturns,
                    LinkGivesUp
<1>9. CASE UNCHANGED vars
  BY <1>1, <1>9 DEF vars
<1> QED
  BY <1>2, <1>3, <1>4, <1>5, <1>6, <1>7, <1>8, <1>9 DEF Next

(* SolacePublisher implements PublishContract: a call hands over at most   *)
(* one message however often it retries, returns after a success exactly   *)
(* when it handed one over, and leaves nothing running.                    *)
THEOREM PublisherKeepsContract == Spec => KeepsContract
<1>1. Init => Contract!Init
  BY DEF Init, Contract!Init, Statuses
<1>2. TypeInv /\ [Next]_vars => [Contract!Next]_(Contract!vars)
  BY StepKeepsContract
<1> QED
  BY <1>1, <1>2, TypeInvariant, PTL DEF Spec, KeepsContract, Contract!Spec

=============================================================================
