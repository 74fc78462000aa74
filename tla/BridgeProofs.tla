---------------------------- MODULE BridgeProofs ----------------------------
(***************************************************************************)
(* Proofs about the whole process: the bridge implements AsyncProcessor    *)
(* with its real publisher in the place of the abstract one, and what the  *)
(* two parts count and record agrees.                                      *)
(*                                                                         *)
(* The proofs of the parts are used as they are.  AsyncProcessorProofs     *)
(* speaks of the processor's variables, Pub of the publisher's.            *)
(***************************************************************************)
EXTENDS Bridge, AsyncProcessorProofs

Pub == INSTANCE SolacePublisherProofs WITH
        life <- phase, Capacity <- QueueSize, MaxCalls <- MaxDeliveries

-----------------------------------------------------------------------------
(* The invariant *)

(* How the worker, its call, the thread and the lifespan go together. *)
LinkInv ==
    /\ pc[Self] = "publish" <=> await \in {"connect", "thread", "backoff"}
    /\ pc[Self] = "publish" => event = item[Self]
    /\ await = "cancelled" => pc[Self] \in {"cancelled", "orphaned"}
    /\ (await = "cancelled" /\ thread \in {"running", "inlibrary"})
          => pc[Self] = "orphaned" /\ event = item[Self]
    /\ life[Self] = "aborted" => pc[Self] = "failed"
    /\ ~fields => ~open /\ buffer = <<>>
    /\ (phase = "ended" /\ open) => thread \notin {"running", "inlibrary"}
    /\ (phase = "ended" /\ buffer # <<>>) => life[Self] = "aborted"

(* Calls of publish() that ended with a status. *)
Ended == published["success"] + published["failure"] + published["error"]

(* Such a call whose event is about to count as a success... *)
Marking == IF pc[Self] = "mark" THEN 1 ELSE 0

(* ... or has no status of its own yet, and may never get one. *)
Pending ==
    IF pc[Self] = "mark" \/ (pc[Self] = "cancelled" /\ item[Self] # Nothing)
    THEN 1 ELSE 0

MetricsInv ==
    /\ accepted[Self] <= received
    /\ phase = "startup" => Ended = 0
    /\ phase \notin {"startup", "failed"} =>
          /\ verdicts[Self]["success"] + Marking <= Ended
          /\ Ended <= verdicts[Self]["success"] + verdicts[Self]["failure"] + Pending

(* The events that are at the broker, with the library, or lost on record. *)
Accounted == ToSet(broker) \cup ToSet(dropped) \cup ToSet(buffer) \cup lost

AccountInv ==
    /\ processed \subseteq Accounted
    /\ pc[Self] = "mark" => item[Self] \in Accounted
    /\ (pc[Self] = "publish" /\ thread = "ok") => event \in Accounted

BridgeTypes ==
    /\ ProcInv /\ Pub!TypeInv
    /\ received \in Nat /\ invalid \in Nat /\ lost \subseteq Events

BridgeInv == BridgeTypes /\ LinkInv /\ MetricsInv /\ AccountInv

-----------------------------------------------------------------------------
(* The parts *)

LEMMA BridgeConstants ==
    /\ Pub!PublisherAssumption
    /\ Self \in Replicas /\ \A r \in Replicas : r = Self
    /\ ConstantsAssumption /\ PublishMayFail
  BY ConstantsAssumption, BridgeAssumption
     DEF Pub!PublisherAssumption, ConstantsAssumption

(* S, the publisher of Bridge, is the one SolacePublisherProofs is about.  *)
LEMMA SamePublisher == (S!Next => Pub!Next) /\ (Pub!TypeOK => S!TypeOK)
<1>1. S!Next => Pub!Next
  BY DEF S!Next, Pub!Next, S!StartupConnects, Pub!StartupConnects, S!StartupFails,
         Pub!StartupFails, S!Connected, Pub!Connected, S!Publish, Pub!Publish,
         S!StartAttempt, Pub!StartAttempt, S!Return, Pub!Return, S!CountStatus,
         Pub!CountStatus, S!LastAttempt, Pub!LastAttempt, S!Attempts, Pub!Attempts,
         S!PublishStep, Pub!PublishStep, S!PublishConnects, Pub!PublishConnects,
         S!PublishCannotConnect, Pub!PublishCannotConnect, S!PublishSucceeds,
         Pub!PublishSucceeds, S!PublishRetries, Pub!PublishRetries, S!BackoffEnds,
         Pub!BackoffEnds, S!PublishGivesUp, Pub!PublishGivesUp, S!CallCancelled,
         Pub!CallCancelled, S!ThreadStep, Pub!ThreadStep, S!ThreadEntersLibrary,
         Pub!ThreadEntersLibrary, S!ThreadRaises, Pub!ThreadRaises, S!LibraryAccepts,
         Pub!LibraryAccepts, S!LibraryRaises, Pub!LibraryRaises, S!Disconnect,
         Pub!Disconnect, S!DisconnectSkipped, Pub!DisconnectSkipped, S!DisconnectStep,
         Pub!DisconnectStep, S!TerminateCloses, Pub!TerminateCloses, S!Terminated,
         Pub!Terminated, S!TerminateRaises, Pub!TerminateRaises, S!Disconnected,
         Pub!Disconnected, S!BrokerStep, Pub!BrokerStep, S!Acknowledged,
         Pub!Acknowledged, S!Refused, Pub!Refused, S!LinkDrops, Pub!LinkDrops,
         S!LinkStep, Pub!LinkStep, S!LinkReturns, Pub!LinkReturns, S!LinkGivesUp,
         Pub!LinkGivesUp, S!codeVars, Pub!codeVars, S!libVars, Pub!libVars
<1>2. Pub!TypeOK => S!TypeOK
  BY DEF S!TypeOK, Pub!TypeOK, S!Lives, Pub!Lives, S!Awaits, Pub!Awaits, S!Threads,
         Pub!Threads, S!Statuses, Pub!Statuses, S!Sessions, Pub!Sessions, S!Attempts,
         Pub!Attempts
<1> QED
  BY <1>1, <1>2

(* What the invariants say of a single replica and of a call. *)
LEMMA BridgeFacts ==
    ASSUME BridgeTypes
    PROVE  /\ pc \in [Replicas -> PCs] /\ pc[Self] \in PCs
           /\ item[Self] \in Events \cup {Nothing} /\ life[Self] \in Lives
           /\ pc[Self] \in Handling \cup {"clear", "orphaned"} => item[Self] \in Events
           /\ life[Self] \in {"down", "stopped", "aborted"}
                 => pc[Self] \in {"none", "done", "failed", "cancelled", "orphaned"}
           /\ handed \in [Events -> Nat]
           /\ await \in {"idle", "connect", "thread", "backoff", "cancelled"}
           /\ await \in {"connect", "thread", "backoff"} => phase = "serving"
           /\ await # "idle" => event \in Events
           /\ await \in {"idle", "connect", "backoff"} => thread = "none"
           /\ thread \in {"none", "running", "inlibrary", "ok", "raised"}
           /\ phase = "startup" => await = "idle"
  BY BridgeConstants
     DEF BridgeTypes, ProcInv, TypeInv, TypeOK, HandOK, LifeOK, Pub!TypeInv, Pub!TypeOK,
         Pub!CallOK, Pub!ShutdownOK, Pub!Awaits, Pub!Threads

(* A step of the worker other than its publish() hands nothing over. *)
LEMMA WorkerHandsNothing ==
    ASSUME WorkerStep(Self), pc[Self] # "publish" PROVE UNCHANGED handed
  BY DEF WorkerStep, Get, SkipInvalid, TakeHead, SkipProcessed, CheckProcessed,
         SkipInProgress, Acquire, Publish, Mark, RedisFails, Clear, ClearFails,
         WorkerReturns

(* The processor makes a step of its own, or sees nothing but a hand-over. *)
LEMMA ProcessorMoves ==
    ASSUME BridgeTypes, LinkInv, BridgeNext
    PROVE  Next \/ UNCHANGED processorVars
<1> USE BridgeConstants
<1>1. CASE Starts \/ Dies
  BY <1>1 DEF Starts, Dies, Next
<1>2. CASE StopMoves \/ StopCancels \/ StopCancelsCall
  BY <1>2 DEF StopMoves, StopCancels, StopCancelsCall, Next, StopStep
<1>3. CASE StartFails \/ Restarts \/ Disconnects \/ PostRejected
  BY <1>3 DEF StartFails, Restarts, Disconnects, PostRejected, vars, processorVars,
              storeVars
<1>4. ASSUME NEW e \in Events \cup {NoId}, Posted(e) PROVE Next
  BY <1>4 DEF Posted, Next
<1>5. CASE WorkerSteps
  BY <1>5 DEF WorkerSteps, WorkerMoves, CallsPublish, WorkerStep, Next
<1>6. CASE PublishReturns
  <2>1. pc[Self] = "publish" /\ UNCHANGED handed
    BY <1>6 DEF PublishReturns, LinkInv, S!PublishSucceeds, S!PublishGivesUp,
                S!PublishCannotConnect, S!libVars
  <2>2. Publish(Self)
    BY <1>6, <2>1 DEF PublishReturns, Publish
  <2> QED
    BY <2>2 DEF Next, WorkerStep
<1>7. CASE PublishMoves \/ ThreadMoves \/ BrokerMoves \/ LinkDrops \/ LinkMoves
  BY <1>7 DEF PublishMoves, ThreadMoves, BrokerMoves, LinkDrops, LinkMoves
<1>8. CASE ThreadHands
  <2>1. CASE await # "cancelled"
    BY <1>8, <2>1 DEF ThreadHands, processorVars
  <2>2. CASE await = "cancelled"
    <3>1. pc[Self] = "orphaned" /\ event = item[Self]
      BY <1>8, <2>2 DEF ThreadHands, LinkInv, S!LibraryAccepts
    <3>2. OrphanLands(Self)
      BY <1>8, <2>2, <3>1 DEF ThreadHands, S!LibraryAccepts, OrphanLands, Hand
    <3> QED
      BY <3>2 DEF Next
  <2> QED
    BY <2>1, <2>2
<1> QED
  BY <1>1, <1>2, <1>3, <1>4, <1>5, <1>6, <1>7, <1>8
     DEF BridgeNext, PublishSteps, ThreadSteps

(* The publisher makes a step of its own, or none, or is forgotten. *)
LEMMA PublisherMoves ==
    ASSUME BridgeTypes, BridgeNext
    PROVE  \/ Pub!Next
           \/ UNCHANGED <<publisherVars, handed>>
           \/ ForgetPublisher /\ UNCHANGED handed /\ phase' \in {"startup", "failed"}
<1> USE SamePublisher, BridgeConstants
<1>1. CASE Starts \/ StartFails
  BY <1>1 DEF Starts, StartFails, S!Next
<1>2. CASE Restarts \/ Dies
  BY <1>2 DEF Restarts, Dies
<1>3. CASE StopMoves \/ StopCancels
  BY <1>3 DEF StopMoves, StopCancels, Stop, StopReturns, StopRaises,
              StopTimeoutAbsorbed, StopTimeout, Interrupt, PublishMayLand
<1>4. CASE StopCancelsCall \/ Disconnects
  BY <1>4 DEF StopCancelsCall, Disconnects, S!Next
<1>5. ASSUME NEW e \in Events \cup {NoId}, Posted(e) PROVE UNCHANGED <<publisherVars, handed>>
  BY <1>5 DEF Posted, Enqueue, EnqueueRefused
<1>6. CASE PostRejected
  BY <1>6 DEF PostRejected, vars
<1>7. CASE WorkerMoves
  BY <1>7, WorkerHandsNothing DEF WorkerMoves
<1>8. CASE CallsPublish
  <2>1. item[Self] \in Events
    BY <1>8, BridgeFacts DEF CallsPublish, Acquire, Handling
  <2> QED
    BY <1>8, <2>1 DEF CallsPublish, S!Next
<1>9. CASE PublishSteps
  BY <1>9 DEF PublishSteps, PublishMoves, PublishReturns, S!Next, S!PublishStep
<1>10. CASE ThreadSteps
  BY <1>10 DEF ThreadSteps, ThreadMoves, ThreadHands, S!Next, S!ThreadStep
<1>11. CASE BrokerMoves \/ LinkDrops \/ LinkMoves
  BY <1>11 DEF BrokerMoves, LinkDrops, LinkMoves, S!Next
<1> QED
  BY <1>1, <1>2, <1>3, <1>4, <1>5, <1>6, <1>7, <1>8, <1>9, <1>10, <1>11
     DEF BridgeNext, WorkerSteps

LEMMA ForgetTypes ==
    ASSUME Pub!TypeInv, ForgetPublisher, UNCHANGED handed, phase' \in {"startup", "failed"}
    PROVE  Pub!TypeInv'
<1>1. buffer' \in Seq(Events) /\ Len(buffer') = 0 /\ dropped' \in Seq(Events)
  BY ConcatProperties, EmptySeq DEF ForgetPublisher, Pub!TypeInv, Pub!TypeOK
<1>2. Len(buffer') <= QueueSize /\ 0 \in 0..Pub!Attempts /\ 0 \in Nat
  BY <1>1, BridgeConstants, Pub!AttemptsType DEF Pub!PublisherAssumption
<1>3. published' \in [Pub!Statuses -> Nat]
  BY DEF ForgetPublisher, Pub!Statuses, S!Statuses
<1>4. Pub!TypeOK'
  BY <1>1, <1>2, <1>3
     DEF ForgetPublisher, Pub!TypeInv, Pub!TypeOK, Pub!Lives, Pub!Awaits, Pub!Threads,
         Pub!Sessions
<1>5. Pub!CallOK' /\ Pub!ShutdownOK'
  BY DEF ForgetPublisher, Pub!CallOK, Pub!ShutdownOK
<1> QED
  BY <1>4, <1>5 DEF Pub!TypeInv

LEMMA BridgeTypesNext ==
    ASSUME BridgeTypes, LinkInv, BridgeNext PROVE BridgeTypes'
<1>1. Pub!TypeInv'
  <2>1. CASE Pub!Next
    BY <2>1, BridgeConstants, Pub!TypeInvNext DEF BridgeTypes
  <2>2. CASE UNCHANGED <<publisherVars, handed>>
    BY <2>2 DEF BridgeTypes, Pub!TypeInv, Pub!TypeOK, Pub!CallOK, Pub!ShutdownOK,
                publisherVars, callVars, libVars
  <2>3. CASE ForgetPublisher /\ UNCHANGED handed /\ phase' \in {"startup", "failed"}
    BY <2>3, ForgetTypes DEF BridgeTypes
  <2> QED
    BY <2>1, <2>2, <2>3, PublisherMoves
<1>2. handed' \in [Events -> Nat]
  BY <1>1 DEF Pub!TypeInv, Pub!TypeOK
<1>3. ProcInv'
  <2>1. CASE Next
    BY <2>1, ProcInvNext DEF BridgeTypes
  <2>2. CASE UNCHANGED processorVars
    BY <1>2, <2>2 DEF BridgeTypes, ProcInv, TypeInv, TypeOK, HandOK, LifeOK, StoreTypeOK,
                      processorVars, storeVars
  <2> QED
    BY <2>1, <2>2, ProcessorMoves
<1>4. lost' \subseteq Events
  <2>1. UNCHANGED lost \/ (PublishReturns /\ lost' = lost \cup {event})
    BY DEF BridgeNext, Starts, StartFails, Restarts, Dies, StopMoves, StopCancels,
           StopCancelsCall, Disconnects, Posted, PostRejected, WorkerSteps, WorkerMoves,
           CallsPublish, PublishSteps, PublishMoves, PublishReturns, ThreadSteps,
           ThreadMoves, ThreadHands, BrokerMoves, LinkDrops, LinkMoves
  <2>2. PublishReturns => await # "idle"
    BY DEF PublishReturns, S!PublishSucceeds, S!PublishGivesUp, S!PublishCannotConnect
  <2> QED
    BY <2>1, <2>2, BridgeFacts DEF BridgeTypes
<1>5. received' \in Nat /\ invalid' \in Nat
  <2>1. received' \in {received, received + 1, 0} /\ invalid' \in {invalid, invalid + 1, 0}
    BY DEF BridgeNext, Starts, StartFails, Restarts, Dies, StopMoves, StopCancels,
           StopCancelsCall, Disconnects, Posted, PostRejected, WorkerSteps, WorkerMoves,
           CallsPublish, PublishSteps, PublishMoves, PublishReturns, ThreadSteps,
           ThreadMoves, ThreadHands, BrokerMoves, LinkDrops, LinkMoves, webhookVars
  <2> QED
    BY <2>1 DEF BridgeTypes
<1> QED
  BY <1>1, <1>3, <1>4, <1>5 DEF BridgeTypes

-----------------------------------------------------------------------------
(* Refinement: the processor with the messages it has seen settled *)

(* Only a message handed over for a publish() that has not returned is not *)
(* settled.                                                                *)
LEMMA SettledIs ==
    ASSUME handed \in [Events -> Nat], event \in Events \cup {Nothing}
    PROVE  /\ (pc[Self] # "publish" \/ thread # "ok") => Settled = handed
           /\ (pc[Self] = "publish" /\ thread = "ok" /\ event \in Events)
                 => handed = [Settled EXCEPT ![event] = @ + 1]
<1>1. CASE pc[Self] # "publish" \/ thread # "ok"
  BY <1>1 DEF Settled
<1>2. CASE pc[Self] = "publish" /\ thread = "ok" /\ event \in Events
  <2>1. Settled = [e \in Events |-> IF e = event THEN handed[e] - 1 ELSE handed[e]]
    BY <1>2 DEF Settled
  <2>2. \A n \in Nat : (n - 1) + 1 = n
    OBVIOUS
  <2>3. \A e \in Events : handed[e] = [Settled EXCEPT ![event] = @ + 1][e]
    BY <1>2, <2>1, <2>2
  <2>4. DOMAIN handed = Events /\ DOMAIN [Settled EXCEPT ![event] = @ + 1] = Events
    BY <2>1
  <2> QED
    BY <1>2, <2>1, <2>3, <2>4
<1> QED
  BY <1>1, <1>2

LEMMA SettledBecomes ==
    ASSUME handed' \in [Events -> Nat],
           pc'[Self] # "publish" \/ thread' # "ok"
    PROVE  Settled' = handed'
  BY DEF Settled

(* A worker that is cut off settles the message of its call. *)
LEMMA CutOff ==
    ASSUME BridgeTypes, LinkInv, Interrupt(Self), UNCHANGED handed, pc'[Self] # "publish"
    PROVE  Processor!Interrupt(Self)
<1>1. Settled' = handed /\ handed \in [Events -> Nat]
  BY SettledBecomes, BridgeFacts
<1>2. Processor!PublishMayLand(Self)
  <2>1. CASE pc[Self] = "publish" /\ thread = "ok"
    <3>1. event = item[Self] /\ event \in Events
      BY <2>1, BridgeFacts DEF LinkInv
    <3> QED
      BY <1>1, <2>1, <3>1, SettledIs DEF Processor!PublishMayLand, Processor!Hand
  <2>2. CASE ~(pc[Self] = "publish" /\ thread = "ok")
    <3>1. Settled = handed
      BY <1>1, <2>2 DEF Settled
    <3> QED
      BY <1>1, <3>1 DEF Processor!PublishMayLand
  <2> QED
    BY <2>1, <2>2
<1> QED
  BY <1>2
     DEF Interrupt, CommandMayLand, Abandon, Processor!Interrupt,
         Processor!CommandMayLand, Processor!Abandon, storeVars, Processor!storeVars,
         SetProcessing, MarkProcessed, ClearProcessing, Processor!SetProcessing,
         Processor!MarkProcessed, Processor!ClearProcessing

(* A step of the worker other than its publish(). *)
LEMMA WorkerImplements ==
    ASSUME WorkerStep(Self), pc[Self] # "publish", UNCHANGED <<handed, Settled>>
    PROVE  Processor!WorkerStep(Self)
<1> USE DEF Goto, Processor!Goto, Finish, Processor!Finish, Count, Processor!Count,
            Abandon, Processor!Abandon, Trouble, Processor!Trouble, storeVars,
            Processor!storeVars, CommandMayLand, Processor!CommandMayLand,
            SetProcessing, Processor!SetProcessing, MarkProcessed,
            Processor!MarkProcessed, ClearProcessing, Processor!ClearProcessing
<1>1. CASE Get(Self) \/ SkipInvalid(Self)
  BY <1>1 DEF Get, SkipInvalid, TakeHead, HasId, Processor!WorkerStep, Processor!Get,
              Processor!SkipInvalid, Processor!TakeHead, Processor!HasId
<1>2. CASE SkipProcessed(Self) \/ CheckProcessed(Self) \/ SkipInProgress(Self)
  BY <1>2 DEF SkipProcessed, CheckProcessed, SkipInProgress, IsProcessed, LockIsFree,
              Processor!WorkerStep, Processor!SkipProcessed, Processor!CheckProcessed,
              Processor!SkipInProgress, Processor!IsProcessed, Processor!LockIsFree
<1>3. CASE Acquire(Self)
  BY <1>3 DEF Acquire, LockIsFree, Processor!WorkerStep, Processor!Acquire,
              Processor!LockIsFree
<1>4. CASE Mark(Self) \/ Clear(Self) \/ WorkerReturns(Self)
  BY <1>4 DEF Mark, Clear, WorkerReturns, IsDrained, InStop, Processor!WorkerStep,
              Processor!Mark, Processor!Clear, Processor!WorkerReturns,
              Processor!IsDrained, Processor!InStop
<1>5. CASE RedisFails(Self) \/ ClearFails(Self)
  BY <1>5 DEF RedisFails, ClearFails, Processor!WorkerStep, Processor!RedisFails,
              Processor!ClearFails
<1> QED
  BY <1>1, <1>2, <1>3, <1>4, <1>5 DEF WorkerStep, Publish

LEMMA StepImplements ==
    ASSUME BridgeTypes, LinkInv, BridgeNext PROVE [Processor!Next]_(Processor!vars)
<1> USE BridgeConstants
<1>0. /\ handed \in [Events -> Nat] /\ handed' \in [Events -> Nat]
      /\ event \in Events \cup {Nothing}
  BY BridgeTypesNext DEF BridgeTypes, Pub!TypeInv, Pub!TypeOK
(* A step that the processor does not see. *)
<1>1. ASSUME UNCHANGED processorVars, Settled' = Settled PROVE UNCHANGED Processor!vars
  BY <1>1 DEF processorVars, storeVars, Processor!vars
<1>2. ASSUME UNCHANGED <<handed, pc, event>>, thread' = "ok" <=> thread = "ok"
      PROVE  Settled' = Settled
  BY <1>2 DEF Settled
<1>3. CASE Starts
  <2>1. pc[Self] # "publish" /\ pc'[Self] # "publish" /\ UNCHANGED handed
    BY <1>3, BridgeFacts DEF Starts, Boot, Goto
  <2>2. Settled' = Settled
    BY <1>0, <2>1, SettledIs, SettledBecomes
  <2>3. Processor!Boot(Self)
    BY <1>3, <2>2 DEF Starts, Boot, Processor!Boot, Goto, Processor!Goto, EmptyMemory,
                      Processor!EmptyMemory, storeVars, Processor!storeVars, NoVerdicts,
                      Processor!NoVerdicts, Verdicts, Processor!Verdicts
  <2> QED
    BY <2>3 DEF Processor!Next
<1>4. CASE StartFails \/ Disconnects
  <2>1. UNCHANGED <<processorVars, handed, event, thread>>
    BY <1>4 DEF StartFails, Disconnects, S!StartupFails, S!Disconnect,
                S!DisconnectSkipped, S!DisconnectStep, S!TerminateCloses, S!Terminated,
                S!TerminateRaises, S!Disconnected, S!libVars, S!codeVars
  <2> QED
    BY <1>1, <1>2, <2>1 DEF processorVars
<1>5. CASE Restarts
  <2>1. UNCHANGED <<processorVars, handed>> /\ thread' # "ok" /\ phase # "serving"
    BY <1>5 DEF Restarts, ForgetPublisher
  <2>2. pc[Self] # "publish"
    BY <2>1, BridgeFacts DEF LinkInv
  <2>3. Settled' = Settled
    BY <1>0, <2>1, <2>2, SettledIs, SettledBecomes
  <2> QED
    BY <1>1, <2>1, <2>3
<1>6. CASE Dies
  <2>1. Crash(Self) /\ UNCHANGED handed /\ pc'[Self] # "publish"
    BY <1>6, BridgeFacts DEF Dies, Crash, Goto
  <2>2. Processor!Interrupt(Self)
    BY <2>1, CutOff DEF Crash
  <2>3. Processor!Crash(Self)
    BY <2>1, <2>2 DEF Crash, Processor!Crash, Goto, Processor!Goto, EmptyMemory,
                      Processor!EmptyMemory, NoVerdicts, Processor!NoVerdicts, Verdicts,
                      Processor!Verdicts
  <2> QED
    BY <2>3 DEF Processor!Next
<1>7. CASE StopMoves
  <2>1. UNCHANGED <<handed, pc, event, thread>>
    BY <1>7 DEF StopMoves, Stop, StopReturns, StopRaises, StopTimeoutAbsorbed,
                publisherVars, callVars
  <2>2. Settled' = Settled
    BY <1>2, <2>1
  <2> QED
    BY <1>7, <2>2
       DEF StopMoves, Stop, StopReturns, StopRaises, StopTimeoutAbsorbed, InStop,
           storeVars, Processor!Next, Processor!StopStep, Processor!Stop,
           Processor!StopReturns, Processor!StopRaises, Processor!StopTimeoutAbsorbed,
           Processor!InStop, Processor!storeVars
<1>8. ASSUME StopTimeout(Self), UNCHANGED handed PROVE Processor!Next
  <2>1. pc'[Self] # "publish"
    BY <1>8, BridgeFacts DEF StopTimeout, Goto
  <2>2. Processor!Interrupt(Self)
    BY <1>8, <2>1, CutOff DEF StopTimeout
  <2>3. Processor!StopTimeout(Self)
    BY <1>8, <2>2 DEF StopTimeout, Processor!StopTimeout, Goto, Processor!Goto,
                      Handling, Processor!Handling
  <2> QED
    BY <2>3 DEF Processor!Next, Processor!StopStep
<1>9. CASE StopCancels
  <2>1. UNCHANGED handed
    BY <1>9 DEF StopCancels, StopTimeout, Interrupt, PublishMayLand
  <2> QED
    BY <1>8, <1>9, <2>1 DEF StopCancels
<1>10. CASE StopCancelsCall
  <2>1. UNCHANGED <<handed, thread>>
    BY <1>10 DEF StopCancelsCall, S!CallCancelled, S!libVars
  <2>2. CASE thread \in {"running", "inlibrary"}
    <3>1. Settled' = Settled
      BY <1>0, <2>1, <2>2, SettledIs, SettledBecomes
    <3>2. Processor!StopTimeoutOrphans(Self)
      BY <1>10, <2>2, <3>1
         DEF StopCancelsCall, StopTimeoutOrphans, Processor!StopTimeoutOrphans, Goto,
             Processor!Goto, Abandon, Processor!Abandon, storeVars, Processor!storeVars
    <3> QED
      BY <3>2 DEF Processor!Next, Processor!StopStep
  <2>3. CASE thread \notin {"running", "inlibrary"}
    BY <1>8, <1>10, <2>1, <2>3 DEF StopCancelsCall
  <2> QED
    BY <2>2, <2>3
<1>11. ASSUME NEW e \in Events \cup {NoId}, Posted(e) PROVE Processor!Next
  <2>1. UNCHANGED <<handed, pc, event, thread>>
    BY <1>11 DEF Posted, Enqueue, EnqueueRefused, publisherVars, callVars
  <2>2. Settled' = Settled
    BY <1>2, <2>1
  <2> QED
    BY <1>11, <2>2
       DEF Posted, Enqueue, EnqueueRefused, QueueIsFull, storeVars, Processor!Next,
           Processor!Enqueue, Processor!EnqueueRefused, Processor!QueueIsFull,
           Processor!storeVars
<1>12. CASE PostRejected
  <2>1. UNCHANGED <<processorVars, handed, event, thread>>
    BY <1>12 DEF PostRejected, vars, processorVars, storeVars, publisherVars, callVars
  <2> QED
    BY <1>1, <1>2, <2>1 DEF processorVars
<1>13. CASE WorkerMoves
  <2>1. UNCHANGED handed
    BY <1>13, WorkerHandsNothing DEF WorkerMoves
  <2>2. Settled' = Settled
    BY <1>0, <1>13, <2>1, SettledIs, SettledBecomes DEF WorkerMoves
  <2> QED
    BY <1>13, <2>1, <2>2, WorkerImplements DEF WorkerMoves, Processor!Next
<1>14. CASE CallsPublish
  <2>1. UNCHANGED handed /\ thread' # "ok" /\ pc[Self] # "publish" /\ WorkerStep(Self)
    BY <1>14, BridgeFacts
       DEF CallsPublish, Acquire, WorkerStep, S!Publish, S!StartAttempt
  <2>2. Settled' = Settled
    BY <1>0, <2>1, SettledIs, SettledBecomes
  <2> QED
    BY <2>1, <2>2, WorkerImplements DEF Processor!Next
<1>15. CASE PublishReturns
  <2>1. /\ pc[Self] = "publish" /\ UNCHANGED handed /\ thread' = "none"
        /\ event = item[Self] /\ event \in Events
    BY <1>15, BridgeFacts
       DEF PublishReturns, LinkInv, S!PublishSucceeds, S!PublishGivesUp,
           S!PublishCannotConnect, S!Return, S!libVars
  <2>2. Settled' = handed
    BY <1>0, <2>1, SettledBecomes
  <2>3. Processor!Hand(item[Self]) \/ Settled' = Settled
    BY <1>0, <2>1, <2>2, SettledIs DEF Processor!Hand
  <2>4. Processor!Publish(Self)
    BY <1>15, <2>1, <2>3
       DEF PublishReturns, Processor!Publish, Goto, Processor!Goto, storeVars,
           Processor!storeVars
  <2> QED
    BY <2>4 DEF Processor!Next, Processor!WorkerStep
<1>16. CASE PublishMoves \/ ThreadMoves
  <2>1. UNCHANGED <<processorVars, handed>> /\ thread # "ok" /\ thread' # "ok"
    BY <1>16, BridgeFacts
       DEF PublishMoves, ThreadMoves, S!PublishConnects, S!StartAttempt,
           S!PublishRetries, S!BackoffEnds, S!ThreadEntersLibrary, S!ThreadRaises,
           S!LibraryRaises, S!libVars
  <2>2. Settled' = Settled
    BY <1>0, <2>1, SettledIs, SettledBecomes
  <2> QED
    BY <1>1, <2>1, <2>2
<1>17. CASE ThreadHands
  <2>1. /\ thread = "inlibrary" /\ thread' = "ok" /\ event' = event
        /\ handed' = [handed EXCEPT ![event] = @ + 1]
        /\ await \in {"thread", "cancelled"} /\ event \in Events
    BY <1>17, BridgeFacts DEF ThreadHands, S!LibraryAccepts
  <2>2. Settled = handed
    BY <1>0, <2>1, SettledIs
  <2>3. CASE await = "cancelled"
    <3>1. pc[Self] = "orphaned" /\ event = item[Self] /\ pc'[Self] = "cancelled"
      BY <1>17, <2>1, <2>3, BridgeFacts DEF ThreadHands, LinkInv, Goto
    <3>2. Settled' = handed'
      BY <1>0, <3>1, SettledBecomes
    <3>3. Processor!OrphanLands(Self)
      BY <1>17, <2>1, <2>2, <2>3, <3>1, <3>2
         DEF ThreadHands, Processor!OrphanLands, Processor!Hand, Goto, Processor!Goto,
             storeVars, Processor!storeVars
    <3> QED
      BY <3>3 DEF Processor!Next
  <2>4. CASE await = "thread"
    <3>1. pc[Self] = "publish" /\ UNCHANGED processorVars
      BY <1>17, <2>4 DEF ThreadHands, LinkInv, processorVars
    <3>2. Settled' = [e \in Events |-> IF e = event THEN handed'[e] - 1 ELSE handed'[e]]
      BY <2>1, <3>1 DEF Settled, processorVars
    <3>3. \A n \in Nat : (n + 1) - 1 = n
      OBVIOUS
    <3>4. \A e \in Events : (IF e = event THEN handed'[e] - 1 ELSE handed'[e]) = handed[e]
      BY <1>0, <2>1, <3>3
    <3>5. Settled' = Settled
      BY <1>0, <2>2, <3>2, <3>4
    <3> QED
      BY <1>1, <3>1, <3>5
  <2> QED
    BY <2>1, <2>3, <2>4
<1>18. CASE BrokerMoves \/ LinkDrops \/ LinkMoves
  <2>1. UNCHANGED <<processorVars, handed, event, thread>>
    BY <1>18 DEF BrokerMoves, LinkDrops, LinkMoves, S!BrokerStep, S!Acknowledged,
                 S!Refused, S!LinkDrops, S!LinkStep, S!LinkReturns, S!LinkGivesUp,
                 S!codeVars
  <2> QED
    BY <1>1, <1>2, <2>1 DEF processorVars
<1> QED
  BY <1>3, <1>4, <1>5, <1>6, <1>7, <1>9, <1>10, <1>11, <1>12, <1>13, <1>14, <1>15,
     <1>16, <1>17, <1>18
     DEF BridgeNext, WorkerSteps, PublishSteps, ThreadSteps

-----------------------------------------------------------------------------
(* The worker and its call *)

(* A step of the processor alone, which leaves the call as it is. *)
LEMMA LinkKept ==
    ASSUME BridgeTypes, LinkInv, UNCHANGED publisherVars,
           pc'[Self] = "publish" <=> pc[Self] = "publish",
           pc[Self] = "publish" => UNCHANGED item,
           pc[Self] \in {"cancelled", "orphaned"} => UNCHANGED <<pc, item>>,
           life'[Self] = "aborted" => pc'[Self] = "failed",
           life[Self] = "aborted" => life'[Self] = "aborted"
    PROVE  LinkInv'
  BY DEF LinkInv, publisherVars, callVars, libVars

(* A step of the publisher, its thread or the library within a call. *)
LEMMA LinkMovesOn ==
    ASSUME BridgeTypes, LinkInv, UNCHANGED <<pc, item, life, event>>,
           await' = await \/ {await, await'} \subseteq {"connect", "thread", "backoff"},
           (await = "cancelled" /\ thread' \in {"running", "inlibrary"})
               => thread \in {"running", "inlibrary"},
           ~fields' => ~open' /\ buffer' = <<>>,
           (phase' = "ended" /\ open') => thread' \notin {"running", "inlibrary"},
           (phase' = "ended" /\ buffer' # <<>>) => life[Self] = "aborted"
    PROVE  LinkInv'
  BY DEF LinkInv

LEMMA LinkInvNext ==
    ASSUME BridgeTypes, LinkInv, BridgeNext PROVE LinkInv'
<1> USE BridgeConstants
<1>0. /\ pc \in [Replicas -> PCs] /\ item \in [Replicas -> Events \cup {Nothing}]
      /\ life \in [Replicas -> Lives]
  BY DEF BridgeTypes, ProcInv, TypeInv, TypeOK
<1>1. CASE Starts
  <2>1. /\ pc'[Self] = "get" /\ life'[Self] = "running"
        /\ phase' = "serving" /\ fields' /\ await' = "idle"
    BY <1>0, <1>1, BridgeFacts
       DEF Starts, Boot, Goto, S!StartupConnects, S!Connected
  <2> QED
    BY <2>1 DEF LinkInv
<1>2. CASE StartFails
  <2>1. /\ UNCHANGED <<pc, item, life, await, event, thread, fields, open, buffer>>
        /\ phase' = "failed"
    BY <1>2 DEF StartFails, S!StartupFails, S!libVars, processorVars
  <2> QED
    BY <2>1 DEF LinkInv
<1>3. CASE Restarts
  <2>1. /\ UNCHANGED <<pc, item, life>> /\ await' = "idle" /\ ~open' /\ buffer' = <<>>
        /\ phase # "serving" /\ phase' = "startup"
    BY <1>3 DEF Restarts, ForgetPublisher, processorVars
  <2>2. pc[Self] # "publish"
    BY <2>1, BridgeFacts DEF LinkInv
  <2> QED
    BY <2>1, <2>2 DEF LinkInv
<1>4. CASE Dies
  <2>1. pc'[Self] = "none" /\ life'[Self] = "down" /\ await' = "idle" /\ ~open'
        /\ buffer' = <<>>
    BY <1>0, <1>4 DEF Dies, Crash, Goto, ForgetPublisher
  <2> QED
    BY <2>1 DEF LinkInv
<1>5. CASE StopMoves
  <2>1. /\ UNCHANGED <<pc, item, publisherVars>>
        /\ life'[Self] = "aborted" => pc[Self] = "failed"
        /\ life[Self] = "aborted" => life'[Self] = "aborted"
    BY <1>0, <1>5
       DEF StopMoves, Stop, StopReturns, StopRaises, StopTimeoutAbsorbed, InStop
  <2> QED
    BY <2>1, LinkKept
<1>6. CASE StopCancels
  <2>1. /\ pc'[Self] = "cancelled" /\ pc[Self] # "publish" /\ life'[Self] = "stopped"
        /\ pc[Self] \notin {"cancelled", "orphaned"} /\ UNCHANGED publisherVars
        /\ life[Self] # "aborted"
    BY <1>0, <1>6 DEF StopCancels, StopTimeout, Goto, Handling
  <2> QED
    BY <2>1, LinkKept
<1>7. CASE StopCancelsCall
  <2>1. /\ phase' = "serving" /\ await' = "cancelled"
        /\ UNCHANGED <<event, thread, fields, open, buffer>>
        /\ await \in {"connect", "thread", "backoff"}
    BY <1>7 DEF StopCancelsCall, S!CallCancelled, S!libVars
  <2>2. pc[Self] = "publish" /\ event = item[Self]
    BY <2>1 DEF LinkInv
  <2>3. /\ life'[Self] = "stopped" /\ pc'[Self] \in {"cancelled", "orphaned"}
        /\ thread \in {"running", "inlibrary"} =>
              pc'[Self] = "orphaned" /\ item'[Self] = item[Self]
    BY <1>0, <1>7 DEF StopCancelsCall, StopTimeout, StopTimeoutOrphans, Goto
  <2> QED
    BY <2>1, <2>2, <2>3 DEF LinkInv
<1>8. CASE Disconnects
  <2>1. UNCHANGED <<pc, item, life, event, await, thread>>
    BY <1>8
       DEF Disconnects, processorVars, S!Disconnect, S!DisconnectSkipped,
           S!DisconnectStep, S!TerminateCloses, S!Terminated, S!TerminateRaises,
           S!Disconnected, S!codeVars
  <2>2. ~fields' => ~open' /\ buffer' = <<>>
    <3>1. phase = "disconnecting" => ~open /\ buffer = <<>>
      BY DEF BridgeTypes, Pub!TypeInv, Pub!ShutdownOK
    <3> QED
      BY <1>8, <3>1
         DEF Disconnects, LinkInv, S!Disconnect, S!DisconnectSkipped, S!DisconnectStep,
             S!TerminateCloses, S!Terminated, S!TerminateRaises, S!Disconnected,
             S!codeVars, S!libVars
  <2>3. ASSUME phase' = "ended", open' PROVE thread' \notin {"running", "inlibrary"}
    <3>1. phase = "disconnecting" => ~open
      BY DEF BridgeTypes, Pub!TypeInv, Pub!ShutdownOK
    <3>2. CASE life[Self] = "aborted" /\ S!DisconnectSkipped
      <4>1. await = "idle"
        BY <3>2 DEF LinkInv, S!DisconnectSkipped
      <4> QED
        BY <2>1, <4>1, BridgeFacts
    <3>3. CASE ~(life[Self] = "aborted" /\ S!DisconnectSkipped)
      <4>1. phase = "ended" /\ open
        BY <1>8, <2>3, <3>1, <3>3
           DEF Disconnects, LinkInv, S!Disconnect, S!DisconnectStep, S!TerminateCloses,
               S!Terminated, S!TerminateRaises, S!Disconnected, S!codeVars, S!libVars
      <4> QED
        BY <2>1, <4>1 DEF LinkInv
    <3> QED
      BY <3>2, <3>3
  <2>4. ASSUME phase' = "ended", buffer' # <<>> PROVE life[Self] = "aborted"
    <3>1. phase = "disconnecting" => buffer = <<>>
      BY DEF BridgeTypes, Pub!TypeInv, Pub!ShutdownOK
    <3> QED
      BY <1>8, <2>4, <3>1
         DEF Disconnects, LinkInv, S!Disconnect, S!DisconnectSkipped, S!DisconnectStep,
             S!TerminateCloses, S!Terminated, S!TerminateRaises, S!Disconnected,
             S!codeVars, S!libVars
  <2> QED
    BY <2>1, <2>2, <2>3, <2>4, LinkMovesOn
<1>9. ASSUME NEW e \in Events \cup {NoId}, Posted(e) PROVE LinkInv'
  <2>1. UNCHANGED <<pc, item, life, publisherVars>>
    BY <1>9 DEF Posted, Enqueue, EnqueueRefused
  <2> QED
    BY <2>1, LinkKept DEF LinkInv
<1>10. CASE PostRejected
  <2>1. UNCHANGED <<pc, item, life, publisherVars>>
    BY <1>10 DEF PostRejected, vars
  <2> QED
    BY <2>1, LinkKept DEF LinkInv
<1>11. CASE WorkerMoves
  <2>1. /\ pc[Self] # "publish" /\ pc'[Self] # "publish" /\ UNCHANGED <<life, publisherVars>>
        /\ pc[Self] \notin {"cancelled", "orphaned", "failed"}
    BY <1>11
       DEF WorkerMoves, WorkerStep, Get, SkipInvalid, TakeHead, SkipProcessed,
           CheckProcessed, SkipInProgress, Acquire, Publish, Mark, RedisFails, Clear,
           ClearFails, WorkerReturns
  <2>2. life[Self] # "aborted"
    BY <2>1 DEF LinkInv
  <2> QED
    BY <2>1, <2>2, LinkKept
<1>12. CASE CallsPublish
  <2>1. /\ pc[Self] = "setnx" /\ pc'[Self] = "publish" /\ UNCHANGED <<item, life>>
        /\ event' = item[Self] /\ await' \in {"connect", "thread"}
        /\ phase' = "serving" /\ UNCHANGED <<fields, open, buffer>>
    BY <1>12 DEF CallsPublish, Acquire, S!Publish, S!StartAttempt, S!libVars
  <2> QED
    BY <2>1 DEF LinkInv
<1>13. CASE PublishReturns
  <2>1. /\ pc'[Self] = "mark" /\ await' = "idle" /\ UNCHANGED <<life, fields, open, buffer>>
        /\ await \in {"connect", "thread"} /\ phase' = phase
    BY <1>0, <1>13
       DEF PublishReturns, Goto, S!PublishSucceeds, S!PublishGivesUp,
           S!PublishCannotConnect, S!Return, S!libVars
  <2>2. pc[Self] = "publish" /\ phase' = "serving"
    BY <2>1, BridgeFacts DEF LinkInv
  <2> QED
    BY <2>1, <2>2 DEF LinkInv
<1>14. CASE PublishMoves
  <2>1. /\ UNCHANGED <<pc, item, life, event, phase>>
        /\ {await, await'} \subseteq {"connect", "thread", "backoff"}
        /\ fields' \/ UNCHANGED <<fields, open, buffer>>
    BY <1>14
       DEF PublishMoves, processorVars, S!PublishConnects, S!Connected, S!StartAttempt,
           S!PublishRetries, S!BackoffEnds, S!libVars
  <2>2. phase' = "serving"
    BY <2>1, BridgeFacts
  <2>3. ~fields' => ~open' /\ buffer' = <<>>
    BY <2>1 DEF LinkInv
  <2> QED
    BY <2>1, <2>2, <2>3, LinkMovesOn
<1>15. CASE ThreadMoves
  <2>1. /\ UNCHANGED <<pc, item, life, event, phase, await, fields, open, buffer>>
        /\ thread' \in {"running", "inlibrary"} => thread \in {"running", "inlibrary"}
    BY <1>15
       DEF ThreadMoves, processorVars, S!ThreadEntersLibrary, S!ThreadRaises,
           S!LibraryRaises, S!libVars
  <2> QED
    BY <2>1, LinkMovesOn DEF LinkInv
<1>16. CASE ThreadHands
  <2>1. /\ UNCHANGED <<item, life, event, phase, await, fields, open>> /\ thread' = "ok"
        /\ await # "cancelled" => UNCHANGED pc
        /\ thread = "inlibrary" /\ open
        /\ await = "cancelled" => pc'[Self] = "cancelled"
    BY <1>0, <1>16 DEF ThreadHands, S!LibraryAccepts, Goto
  <2>2. await = "cancelled" => pc[Self] = "orphaned"
    BY <2>1 DEF LinkInv
  <2> QED
    BY <2>1, <2>2 DEF LinkInv
<1>17. CASE BrokerMoves \/ LinkDrops \/ LinkMoves
  <2>1. /\ UNCHANGED <<pc, item, life, event, phase, await, fields, thread>>
        /\ open' => open
        /\ buffer = <<>> => buffer' = <<>>
    BY <1>17
       DEF BrokerMoves, LinkDrops, LinkMoves, processorVars, S!BrokerStep,
           S!Acknowledged, S!Refused, S!LinkDrops, S!LinkStep, S!LinkReturns,
           S!LinkGivesUp, S!codeVars
  <2> QED
    BY <2>1, LinkMovesOn DEF LinkInv
<1> QED
  BY <1>1, <1>2, <1>3, <1>4, <1>5, <1>6, <1>7, <1>8, <1>9, <1>10, <1>11, <1>12, <1>13,
     <1>14, <1>15, <1>16, <1>17
     DEF BridgeNext, WorkerSteps, PublishSteps, ThreadSteps

-----------------------------------------------------------------------------
(* The metrics *)

LEMMA MetricsTypes ==
    ASSUME BridgeTypes
    PROVE  /\ accepted[Self] \in Nat /\ received \in Nat
           /\ \A v \in Verdicts : verdicts[Self][v] \in Nat
           /\ \A s \in Pub!Statuses : published[s] \in Nat
           /\ Ended \in Nat /\ Pending \in {0, 1} /\ Marking \in {0, 1}
<1>1. /\ accepted[Self] \in Nat /\ received \in Nat
      /\ \A v \in Verdicts : verdicts[Self][v] \in Nat
      /\ \A s \in Pub!Statuses : published[s] \in Nat
  BY BridgeConstants
     DEF BridgeTypes, ProcInv, TypeInv, TypeOK, Pub!TypeInv, Pub!TypeOK
<1>2. Ended \in Nat
  BY <1>1 DEF Ended, Pub!Statuses
<1> QED
  BY <1>1, <1>2 DEF Pending, Marking

(* Counting the status of an event, or of a call, counts just that one. *)
LEMMA VerdictCounted ==
    ASSUME BridgeTypes, NEW v \in Verdicts, Count(Self, v)
    PROVE  \A w \in Verdicts :
              verdicts'[Self][w] = IF w = v THEN verdicts[Self][w] + 1 ELSE verdicts[Self][w]
<1>1. verdicts \in [Replicas -> [Verdicts -> Nat]] /\ Self \in Replicas
  BY BridgeConstants DEF BridgeTypes, ProcInv, TypeInv, TypeOK
<1>2. verdicts'[Self] = [verdicts[Self] EXCEPT ![v] = @ + 1]
  BY <1>1 DEF Count
<1> QED
  BY <1>1, <1>2

LEMMA CallEnds ==
    ASSUME BridgeTypes, NEW s \in Pub!Statuses, S!CountStatus(s)
    PROVE  Ended' = IF s = "retry" THEN Ended ELSE Ended + 1
<1>1. \A t \in Pub!Statuses :
          /\ published[t] \in Nat
          /\ published'[t] = IF t = s THEN published[t] + 1 ELSE published[t]
  BY DEF BridgeTypes, Pub!TypeInv, Pub!TypeOK, S!CountStatus
<1> QED
  BY <1>1 DEF Ended, Pub!Statuses

(* A step within the life of a process that is neither starting nor dying. *)
LEMMA MetricsMove ==
    ASSUME BridgeTypes, BridgeTypes', MetricsInv,
           accepted'[Self] - accepted[Self] <= received' - received,
           \/ UNCHANGED <<phase, published>>
           \/ {phase, phase'} \cap {"startup", "failed"} = {},
           verdicts'[Self]["success"] + Marking' - verdicts[Self]["success"] - Marking
               <= Ended' - Ended,
           Ended' - Ended
               <= verdicts'[Self]["success"] + verdicts'[Self]["failure"] + Pending'
                    - verdicts[Self]["success"] - verdicts[Self]["failure"] - Pending
    PROVE  MetricsInv'
<1>1. /\ accepted[Self] \in Nat /\ received \in Nat /\ Ended \in Nat
      /\ verdicts[Self]["success"] \in Nat /\ verdicts[Self]["failure"] \in Nat
      /\ Pending \in Nat /\ Marking \in Nat
  BY MetricsTypes DEF Verdicts
<1>2. /\ accepted'[Self] \in Nat /\ received' \in Nat /\ Ended' \in Nat
      /\ verdicts'[Self]["success"] \in Nat /\ verdicts'[Self]["failure"] \in Nat
      /\ Pending' \in Nat /\ Marking' \in Nat
  <2>1. published' \in [Pub!Statuses -> Nat] /\ received' \in Nat
    BY DEF BridgeTypes, Pub!TypeInv, Pub!TypeOK
  <2>2. accepted' \in [Replicas -> Nat] /\ verdicts' \in [Replicas -> [Verdicts -> Nat]]
    BY DEF BridgeTypes, ProcInv, TypeInv, TypeOK
  <2>3. accepted'[Self] \in Nat /\ verdicts'[Self] \in [Verdicts -> Nat]
    BY <2>2, BridgeConstants
  <2>4. Ended' \in Nat
    BY <2>1 DEF Ended, Pub!Statuses
  <2> QED
    BY <2>1, <2>3, <2>4 DEF Pending, Marking, Verdicts
<1>3. accepted'[Self] <= received'
  BY <1>1, <1>2 DEF MetricsInv
<1>4. CASE UNCHANGED <<phase, published>>
  <2>1. Ended' = Ended
    BY <1>4 DEF Ended
  <2> QED
    BY <1>1, <1>2, <1>3, <1>4, <2>1 DEF MetricsInv
<1>5. CASE {phase, phase'} \cap {"startup", "failed"} = {}
  <2>1. phase \notin {"startup", "failed"} /\ phase' \notin {"startup", "failed"}
    BY <1>5
  <2> QED
    BY <1>1, <1>2, <1>3, <2>1 DEF MetricsInv
<1> QED
  BY <1>4, <1>5

LEMMA MetricsInvNext ==
    ASSUME BridgeTypes, BridgeTypes', LinkInv, MetricsInv, BridgeNext
    PROVE  MetricsInv'
<1> USE BridgeConstants
<1>0. /\ pc \in [Replicas -> PCs] /\ item \in [Replicas -> Events \cup {Nothing}]
      /\ accepted \in [Replicas -> Nat]
      /\ accepted[Self] \in Nat /\ received \in Nat
      /\ \A v \in Verdicts : verdicts[Self][v] \in Nat
      /\ Ended \in Nat /\ Pending \in {0, 1} /\ Marking \in {0, 1}
  BY MetricsTypes DEF BridgeTypes, ProcInv, TypeInv, TypeOK
(* A step that counts nothing and leaves the worker where it is. *)
<1>1. ASSUME UNCHANGED <<pc, item, verdicts, published, accepted, received>>,
             phase' = phase \/ {phase, phase'} \cap {"startup", "failed"} = {}
      PROVE  MetricsInv'
  <2>1. Ended' = Ended /\ Pending' = Pending /\ Marking' = Marking
    BY <1>1 DEF Ended, Pending, Marking
  <2> QED
    BY <1>0, <1>1, <2>1, MetricsMove DEF Verdicts
<1>2. CASE Starts
  <2>1. /\ phase = "startup" /\ phase' = "serving" /\ published' = published
        /\ received' = 0 /\ accepted'[Self] = 0 /\ pc'[Self] = "get"
        /\ verdicts'[Self]["success"] = 0 /\ verdicts'[Self]["failure"] = 0
    BY <1>0, <1>2, MetricsTypes
       DEF Starts, S!StartupConnects, Boot, EmptyMemory, Goto, NoVerdicts, Verdicts,
           BridgeTypes, ProcInv, TypeInv, TypeOK
  <2>2. Ended' = 0 /\ Pending' = 0 /\ Marking' = 0
    BY <2>1 DEF Ended, Pending, Marking, MetricsInv
  <2> QED
    BY <2>1, <2>2 DEF MetricsInv
<1>3. CASE StartFails
  <2>1. phase' = "failed" /\ UNCHANGED <<accepted, received>>
    BY <1>3 DEF StartFails, S!StartupFails, processorVars, webhookVars
  <2> QED
    BY <2>1 DEF MetricsInv
<1>4. CASE Restarts
  <2>1. /\ phase' = "startup" /\ UNCHANGED <<accepted, received>>
        /\ \A s \in S!Statuses : published'[s] = 0
    BY <1>4 DEF Restarts, ForgetPublisher, processorVars, webhookVars
  <2>2. Ended' = 0
    BY <2>1 DEF Ended, S!Statuses
  <2> QED
    BY <2>1, <2>2 DEF MetricsInv
<1>5. CASE Dies
  <2>1. phase' = "failed" /\ accepted'[Self] = 0 /\ received' = received
    BY <1>0, <1>5 DEF Dies, Crash, EmptyMemory, webhookVars
  <2> QED
    BY <1>0, <2>1 DEF MetricsInv
<1>6. CASE StopMoves
  BY <1>1, <1>6
     DEF StopMoves, Stop, StopReturns, StopRaises, StopTimeoutAbsorbed, publisherVars,
         callVars, webhookVars
<1>7. ASSUME pc'[Self] \in {"cancelled", "orphaned"}, pc[Self] # "cancelled",
             pc[Self] = "mark" => pc'[Self] = "cancelled" /\ item'[Self] = item[Self],
             UNCHANGED <<verdicts, published, accepted, received, phase>>
      PROVE  MetricsInv'
  <2>1. Ended' = Ended /\ Pending <= Pending' /\ Marking' <= Marking
    <3>1. pc[Self] = "mark" => item[Self] # Nothing
      BY BridgeFacts, ConstantsAssumption DEF Handling
    <3> QED
      BY <1>7, <3>1 DEF Ended, Pending, Marking
  <2>2. Marking' \in Nat /\ Pending' \in Nat
    BY DEF Marking, Pending
  <2> QED
    BY <1>0, <1>7, <2>1, <2>2, MetricsMove DEF Verdicts
<1>8. CASE StopCancels \/ StopCancelsCall
  <2>1. /\ pc'[Self] \in {"cancelled", "orphaned"} /\ pc[Self] # "cancelled"
        /\ pc[Self] = "mark" => pc'[Self] = "cancelled" /\ item'[Self] = item[Self]
    BY <1>0, <1>8
       DEF StopCancels, StopCancelsCall, StopTimeout, StopTimeoutOrphans, Goto, Handling
  <2>2. UNCHANGED <<verdicts, published, accepted, received, phase>>
    BY <1>8
       DEF StopCancels, StopCancelsCall, StopTimeout, StopTimeoutOrphans, publisherVars,
           callVars, webhookVars, S!CallCancelled
  <2> QED
    BY <1>7, <2>1, <2>2
<1>9. CASE Disconnects
  <2>1. UNCHANGED <<pc, item, verdicts, published, accepted, received>>
    BY <1>9
       DEF Disconnects, processorVars, webhookVars, S!Disconnect, S!DisconnectSkipped,
           S!DisconnectStep, S!TerminateCloses, S!Terminated, S!TerminateRaises,
           S!Disconnected, S!codeVars
  <2>2. phase' = phase \/ {phase, phase'} \cap {"startup", "failed"} = {}
    BY <1>9
       DEF Disconnects, S!Disconnect, S!DisconnectSkipped, S!DisconnectStep,
           S!TerminateCloses, S!Terminated, S!TerminateRaises, S!Disconnected, S!codeVars
  <2> QED
    BY <1>1, <2>1, <2>2
<1>10. ASSUME NEW e \in Events \cup {NoId}, Posted(e) PROVE MetricsInv'
  <2>1. /\ UNCHANGED <<pc, item, verdicts, published, phase>> /\ received' = received + 1
        /\ accepted'[Self] \in {accepted[Self], accepted[Self] + 1}
    BY <1>0, <1>10 DEF Posted, Enqueue, EnqueueRefused, publisherVars, callVars
  <2>2. Ended' = Ended /\ Pending' = Pending /\ Marking' = Marking
    BY <2>1 DEF Ended, Pending, Marking
  <2> QED
    BY <1>0, <2>1, <2>2, MetricsMove DEF Verdicts
<1>11. CASE PostRejected
  BY <1>1, <1>11 DEF PostRejected, vars, publisherVars, callVars
<1>12. CASE WorkerSteps
  <2>1. UNCHANGED <<phase, published, accepted, received>>
    BY <1>12
       DEF WorkerSteps, WorkerMoves, CallsPublish, WorkerStep, Get, SkipInvalid,
           TakeHead, SkipProcessed, CheckProcessed, SkipInProgress, Acquire, Publish,
           Mark, RedisFails, Clear, ClearFails, WorkerReturns, publisherVars, callVars,
           webhookVars, S!Publish
  <2>2. Ended' = Ended
    BY <2>1 DEF Ended
  <2>3. CASE Mark(Self)
    <3>1. pc[Self] = "mark" /\ pc'[Self] = "get" /\ Count(Self, "success")
      BY <1>0, <2>3 DEF Mark, Finish, Goto
    <3>2. /\ verdicts'[Self]["success"] = verdicts[Self]["success"] + 1
          /\ verdicts'[Self]["failure"] = verdicts[Self]["failure"]
      BY <3>1, VerdictCounted DEF Verdicts
    <3>3. Marking = 1 /\ Pending = 1 /\ Marking' = 0 /\ Pending' = 0
      BY <3>1 DEF Marking, Pending
    <3> QED
      BY <1>0, <2>1, <2>2, <3>2, <3>3, MetricsMove DEF Verdicts
  <2>4. ASSUME Count(Self, "failure"), pc'[Self] = "clear"
        PROVE  MetricsInv'
    <3>1. /\ verdicts'[Self]["success"] = verdicts[Self]["success"]
          /\ verdicts'[Self]["failure"] = verdicts[Self]["failure"] + 1
      BY <2>4, VerdictCounted DEF Verdicts
    <3>2. Marking' = 0 /\ Pending' = 0
      BY <2>4 DEF Marking, Pending
    <3> QED
      BY <1>0, <2>1, <2>2, <3>1, <3>2, MetricsMove DEF Verdicts
  <2>5. ASSUME UNCHANGED verdicts \/ Count(Self, "duplicate") \/ Count(Self, "invalid"),
               pc[Self] \notin {"mark", "cancelled"}, pc'[Self] \notin {"mark", "cancelled"}
        PROVE  MetricsInv'
    <3>1. /\ verdicts'[Self]["success"] = verdicts[Self]["success"]
          /\ verdicts'[Self]["failure"] = verdicts[Self]["failure"]
      BY <2>5, VerdictCounted DEF Verdicts
    <3>2. Marking = 0 /\ Pending = 0 /\ Marking' = 0 /\ Pending' = 0
      BY <2>5 DEF Marking, Pending
    <3> QED
      BY <1>0, <2>1, <2>2, <3>1, <3>2, MetricsMove DEF Verdicts
  <2>6. CASE RedisFails(Self)
    BY <1>0, <2>4, <2>6 DEF RedisFails, Goto
  <2>7. CASE Acquire(Self)
    BY <1>0, <2>4, <2>5, <2>7 DEF Acquire, Goto
  <2>8. CASE \/ Get(Self) \/ SkipInvalid(Self) \/ SkipProcessed(Self)
             \/ CheckProcessed(Self) \/ SkipInProgress(Self) \/ Clear(Self)
             \/ ClearFails(Self) \/ WorkerReturns(Self)
    BY <1>0, <2>5, <2>8
       DEF Get, SkipInvalid, TakeHead, SkipProcessed, CheckProcessed, SkipInProgress,
           Clear, ClearFails, WorkerReturns, Finish, Goto
  <2> QED
    BY <1>12, <2>3, <2>6, <2>7, <2>8
       DEF WorkerSteps, WorkerMoves, CallsPublish, WorkerStep, Publish
<1>13. CASE PublishReturns
  <2>1. /\ pc[Self] = "publish" /\ pc'[Self] = "mark"
        /\ UNCHANGED <<phase, verdicts, accepted, received>>
        /\ \E s \in Pub!Statuses \ {"retry"} : S!CountStatus(s)
    BY <1>0, <1>13
       DEF PublishReturns, LinkInv, Goto, webhookVars, S!PublishSucceeds,
           S!PublishGivesUp, S!PublishCannotConnect, Pub!Statuses
  <2>2. phase \notin {"startup", "failed"}
    BY <2>1, BridgeFacts DEF LinkInv
  <2>3. Ended' = Ended + 1
    BY <2>1, CallEnds
  <2>4. Marking = 0 /\ Pending = 0 /\ Marking' = 1 /\ Pending' = 1
    BY <2>1 DEF Marking, Pending
  <2>5. phase' \notin {"startup", "failed"} /\ {phase, phase'} \cap {"startup", "failed"} = {}
    BY <2>1, <2>2
  <2> QED
    BY <1>0, <2>1, <2>3, <2>4, <2>5, MetricsMove DEF Verdicts
<1>14. CASE PublishMoves
  <2>1. /\ UNCHANGED <<pc, item, phase, verdicts, accepted, received>>
        /\ UNCHANGED published \/ S!CountStatus("retry")
        /\ await \in {"connect", "thread", "backoff"}
    BY <1>14
       DEF PublishMoves, processorVars, webhookVars, S!PublishConnects, S!PublishRetries,
           S!BackoffEnds
  <2>2. {phase, phase'} \cap {"startup", "failed"} = {}
    BY <2>1, BridgeFacts
  <2>3. Ended' = Ended
    BY <2>1, CallEnds DEF Ended, Pub!Statuses
  <2>4. Marking' = Marking /\ Pending' = Pending
    BY <2>1 DEF Marking, Pending
  <2> QED
    BY <1>0, <2>1, <2>2, <2>3, <2>4, MetricsMove DEF Verdicts
<1>15. CASE ThreadMoves
  BY <1>1, <1>15
     DEF ThreadMoves, processorVars, webhookVars, S!ThreadEntersLibrary,
         S!ThreadRaises, S!LibraryRaises
<1>16. CASE ThreadHands
  <2>1. /\ UNCHANGED <<item, verdicts, published, accepted, received, phase>>
        /\ await # "cancelled" => UNCHANGED pc
        /\ await = "cancelled" => pc'[Self] = "cancelled" /\ thread = "inlibrary"
    BY <1>0, <1>16 DEF ThreadHands, S!LibraryAccepts, Goto, webhookVars
  <2>2. CASE await = "cancelled"
    BY <1>7, <2>1, <2>2 DEF LinkInv
  <2>3. CASE await # "cancelled"
    BY <1>1, <2>1, <2>3
  <2> QED
    BY <2>2, <2>3
<1>17. CASE BrokerMoves \/ LinkDrops \/ LinkMoves
  BY <1>1, <1>17
     DEF BrokerMoves, LinkDrops, LinkMoves, processorVars, webhookVars, S!BrokerStep,
         S!Acknowledged, S!Refused, S!LinkDrops, S!LinkStep, S!LinkReturns,
         S!LinkGivesUp, S!codeVars
<1> QED
  BY <1>2, <1>3, <1>4, <1>5, <1>6, <1>8, <1>9, <1>10, <1>11, <1>12, <1>13, <1>14,
     <1>15, <1>16, <1>17
     DEF BridgeNext, PublishSteps, ThreadSteps

-----------------------------------------------------------------------------
(* The messages *)

(* What the library and the broker do to their messages loses none. *)
LEMMA MessagesOf ==
    ASSUME NEW s \in Seq(Events), NEW q \in Seq(Events)
    PROVE  /\ \A e \in Events : ToSet(Append(s, e)) = ToSet(s) \cup {e}
           /\ ToSet(s \o q) = ToSet(s) \cup ToSet(q)
           /\ q # <<>> => ToSet(q) = {Head(q)} \cup ToSet(Tail(q)) /\ Head(q) \in Events
           /\ ToSet(<< >>) = {}
<1>0. Len(s) \in Nat /\ DOMAIN s = 1..Len(s) /\ Len(q) \in Nat /\ DOMAIN q = 1..Len(q)
  BY LenProperties
<1>1. ASSUME NEW e \in Events PROVE ToSet(Append(s, e)) = ToSet(s) \cup {e}
  <2>1. /\ Append(s, e) \in Seq(Events) /\ DOMAIN Append(s, e) = 1..(Len(s) + 1)
        /\ \A i \in 1..Len(s) : Append(s, e)[i] = s[i]
        /\ Append(s, e)[Len(s) + 1] = e
    BY <1>0, AppendProperties, LenProperties
  <2>2. 1..(Len(s) + 1) = 1..Len(s) \cup {Len(s) + 1}
    BY <1>0
  <2> QED
    BY <1>0, <2>1, <2>2 DEF ToSet
<1>2. ToSet(s \o q) = ToSet(s) \cup ToSet(q)
  <2>1. /\ s \o q \in Seq(Events) /\ Len(s \o q) = Len(s) + Len(q)
        /\ \A i \in 1..(Len(s) + Len(q)) :
              (s \o q)[i] = IF i <= Len(s) THEN s[i] ELSE q[i - Len(s)]
    BY ConcatProperties
  <2>2. DOMAIN (s \o q) = 1..(Len(s) + Len(q))
    BY <2>1, LenProperties
  <2>3. ASSUME NEW x \in ToSet(s \o q) PROVE x \in ToSet(s) \cup ToSet(q)
    <3>1. PICK i \in 1..(Len(s) + Len(q)) : x = (s \o q)[i]
      BY <2>2 DEF ToSet
    <3>2. i <= Len(s) => i \in 1..Len(s)
      BY <1>0
    <3>3. ~(i <= Len(s)) => i - Len(s) \in 1..Len(q)
      BY <1>0
    <3> QED
      BY <1>0, <2>1, <3>1, <3>2, <3>3 DEF ToSet
  <2>4. ASSUME NEW i \in 1..Len(s) PROVE s[i] \in ToSet(s \o q)
    <3>1. i \in 1..(Len(s) + Len(q)) /\ i <= Len(s)
      BY <1>0
    <3>2. (s \o q)[i] = s[i]
      BY <2>1, <3>1
    <3> QED
      BY <2>2, <3>1, <3>2 DEF ToSet
  <2>5. ASSUME NEW i \in 1..Len(q) PROVE q[i] \in ToSet(s \o q)
    <3>1. /\ i + Len(s) \in 1..(Len(s) + Len(q)) /\ ~(i + Len(s) <= Len(s))
          /\ (i + Len(s)) - Len(s) = i
      BY <1>0
    <3>2. (s \o q)[i + Len(s)] = q[i]
      BY <2>1, <3>1
    <3> QED
      BY <2>2, <3>1, <3>2 DEF ToSet
  <2> QED
    BY <1>0, <2>3, <2>4, <2>5 DEF ToSet
<1>3. ASSUME q # <<>>
      PROVE  ToSet(q) = {Head(q)} \cup ToSet(Tail(q)) /\ Head(q) \in Events
  <2>1. /\ Head(q) = q[1] /\ Head(q) \in Events /\ Tail(q) \in Seq(Events)
        /\ Len(Tail(q)) = Len(q) - 1 /\ Len(q) # 0
        /\ \A i \in 1..Len(Tail(q)) : Tail(q)[i] = q[i + 1]
    BY <1>3, HeadTailProperties, EmptySeq
  <2>2. DOMAIN Tail(q) = 1..(Len(q) - 1)
    BY <2>1, LenProperties
  <2>3. ASSUME NEW i \in 1..Len(q), i # 1 PROVE q[i] \in ToSet(Tail(q))
    <3>1. i - 1 \in 1..(Len(q) - 1) /\ (i - 1) + 1 = i
      BY <1>0, <2>3
    <3> QED
      BY <2>1, <2>2, <3>1 DEF ToSet
  <2>4. ASSUME NEW i \in 1..(Len(q) - 1) PROVE Tail(q)[i] \in ToSet(q)
    <3>1. i + 1 \in 1..Len(q)
      BY <1>0
    <3> QED
      BY <1>0, <2>1, <3>1 DEF ToSet
  <2>5. 1 \in 1..Len(q)
    BY <1>0, <2>1
  <2>6. ASSUME NEW x \in ToSet(q) PROVE x = Head(q) \/ x \in ToSet(Tail(q))
    <3>1. PICK i \in 1..Len(q) : x = q[i]
      BY <1>0 DEF ToSet
    <3> QED
      BY <2>1, <2>3, <3>1
  <2>7. Head(q) \in ToSet(q)
    BY <1>0, <2>1, <2>5 DEF ToSet
  <2>8. ToSet(Tail(q)) \subseteq ToSet(q)
    BY <2>2, <2>4 DEF ToSet
  <2> QED
    BY <2>1, <2>6, <2>7, <2>8
<1>4. ToSet(<< >>) = {}
  BY EmptySeq DEF ToSet
<1> QED
  BY <1>1, <1>2, <1>3, <1>4

LEMMA AccountedGrows ==
    ASSUME BridgeTypes, BridgeNext
    PROVE  /\ Accounted \subseteq Accounted'
           /\ ThreadHands => event \in Accounted'
           /\ (PublishReturns /\ thread # "ok") => event \in Accounted'
<1>0. broker \in Seq(Events) /\ dropped \in Seq(Events) /\ buffer \in Seq(Events)
  BY DEF BridgeTypes, Pub!TypeInv, Pub!TypeOK
<1> USE DEF Accounted
(* A step of another part. *)
<1>1. ASSUME UNCHANGED <<broker, dropped, buffer>>, lost \subseteq lost'
      PROVE  Accounted \subseteq Accounted'
  BY <1>1
(* The library hands on its oldest message, to the broker or to nobody. *)
<1>2. ASSUME buffer # <<>>, buffer' = Tail(buffer), lost' = lost,
             \/ broker' = Append(broker, Head(buffer)) /\ dropped' = dropped
             \/ dropped' = Append(dropped, Head(buffer)) /\ broker' = broker
      PROVE  Accounted \subseteq Accounted'
  <2>1. Head(buffer) \in Events /\ ToSet(buffer) = {Head(buffer)} \cup ToSet(buffer')
    BY <1>0, <1>2, MessagesOf
  <2>2. \/ ToSet(broker') = ToSet(broker) \cup {Head(buffer)} /\ dropped' = dropped
        \/ ToSet(dropped') = ToSet(dropped) \cup {Head(buffer)} /\ broker' = broker
    <3>1. /\ ToSet(Append(broker, Head(buffer))) = ToSet(broker) \cup {Head(buffer)}
          /\ ToSet(Append(dropped, Head(buffer))) = ToSet(dropped) \cup {Head(buffer)}
      BY <1>0, <2>1, MessagesOf
    <3> QED
      BY <1>2, <3>1
  <2> QED
    BY <1>2, <2>1, <2>2
(* It drops them all. *)
<1>3. ASSUME dropped' = dropped \o buffer, UNCHANGED <<broker, lost>>
      PROVE  Accounted \subseteq Accounted'
  BY <1>0, <1>3, MessagesOf
<1>4. ASSUME Starts \/ StartFails \/ PostRejected PROVE Accounted \subseteq Accounted'
  BY <1>1, <1>4 DEF Starts, StartFails, PostRejected, S!StartupConnects, S!StartupFails,
                    publisherVars, libVars, S!libVars
<1>5. ASSUME Restarts \/ Dies PROVE Accounted \subseteq Accounted'
  BY <1>3, <1>5 DEF Restarts, Dies, ForgetPublisher
<1>6. ASSUME StopMoves \/ StopCancels \/ StopCancelsCall PROVE Accounted \subseteq Accounted'
  <2>1. UNCHANGED <<broker, dropped, buffer, lost>>
    BY <1>6 DEF StopMoves, StopCancels, StopCancelsCall, publisherVars, libVars,
                S!CallCancelled, S!libVars
  <2> QED
    BY <1>1, <2>1
<1>7. ASSUME Disconnects PROVE Accounted \subseteq Accounted'
  BY <1>1, <1>3, <1>7
     DEF Disconnects, S!Disconnect, S!DisconnectSkipped, S!DisconnectStep,
         S!TerminateCloses, S!Terminated, S!TerminateRaises, S!Disconnected, S!codeVars,
         S!libVars
<1>8. ASSUME NEW e \in Events \cup {NoId}, Posted(e) PROVE Accounted \subseteq Accounted'
  BY <1>1, <1>8 DEF Posted, publisherVars, libVars
<1>9. ASSUME WorkerSteps PROVE Accounted \subseteq Accounted'
  BY <1>1, <1>9 DEF WorkerSteps, WorkerMoves, CallsPublish, publisherVars, libVars,
                    S!Publish, S!libVars
<1>10. ASSUME PublishSteps PROVE Accounted \subseteq Accounted'
  BY <1>1, <1>10
     DEF PublishSteps, PublishMoves, PublishReturns, S!PublishConnects,
         S!PublishRetries, S!BackoffEnds, S!PublishSucceeds, S!PublishGivesUp,
         S!PublishCannotConnect, S!libVars
<1>11. ASSUME ThreadMoves PROVE Accounted \subseteq Accounted'
  BY <1>1, <1>11 DEF ThreadMoves, S!ThreadEntersLibrary, S!ThreadRaises,
                     S!LibraryRaises, S!libVars
<1>12. ASSUME ThreadHands PROVE Accounted \subseteq Accounted' /\ event \in Accounted'
  <2>1. await # "idle"
    BY <1>12, BridgeFacts DEF ThreadHands, S!LibraryAccepts
  <2>2. event \in Events
    BY <2>1, BridgeFacts
  <2>3. buffer' = Append(buffer, event) /\ UNCHANGED <<broker, dropped, lost>>
    BY <1>12 DEF ThreadHands, S!LibraryAccepts
  <2>4. ToSet(buffer') = ToSet(buffer) \cup {event}
    BY <1>0, <2>2, <2>3, MessagesOf
  <2> QED
    BY <2>3, <2>4
<1>13. ASSUME BrokerMoves \/ LinkDrops \/ LinkMoves PROVE Accounted \subseteq Accounted'
  BY <1>1, <1>2, <1>3, <1>13
     DEF BrokerMoves, LinkDrops, LinkMoves, S!BrokerStep, S!Acknowledged, S!Refused,
         S!LinkDrops, S!LinkStep, S!LinkReturns, S!LinkGivesUp
<1>14. ASSUME PublishReturns, thread # "ok" PROVE event \in Accounted'
  BY <1>14 DEF PublishReturns, S!PublishSucceeds
<1> QED
  BY <1>4, <1>5, <1>6, <1>7, <1>8, <1>9, <1>10, <1>11, <1>12, <1>13, <1>14
     DEF BridgeNext, ThreadSteps

(* A call that has succeeded had done so before, or does by this step. *)
LEMMA WhoIsOk ==
    ASSUME BridgeTypes, LinkInv, BridgeNext, pc'[Self] = "publish", thread' = "ok"
    PROVE  \/ thread = "ok" /\ pc[Self] = "publish" /\ event' = event
           \/ ThreadHands /\ event' = event
<1> USE BridgeConstants
<1>0. pc \in [Replicas -> PCs]
  BY DEF BridgeTypes, ProcInv, TypeInv, TypeOK
<1>1. CASE Starts \/ Restarts \/ Dies \/ PublishReturns \/ StopCancels \/ StopCancelsCall
  BY <1>0, <1>1
     DEF Starts, Boot, Restarts, ForgetPublisher, Dies, Crash, Goto, PublishReturns,
         StopCancels, StopCancelsCall, StopTimeout, StopTimeoutOrphans
<1>2. CASE StartFails \/ Disconnects
  BY <1>2 DEF StartFails, Disconnects, processorVars, S!StartupFails, S!Disconnect,
              S!DisconnectSkipped, S!DisconnectStep, S!TerminateCloses, S!Terminated,
              S!TerminateRaises, S!Disconnected, S!codeVars
<1>3. CASE StopMoves \/ PostRejected
  BY <1>3 DEF StopMoves, Stop, StopReturns, StopRaises, StopTimeoutAbsorbed,
              PostRejected, vars, publisherVars, callVars
<1>4. ASSUME NEW e \in Events \cup {NoId}, Posted(e)
      PROVE  thread = "ok" /\ pc[Self] = "publish" /\ event' = event
  BY <1>4 DEF Posted, Enqueue, EnqueueRefused, publisherVars, callVars
<1>5. CASE WorkerSteps
  <2>1. ~WorkerMoves
    BY DEF WorkerMoves
  <2>2. ASSUME CallsPublish PROVE FALSE
    <3>1. pc[Self] = "setnx"
      BY <2>2 DEF CallsPublish, Acquire
    <3>2. thread = "none"
      BY <2>2, BridgeFacts DEF CallsPublish, S!Publish
    <3> QED
      BY <2>2, <3>2 DEF CallsPublish, S!Publish, S!StartAttempt
  <2> QED
    BY <1>5, <2>1, <2>2 DEF WorkerSteps
<1>6. CASE PublishMoves \/ ThreadMoves
  BY <1>6 DEF PublishMoves, ThreadMoves, S!PublishConnects, S!StartAttempt,
              S!PublishRetries, S!BackoffEnds, S!ThreadEntersLibrary, S!ThreadRaises,
              S!LibraryRaises
<1>7. CASE ThreadHands
  BY <1>7 DEF ThreadHands, S!LibraryAccepts
<1>8. CASE BrokerMoves \/ LinkDrops \/ LinkMoves
  BY <1>8 DEF BrokerMoves, LinkDrops, LinkMoves, processorVars, S!BrokerStep,
              S!Acknowledged, S!Refused, S!LinkDrops, S!LinkStep, S!LinkReturns,
              S!LinkGivesUp, S!codeVars
<1> QED
  BY <1>1, <1>2, <1>3, <1>4, <1>5, <1>6, <1>7, <1>8
     DEF BridgeNext, PublishSteps, ThreadSteps

LEMMA AccountInvNext ==
    ASSUME BridgeTypes, LinkInv, AccountInv, BridgeNext PROVE AccountInv'
<1> USE BridgeConstants
<1>0. /\ Accounted \subseteq Accounted'
      /\ ThreadHands => event \in Accounted'
      /\ (PublishReturns /\ thread # "ok") => event \in Accounted'
  BY AccountedGrows
<1>1. processed' \subseteq Accounted'
  <2>1. ASSUME Next, NEW e \in processed' PROVE e \in Accounted'
    <3>1. CASE e \in processed
      BY <1>0, <3>1 DEF AccountInv
    <3>2. CASE e \notin processed
      <4>1. pc[Self] = "mark" /\ item[Self] = e
        BY <2>1, <3>2, WhoRecords
      <4> QED
        BY <1>0, <4>1 DEF AccountInv
    <3> QED
      BY <3>1, <3>2
  <2>2. CASE UNCHANGED processorVars
    BY <1>0, <2>2 DEF processorVars, storeVars, AccountInv
  <2> QED
    BY <2>1, <2>2, ProcessorMoves
<1>2. ASSUME pc'[Self] = "mark" PROVE item'[Self] \in Accounted'
  <2>1. CASE PublishReturns
    <3>1. /\ pc[Self] = "publish" /\ item' = item /\ event = item[Self]
      BY <2>1 DEF PublishReturns, LinkInv, S!PublishSucceeds, S!PublishGivesUp,
                  S!PublishCannotConnect
    <3> QED
      BY <1>0, <2>1, <3>1 DEF AccountInv
  <2>2. CASE ~PublishReturns
    <3>1. ASSUME Next PROVE pc[Self] = "mark" /\ item'[Self] = item[Self]
      <4>1. TypeOK
        BY DEF BridgeTypes, ProcInv, TypeInv
      <4>2. ASSUME pc[Self] = "publish" PROVE FALSE
        <5>1. pc \in [Replicas -> PCs] /\ pc'[Self] # pc[Self]
          BY <1>2, <4>1, <4>2 DEF TypeOK
        <5>2. Starts \/ Dies \/ StopCancels \/ StopCancelsCall \/ WorkerSteps \/ ThreadHands
          BY <2>2, <5>1
             DEF BridgeNext, StartFails, Restarts, StopMoves, Stop, StopReturns,
                 StopRaises, StopTimeoutAbsorbed, Disconnects, Posted, Enqueue,
                 EnqueueRefused, PostRejected, PublishSteps, PublishMoves, ThreadSteps,
                 ThreadMoves, BrokerMoves, LinkDrops, LinkMoves, processorVars, vars
        <5> QED
          BY <1>2, <4>2, <5>1, <5>2
             DEF Starts, Boot, Dies, Crash, StopCancels, StopCancelsCall, StopTimeout,
                 StopTimeoutOrphans, WorkerSteps, WorkerMoves, CallsPublish, Acquire,
                 ThreadHands, Goto
      <4>3. ~Publish(Self)
        BY <4>2 DEF Publish
      <4> QED
        BY <1>2, <3>1, <4>1, <4>3, WhoMarks
    <3>2. UNCHANGED processorVars => pc[Self] = "mark" /\ item'[Self] = item[Self]
      BY <1>2 DEF processorVars
    <3> QED
      BY <1>0, <3>1, <3>2, ProcessorMoves DEF AccountInv
  <2> QED
    BY <2>1, <2>2
<1>3. ASSUME pc'[Self] = "publish", thread' = "ok" PROVE event' \in Accounted'
  BY <1>0, <1>3, WhoIsOk DEF AccountInv
<1> QED
  BY <1>1, <1>2, <1>3 DEF AccountInv

-----------------------------------------------------------------------------
(* The theorems *)

LEMMA BridgeInvInit ==
    ASSUME BridgeInit PROVE BridgeInv
<1> USE BridgeConstants
<1>1. Pub!Init
  BY DEF BridgeInit, S!Init, Pub!Init, S!Statuses, Pub!Statuses
<1>2. Pub!TypeInv
  BY <1>1, Pub!TypeInvInit
<1>3. ProcInv
  BY TypeInvInit DEF BridgeInit, Init, ProcInv, LifeOK
<1>4. BridgeTypes
  BY <1>2, <1>3 DEF BridgeTypes, BridgeInit
<1>5. LinkInv
  BY DEF BridgeInit, Init, S!Init, LinkInv
<1>6. MetricsInv
  BY DEF BridgeInit, Init, S!Init, S!Statuses, MetricsInv, Ended
<1>7. AccountInv
  BY DEF BridgeInit, Init, StoreInit, AccountInv
<1> QED
  BY <1>4, <1>5, <1>6, <1>7 DEF BridgeInv

LEMMA BridgeInvNext ==
    ASSUME BridgeInv, [BridgeNext]_bridgeVars PROVE BridgeInv'
<1>1. CASE BridgeNext
  BY <1>1, BridgeTypesNext, LinkInvNext, MetricsInvNext, AccountInvNext DEF BridgeInv
<1>2. CASE UNCHANGED bridgeVars
  <2>1. UNCHANGED <<vars, publisherVars, received, invalid, lost>>
    BY <1>2 DEF bridgeVars, webhookVars
  <2>2. BridgeTypes'
    BY <2>1 DEF BridgeInv, BridgeTypes, ProcInv, TypeInv, TypeOK, StoreTypeOK, HandOK,
                LifeOK, Pub!TypeInv, Pub!TypeOK, Pub!CallOK, Pub!ShutdownOK, vars,
                publisherVars, callVars, libVars
  <2>3. LinkInv'
    BY <2>1 DEF BridgeInv, LinkInv, vars, publisherVars, callVars, libVars
  <2>4. MetricsInv'
    BY <2>1 DEF BridgeInv, MetricsInv, Ended, Marking, Pending, vars, publisherVars,
                callVars
  <2>5. AccountInv'
    BY <2>1 DEF BridgeInv, AccountInv, Accounted, vars, publisherVars, callVars, libVars
  <2> QED
    BY <2>2, <2>3, <2>4, <2>5 DEF BridgeInv
<1> QED
  BY <1>1, <1>2

LEMMA BridgeInvariant == BridgeSpec => []BridgeInv
<1>1. BridgeInit => BridgeInv
  BY BridgeInvInit
<1>2. BridgeInv /\ [BridgeNext]_bridgeVars => BridgeInv'
  BY BridgeInvNext
<1> QED
  BY <1>1, <1>2, PTL DEF BridgeSpec

(* The variables of the whole process keep their types, for any events,    *)
(* queue, number of retries and bounds.                                    *)
THEOREM BridgeTypeCorrect == BridgeSpec => []BridgeTypeOK
<1>1. BridgeInv => BridgeTypeOK
  BY SamePublisher DEF BridgeInv, BridgeTypes, BridgeTypeOK, ProcInv, TypeInv, Pub!TypeInv
<1> QED
  BY <1>1, BridgeInvariant, PTL

(* The bridge, with the real publisher and lifespan around the processor,  *)
(* does only what AsyncProcessor lets it do with a publish() that may give *)
(* up: every property AsyncProcessor has of what it does holds of the      *)
(* bridge.                                                                 *)
THEOREM BridgeImplements == BridgeSpec => ImplementsProcessor
<1>1. BridgeInit => Processor!Init
  <2> SUFFICES ASSUME BridgeInit PROVE Processor!Init
    OBVIOUS
  <2>1. Settled = [e \in Events |-> 0]
    BY BridgeConstants DEF BridgeInit, Init, Settled
  <2> QED
    BY <2>1 DEF BridgeInit, Init, StoreInit, NoVerdicts, Verdicts, Processor!Init,
                Processor!StoreInit, Processor!NoVerdicts, Processor!Verdicts
<1>2. BridgeInv /\ [BridgeNext]_bridgeVars => [Processor!Next]_(Processor!vars)
  <2>1. ASSUME UNCHANGED bridgeVars PROVE UNCHANGED Processor!vars
    BY <2>1 DEF bridgeVars, vars, publisherVars, callVars, Processor!vars, Settled
  <2> QED
    BY <2>1, StepImplements DEF BridgeInv
<1> QED
  BY <1>1, <1>2, BridgeInvariant, PTL DEF BridgeSpec, ImplementsProcessor, Processor!Spec

(* An event on record has its message at the broker or in the library, or  *)
(* the library dropped it, or the publisher counted its loss; and after a  *)
(* disconnect() that came to its end nothing is in the library any more.   *)
THEOREM RecordedAccounted == BridgeSpec => []RecordedIsAccountedFor
<1>1. BridgeInv => RecordedIsAccountedFor
  <2> SUFFICES ASSUME BridgeInv PROVE RecordedIsAccountedFor
    OBVIOUS
  <2>1. session = "closed" => ToSet(buffer) = {}
    BY MessagesOf
       DEF BridgeInv, BridgeTypes, Pub!TypeInv, Pub!TypeOK, Pub!ShutdownOK
  <2> QED
    BY <2>1 DEF BridgeInv, AccountInv, Accounted, RecordedIsAccountedFor
<1> QED
  BY <1>1, BridgeInvariant, PTL

(* The counters of webhook, processor and publisher reconcile while the    *)
(* process lives, whatever is cancelled, retried, refused or lost.         *)
THEOREM MetricsStayReconciled == BridgeSpec => []MetricsReconcile
<1>1. BridgeInv => MetricsReconcile
  <2> SUFFICES ASSUME BridgeInv, phase \notin {"startup", "failed"}
               PROVE  /\ accepted[Self] <= received
                      /\ verdicts[Self]["success"] <= Ended
                      /\ Ended <= verdicts[Self]["success"] + verdicts[Self]["failure"]
                                    + Uncounted(Self)
    BY DEF MetricsReconcile, Ended
  <2>1. /\ Ended \in Nat /\ Marking \in {0, 1} /\ Pending \in {0, 1}
        /\ verdicts[Self]["success"] \in Nat /\ verdicts[Self]["failure"] \in Nat
    BY MetricsTypes DEF BridgeInv, Verdicts
  <2>2. Pending <= Uncounted(Self) /\ Uncounted(Self) \in {0, 1}
    BY DEF Pending, Uncounted, Handling
  <2> QED
    BY <2>1, <2>2 DEF BridgeInv, MetricsInv
<1> QED
  BY <1>1, BridgeInvariant, PTL

(* Nothing is handed to the library once the lifespan has ended, after a   *)
(* disconnect() that was completed, raised or was skipped; and a completed *)
(* one is the end of all traffic, whatever thread is still about.          *)
THEOREM NothingHandedOver == BridgeSpec => NothingHandedAfterShutdown
<1>1. ASSUME BridgeInv, BridgeNext, phase = "ended"
      PROVE  /\ handed' = handed
             /\ session = "closed" => broker' = broker /\ session' # "up"
  <2>1. /\ await \notin {"connect", "thread", "backoff"}
        /\ open => thread \notin {"running", "inlibrary"}
    BY <1>1, BridgeFacts DEF BridgeInv, LinkInv
  <2>2. CASE Pub!Next
    <3>1. CASE Pub!StartupConnects \/ Pub!StartupFails \/ \E e \in Events : Pub!Publish(e)
      BY <1>1, <3>1 DEF Pub!StartupConnects, Pub!StartupFails, Pub!Publish
    <3>2. CASE Pub!PublishStep \/ Pub!CallCancelled
      BY <2>1, <3>2
         DEF Pub!PublishStep, Pub!PublishConnects, Pub!PublishCannotConnect,
             Pub!PublishSucceeds, Pub!PublishRetries, Pub!BackoffEnds,
             Pub!PublishGivesUp, Pub!CallCancelled
    <3>3. CASE Pub!ThreadStep
      BY <2>1, <3>3
         DEF Pub!ThreadStep, Pub!ThreadEntersLibrary, Pub!ThreadRaises,
             Pub!LibraryAccepts, Pub!LibraryRaises, Pub!libVars
    <3>4. CASE Pub!Disconnect \/ Pub!DisconnectSkipped \/ Pub!DisconnectStep
      BY <1>1, <3>4
         DEF Pub!Disconnect, Pub!DisconnectSkipped, Pub!DisconnectStep,
             Pub!TerminateCloses, Pub!Terminated, Pub!TerminateRaises, Pub!Disconnected
    <3>5. CASE Pub!BrokerStep \/ Pub!LinkDrops \/ Pub!LinkStep
      BY <3>5
         DEF Pub!BrokerStep, Pub!Acknowledged, Pub!Refused, Pub!LinkDrops, Pub!LinkStep,
             Pub!LinkReturns, Pub!LinkGivesUp
    <3> QED
      BY <2>2, <3>1, <3>2, <3>3, <3>4, <3>5 DEF Pub!Next
  <2>3. CASE UNCHANGED <<publisherVars, handed>>
    BY <2>3 DEF publisherVars, libVars
  <2>4. CASE ForgetPublisher /\ UNCHANGED handed
    BY <2>4 DEF ForgetPublisher
  <2> QED
    BY <1>1, <2>2, <2>3, <2>4, PublisherMoves DEF BridgeInv
<1>2. BridgeInv /\ [BridgeNext]_bridgeVars
        => [phase = "ended" => /\ handed' = handed
                               /\ session = "closed"
                                     => broker' = broker /\ session' # "up"]_bridgeVars
  BY <1>1
<1> QED
  BY <1>2, BridgeInvariant, PTL DEF BridgeSpec, NothingHandedAfterShutdown

(* Only the death of the worker makes the lifespan leave messages in the   *)
(* library without waiting for them: disconnect() is reached on all other  *)
(* ways, and either empties the library or raises after it gave them up.   *)
THEOREM UnflushedOnlyByDeath == BridgeSpec => []UnflushedNeedsDeath
<1>1. BridgeInv => UnflushedNeedsDeath
  BY DEF BridgeInv, LinkInv, UnflushedNeedsDeath
<1> QED
  BY <1>1, BridgeInvariant, PTL

-----------------------------------------------------------------------------
(* What the processor promises, of the whole process *)

(* The processor as AsyncProcessorProofs knows it, with Settled. *)
Proc == INSTANCE AsyncProcessorProofs WITH handed <- Settled

LEMMA SameProcessor ==
    /\ Processor!Init => Proc!Init
    /\ [Processor!Next]_(Processor!vars) => [Proc!Next]_(Proc!vars)
  BY DEF Processor!Init, Proc!Init, Processor!StoreInit, Proc!StoreInit,
         Processor!NoVerdicts, Proc!NoVerdicts, Processor!Verdicts, Proc!Verdicts,
         Processor!Next, Proc!Next, Processor!vars, Proc!vars, Processor!storeVars,
         Proc!storeVars, Processor!Boot, Proc!Boot, Processor!EmptyMemory,
         Proc!EmptyMemory, Processor!Goto, Proc!Goto, Processor!Crash, Proc!Crash,
         Processor!Interrupt, Proc!Interrupt, Processor!CommandMayLand,
         Proc!CommandMayLand, Processor!PublishMayLand, Proc!PublishMayLand,
         Processor!Abandon, Proc!Abandon, Processor!Hand, Proc!Hand,
         Processor!SetProcessing, Proc!SetProcessing, Processor!MarkProcessed,
         Proc!MarkProcessed, Processor!ClearProcessing, Proc!ClearProcessing,
         Processor!Stop, Proc!Stop, Processor!Enqueue, Proc!Enqueue,
         Processor!EnqueueRefused, Proc!EnqueueRefused, Processor!QueueIsFull,
         Proc!QueueIsFull, Processor!WorkerStep, Proc!WorkerStep, Processor!Get,
         Proc!Get, Processor!SkipInvalid, Proc!SkipInvalid, Processor!TakeHead,
         Proc!TakeHead, Processor!HasId, Proc!HasId, Processor!SkipProcessed,
         Proc!SkipProcessed, Processor!CheckProcessed, Proc!CheckProcessed,
         Processor!IsProcessed, Proc!IsProcessed, Processor!SkipInProgress,
         Proc!SkipInProgress, Processor!LockIsFree, Proc!LockIsFree, Processor!Acquire,
         Proc!Acquire, Processor!Publish, Proc!Publish, Processor!Mark, Proc!Mark,
         Processor!RedisFails, Proc!RedisFails, Processor!Trouble, Proc!Trouble,
         Processor!Count, Proc!Count, Processor!Finish, Proc!Finish, Processor!Clear,
         Proc!Clear, Processor!ClearFails, Proc!ClearFails, Processor!WorkerReturns,
         Proc!WorkerReturns, Processor!IsDrained, Proc!IsDrained, Processor!InStop,
         Proc!InStop, Processor!StopStep, Proc!StopStep, Processor!StopReturns,
         Proc!StopReturns, Processor!StopRaises, Proc!StopRaises,
         Processor!StopTimeout, Proc!StopTimeout, Processor!Handling, Proc!Handling,
         Processor!StopTimeoutOrphans, Proc!StopTimeoutOrphans,
         Processor!StopTimeoutAbsorbed, Proc!StopTimeoutAbsorbed,
         Processor!OrphanLands, Proc!OrphanLands, Processor!ProcessingExpires,
         Proc!ProcessingExpires, Processor!ProcessingKeyExpires,
         Proc!ProcessingKeyExpires, Processor!ProcessedExpires,
         Proc!ProcessedExpires, Processor!ProcessedKeyExpires,
         Proc!ProcessedKeyExpires

LEMMA BridgeProcessor ==
    /\ BridgeSpec => Proc!Spec
    /\ Proc!ConstantsAssumption
    /\ Proc!SingleReplica
<1>1. BridgeSpec => Proc!Spec
  BY BridgeImplements, SameProcessor, PTL DEF ImplementsProcessor, Processor!Spec, Proc!Spec
<1> QED
  BY <1>1, BridgeConstants DEF ConstantsAssumption, Proc!ConstantsAssumption, Proc!SingleReplica

(* The whole process, with its publisher's threads and retries, hands out  *)
(* a second message for an event only after Redis has raised an error for  *)
(* that event or dropped a key of it.  The processor alone says so of the  *)
(* settled messages only; the message of a call in progress is no second   *)
(* one, because its event had none before.                                 *)
THEOREM BridgeSendsOnce == BridgeSpec => []DuplicatesNeedTrouble
<1>1. Proc!Spec => [](Proc!TypeInv /\ Proc!OneMessageInv)
  BY BridgeProcessor, Proc!OneMessageInvariant
<1>2. BridgeInv /\ Proc!OneMessageInv => DuplicatesNeedTrouble
  <2> SUFFICES ASSUME BridgeInv, Proc!OneMessageInv, NEW e \in Events, handed[e] > 1,
                      e \notin troubled
               PROVE  FALSE
    BY DEF DuplicatesNeedTrouble
  <2>1. Settled[e] <= 1
    BY DEF Proc!OneMessageInv
  <2>2. handed \in [Events -> Nat] /\ event \in Events \cup {Nothing}
    BY DEF BridgeInv, BridgeTypes, Pub!TypeInv, Pub!TypeOK
  <2>3. pc[Self] = "publish" /\ thread = "ok" /\ event = e
    BY <2>1, <2>2 DEF Settled
  <2>4. e = item[Self]
    BY <2>3 DEF BridgeInv, LinkInv
  <2>5. Settled[e] = 0
    BY <2>3, <2>4, BridgeConstants DEF Proc!OneMessageInv
  <2> QED
    BY <2>2, <2>3, <2>5 DEF Settled
<1> QED
  BY <1>1, <1>2, BridgeProcessor, BridgeInvariant, PTL

(* The books of the processor hold of the whole process: an event answered *)
(* with 200 is queued, in hand, or counted once, whatever its publish and  *)
(* the library are at.                                                     *)
THEOREM BridgeKeepsBooks == BridgeSpec => []Accounting
<1>1. Proc!Accounting => Accounting
  BY DEF Proc!Accounting, Accounting, Proc!Uncounted, Uncounted, Proc!Counted, Counted,
         Proc!Handling, Handling
<1>2. Proc!Spec => []Proc!Accounting
  BY BridgeProcessor, Proc!AccountingHolds
<1> QED
  BY <1>1, <1>2, BridgeProcessor, PTL

(* No path through a publish with retries and a thread leaves a lock       *)
(* behind, but cancellation, death and a failing DEL.                      *)
THEOREM BridgeKeepsLocks == BridgeSpec => []LocksAccounted
<1>1. Proc!LocksAccounted => LocksAccounted
  BY DEF Proc!LocksAccounted, LocksAccounted
<1>2. Proc!Spec => []Proc!LocksAccounted
  BY BridgeProcessor, Proc!LocksStayAccounted
<1> QED
  BY <1>1, <1>2, BridgeProcessor, PTL

(* A shutdown whose stop() ended because the worker did has nothing left   *)
(* in the queue or uncounted when disconnect() begins.                     *)
THEOREM BridgeDrains == BridgeSpec => []DrainedOnCleanStop
<1>1. Proc!DrainedOnCleanStop => DrainedOnCleanStop
  BY DEF Proc!DrainedOnCleanStop, DrainedOnCleanStop, Proc!Counted, Counted
<1>2. Proc!Spec => []Proc!DrainedOnCleanStop
  BY BridgeProcessor, Proc!CleanStopDrains
<1> QED
  BY <1>1, <1>2, BridgeProcessor, PTL

(* Only a thread of a publish hands over, and only for the worker's event. *)
LEMMA WhoseHand ==
    ASSUME BridgeTypes, LinkInv, BridgeNext, NEW e \in Events, handed'[e] # handed[e]
    PROVE  e = item[Self] /\ pc[Self] \in {"publish", "orphaned"}
<1>1. Pub!Next
  BY PublisherMoves
<1>2. Pub!LibraryAccepts
  BY <1>1
     DEF Pub!Next, Pub!StartupConnects, Pub!StartupFails, Pub!Publish, Pub!PublishStep,
         Pub!PublishConnects, Pub!PublishCannotConnect, Pub!PublishSucceeds,
         Pub!PublishRetries, Pub!BackoffEnds, Pub!PublishGivesUp, Pub!CallCancelled,
         Pub!ThreadStep, Pub!ThreadEntersLibrary, Pub!ThreadRaises, Pub!LibraryRaises,
         Pub!Disconnect, Pub!DisconnectSkipped, Pub!DisconnectStep, Pub!TerminateCloses,
         Pub!Terminated, Pub!TerminateRaises, Pub!Disconnected, Pub!BrokerStep,
         Pub!Acknowledged, Pub!Refused, Pub!LinkDrops, Pub!LinkStep, Pub!LinkReturns,
         Pub!LinkGivesUp, Pub!libVars
<1>3. thread = "inlibrary" /\ e = event
  BY <1>2, BridgeFacts DEF Pub!LibraryAccepts
<1> QED
  BY <1>3, BridgeFacts DEF LinkInv

(* No thread of the process hands over a message of an event that is on    *)
(* record, not even one that outlived its worker.                          *)
THEOREM BridgeNeverRepublishes == BridgeSpec => NeverRepublishProcessed
<1>1. Proc!Spec => []Proc!FreshRead
  BY BridgeProcessor, Proc!FreshReadInvariant
<1>2. BridgeInv /\ Proc!FreshRead /\ [BridgeNext]_bridgeVars
        => [\A e \in Events : handed'[e] # handed[e] => e \notin processed]_vars
  <2> SUFFICES ASSUME BridgeInv, Proc!FreshRead, [BridgeNext]_bridgeVars,
                      NEW e \in Events, handed'[e] # handed[e]
               PROVE  e \notin processed
    OBVIOUS
  <2>1. BridgeNext
    BY DEF bridgeVars, vars
  <2>2. e = item[Self] /\ pc[Self] \in {"publish", "orphaned"}
    BY <2>1, WhoseHand DEF BridgeInv
  <2> QED
    BY <2>2, BridgeConstants DEF Proc!FreshRead
<1> QED
  BY <1>1, <1>2, BridgeProcessor, BridgeInvariant, PTL DEF BridgeSpec, NeverRepublishProcessed

=============================================================================
