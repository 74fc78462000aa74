------------------------ MODULE AsyncProcessorProofs ------------------------
(***************************************************************************)
(* Theorems about AsyncProcessor, for any number of replicas and events,   *)
(* any queue size and any bounds, and their proofs.                        *)
(***************************************************************************)
EXTENDS AsyncProcessor, SequenceTheorems, TLAPS

-----------------------------------------------------------------------------
(* Type correctness *)

(* A queue with an event on it splits into its head and its tail. *)
LEMMA QueueSplits ==
    ASSUME NEW S, NEW q \in Seq(S), q # <<>>
    PROVE  /\ Head(q) \in S
           /\ Tail(q) \in Seq(S)
           /\ Len(Tail(q)) = Len(q) - 1
           /\ Len(q) \in Nat \ {0}
  BY HeadTailProperties, EmptySeq, LenProperties

(* An event put on a queue makes it longer by one. *)
LEMMA QueueGrows ==
    ASSUME NEW S, NEW q \in Seq(S), NEW e \in S
    PROVE  /\ Append(q, e) \in Seq(S)
           /\ Len(Append(q, e)) = Len(q) + 1
  BY AppendProperties

(* Counting a status, and handing over a message, keep the counters typed. *)
LEMMA CountType ==
    ASSUME verdicts \in [Replicas -> [Verdicts -> Nat]],
           NEW r \in Replicas, NEW v \in Verdicts, Count(r, v)
    PROVE  verdicts' \in [Replicas -> [Verdicts -> Nat]]
<1>1. [verdicts[r] EXCEPT ![v] = @ + 1] \in [Verdicts -> Nat]
  <2>1. verdicts[r] \in [Verdicts -> Nat]
    OBVIOUS
  <2>2. verdicts[r][v] + 1 \in Nat
    BY <2>1
  <2> QED
    BY <2>1, <2>2, Zenon
<1>2. verdicts' = [verdicts EXCEPT ![r] = [verdicts[r] EXCEPT ![v] = @ + 1]]
  BY DEF Count
<1> QED
  BY <1>1, <1>2, Zenon

LEMMA HandType ==
    ASSUME handed \in [Events -> Nat], NEW e \in Events, Hand(e)
    PROVE  handed' \in [Events -> Nat]
<1>1. handed[e] + 1 \in Nat
  OBVIOUS
<1> QED
  BY <1>1, Zenon DEF Hand

(* What becomes of commands and messages in flight stays well typed. *)
LEMMA CommandType ==
    ASSUME StoreTypeOK, NEW r \in Replicas, CommandMayLand(r),
           pc[r] \in Handling \cup {"clear"} => item[r] \in Events
    PROVE  StoreTypeOK'
  BY DEF StoreTypeOK, CommandMayLand, storeVars, SetProcessing, MarkProcessed,
         ClearProcessing, Handling

LEMMA InterruptType ==
    ASSUME TypeOK, NEW r \in Replicas, Interrupt(r),
           pc[r] \in Handling \cup {"clear"} => item[r] \in Events
    PROVE  /\ StoreTypeOK'
           /\ handed' \in [Events -> Nat]
           /\ abandoned' \subseteq processing'
<1>1. StoreTypeOK'
  BY CommandType DEF TypeOK, Interrupt
<1>2. handed' \in [Events -> Nat]
  <2>1. CASE UNCHANGED handed
    BY <2>1 DEF TypeOK
  <2>2. CASE pc[r] = "publish" /\ Hand(item[r])
    BY <2>2, HandType DEF TypeOK, Handling
  <2> QED
    BY <2>1, <2>2 DEF Interrupt, PublishMayLand
<1>3. abandoned' \subseteq processing'
  BY DEF Interrupt, Abandon
<1> QED
  BY <1>1, <1>2, <1>3

(* The worker has an event in hand exactly while it works on one. *)
HandOK ==
    \A r \in Replicas :
        pc[r] \in Handling \cup {"clear", "orphaned"} => item[r] \in Events

TypeInv == TypeOK /\ HandOK

LEMMA TypeInvInit ==
    ASSUME Init PROVE TypeInv
  BY ConstantsAssumption
     DEF Init, StoreInit, TypeInv, TypeOK, HandOK, StoreTypeOK, Lives, PCs, Handling,
         NoVerdicts, Verdicts

LEMMA TypeInvNext ==
    ASSUME TypeInv, [Next]_vars PROVE TypeInv'
<1> USE DEF TypeInv, HandOK
<1>1. CASE UNCHANGED vars
  BY <1>1 DEF vars, TypeOK, StoreTypeOK
<1>2. ASSUME NEW r \in Replicas, Boot(r) PROVE TypeInv'
  BY <1>2 DEF Boot, EmptyMemory, Goto, NoVerdicts, TypeOK, StoreTypeOK, storeVars,
              Lives, PCs, Handling
<1>3. ASSUME NEW r \in Replicas, Crash(r) PROVE TypeInv'
  <2>1. Interrupt(r)  BY <1>3 DEF Crash
  <2>2. /\ StoreTypeOK'
        /\ handed' \in [Events -> Nat]
        /\ abandoned' \subseteq processing'
    BY <2>1, InterruptType
  <2> QED
    BY <1>3, <2>2 DEF Crash, EmptyMemory, Goto, NoVerdicts, TypeOK, Lives, PCs, Handling
<1>4. ASSUME NEW r \in Replicas, Stop(r) PROVE TypeInv'
  BY <1>4 DEF Stop, TypeOK, StoreTypeOK, storeVars, Lives
<1>5. ASSUME NEW r \in Replicas, NEW e \in Events \cup {NoId}, Enqueue(r, e)
      PROVE  TypeInv'
  <2>1. Append(queue[r], e) \in Seq(Events \cup {NoId})
    BY QueueGrows DEF TypeOK
  <2> QED
    BY <1>5, <2>1 DEF Enqueue, TypeOK, StoreTypeOK, storeVars
<1>6. ASSUME NEW r \in Replicas, EnqueueRefused(r) PROVE TypeInv'
  BY <1>6 DEF EnqueueRefused, TypeOK, StoreTypeOK, storeVars
<1>7. ASSUME NEW r \in Replicas, WorkerStep(r) PROVE TypeInv'
  <2>1. ASSUME TakeHead(r)
        PROVE  /\ queue' \in [Replicas -> Seq(Events \cup {NoId})]
               /\ Head(queue[r]) \in Events \cup {NoId}
               /\ StoreTypeOK'
    BY <2>1, QueueSplits DEF TakeHead, TypeOK, StoreTypeOK, storeVars
  <2>2. CASE Get(r)
    BY <2>1, <2>2 DEF Get, TakeHead, Goto, HasId, TypeOK, PCs, Handling, storeVars
  <2>3. CASE SkipInvalid(r)
    <3>1. verdicts' \in [Replicas -> [Verdicts -> Nat]]
      BY <2>3, CountType DEF SkipInvalid, TypeOK, Verdicts
    <3> QED
      BY <2>1, <2>3, <3>1 DEF SkipInvalid, TakeHead, TypeOK, storeVars
  <2>4. CASE SkipProcessed(r)
    <3>1. verdicts' \in [Replicas -> [Verdicts -> Nat]]
      BY <2>4, CountType DEF SkipProcessed, TypeOK, Verdicts
    <3> QED
      BY <2>4, <3>1 DEF SkipProcessed, Finish, Goto, TypeOK, StoreTypeOK, PCs,
                        Handling, storeVars
  <2>5. CASE CheckProcessed(r)
    BY <2>5 DEF CheckProcessed, Goto, TypeOK, StoreTypeOK, PCs, Handling, storeVars
  <2>6. CASE SkipInProgress(r)
    <3>1. verdicts' \in [Replicas -> [Verdicts -> Nat]]
      BY <2>6, CountType DEF SkipInProgress, TypeOK, Verdicts
    <3> QED
      BY <2>6, <3>1 DEF SkipInProgress, Finish, Goto, TypeOK, StoreTypeOK, PCs,
                        Handling, storeVars
  <2>7. CASE Acquire(r)
    <3>1. verdicts' \in [Replicas -> [Verdicts -> Nat]]
      BY <2>7, CountType DEF Acquire, TypeOK, Verdicts
    <3> QED
      BY <2>7, <3>1 DEF Acquire, SetProcessing, Abandon, Goto, TypeOK, StoreTypeOK,
                        PCs, Handling
  <2>8. CASE Publish(r)
    <3>1. handed' \in [Events -> Nat]
      BY <2>8, HandType DEF Publish, TypeOK, Handling
    <3> QED
      BY <2>8, <3>1 DEF Publish, Goto, TypeOK, StoreTypeOK, PCs, Handling, storeVars
  <2>9. CASE Mark(r)
    <3>1. verdicts' \in [Replicas -> [Verdicts -> Nat]]
      BY <2>9, CountType DEF Mark, TypeOK, Verdicts
    <3> QED
      BY <2>9, <3>1 DEF Mark, MarkProcessed, Abandon, Finish, Goto, TypeOK,
                        StoreTypeOK, PCs, Handling
  <2>10. CASE RedisFails(r)
    <3>1. item[r] \in Events
      BY <2>10 DEF RedisFails, Handling
    <3>2. StoreTypeOK' /\ abandoned' \subseteq processing'
      BY <2>10, <3>1, CommandType DEF RedisFails, Abandon, TypeOK
    <3>3. verdicts' \in [Replicas -> [Verdicts -> Nat]]
      BY <2>10, CountType DEF RedisFails, TypeOK, Verdicts
    <3> QED
      BY <2>10, <3>1, <3>2, <3>3 DEF RedisFails, Trouble, Goto, TypeOK, PCs, Handling
  <2>11. CASE Clear(r)
    BY <2>11 DEF Clear, ClearProcessing, Abandon, Finish, Goto, TypeOK, StoreTypeOK,
                 PCs, Handling
  <2>12. CASE ClearFails(r)
    <3>1. StoreTypeOK' /\ abandoned' \subseteq processing'
      BY <2>12, CommandType DEF ClearFails, Abandon, TypeOK
    <3> QED
      BY <2>12, <3>1 DEF ClearFails, Trouble, Goto, TypeOK, PCs, Handling
  <2>13. CASE WorkerReturns(r)
    BY <2>13 DEF WorkerReturns, Goto, TypeOK, StoreTypeOK, PCs, Handling, storeVars
  <2> QED
    BY <1>7, <2>2, <2>3, <2>4, <2>5, <2>6, <2>7, <2>8, <2>9, <2>10, <2>11, <2>12, <2>13
       DEF WorkerStep
<1>8. ASSUME NEW r \in Replicas, StopStep(r) PROVE TypeInv'
  <2>1. CASE StopReturns(r)
    BY <2>1 DEF StopReturns, TypeOK, StoreTypeOK, storeVars, Lives
  <2>2. CASE StopRaises(r)
    BY <2>2 DEF StopRaises, TypeOK, StoreTypeOK, storeVars, Lives
  <2>3. CASE StopTimeout(r)
    <3>1. Interrupt(r)  BY <2>3 DEF StopTimeout
    <3>2. /\ StoreTypeOK'
          /\ handed' \in [Events -> Nat]
          /\ abandoned' \subseteq processing'
      BY <3>1, InterruptType
    <3> QED
      BY <2>3, <3>2 DEF StopTimeout, Goto, TypeOK, Lives, PCs, Handling
  <2>4. CASE StopTimeoutOrphans(r)
    BY <2>4 DEF StopTimeoutOrphans, Abandon, Goto, TypeOK, StoreTypeOK, storeVars, Lives,
                PCs, Handling
  <2>5. CASE StopTimeoutAbsorbed(r)
    BY <2>5 DEF StopTimeoutAbsorbed, TypeOK, StoreTypeOK, storeVars, Lives
  <2> QED
    BY <1>8, <2>1, <2>2, <2>3, <2>4, <2>5 DEF StopStep
<1>9. ASSUME NEW e \in Events, ProcessingExpires(e) \/ ProcessedExpires(e)
      PROVE  TypeInv'
  BY <1>9 DEF ProcessingExpires, ProcessedExpires, ProcessingKeyExpires,
              ProcessedKeyExpires, Abandon, Trouble, TypeOK, StoreTypeOK
<1>10. ASSUME NEW r \in Replicas, OrphanLands(r) PROVE TypeInv'
  <2>1. handed' \in [Events -> Nat]
    BY <1>10, HandType DEF OrphanLands, TypeOK
  <2> QED
    BY <1>10, <2>1 DEF OrphanLands, Goto, TypeOK, StoreTypeOK, PCs, Handling, storeVars
<1> QED
  BY <1>1, <1>2, <1>3, <1>4, <1>5, <1>6, <1>7, <1>8, <1>9, <1>10 DEF Next

(* Every variable keeps its type, and a worker past queue.get() holds an   *)
(* identified event, whatever fails, expires or dies.                      *)
THEOREM TypeCorrect == Spec => []TypeOK
<1>1. Init => TypeInv
  BY TypeInvInit
<1>2. TypeInv /\ [Next]_vars => TypeInv'
  BY TypeInvNext
<1>3. TypeInv => TypeOK
  BY DEF TypeInv
<1> QED
  BY <1>1, <1>2, <1>3, PTL DEF Spec

-----------------------------------------------------------------------------
(* The worker's await and the life of its process *)

LifeOK ==
    \A r \in Replicas :
        /\ life[r] \in {"down", "stopped", "aborted"}
              => pc[r] \in {"none", "done", "failed", "cancelled", "orphaned"}
        /\ pc[r] = "done" => life[r] # "running" /\ queue[r] = <<>>

ProcInv == TypeInv /\ LifeOK

LEMMA ProcInvNext ==
    ASSUME ProcInv, [Next]_vars PROVE ProcInv'
<1>1. TypeInv'
  BY TypeInvNext DEF ProcInv
<1>2. LifeOK'
  <2> USE DEF ProcInv, TypeInv, TypeOK, LifeOK
  <2>1. CASE UNCHANGED vars
    BY <2>1 DEF vars
  <2>2. ASSUME NEW r \in Replicas, Boot(r) \/ Crash(r) \/ Stop(r) PROVE LifeOK'
    BY <2>2 DEF Boot, Crash, Stop, EmptyMemory, Goto
  <2>3. ASSUME NEW r \in Replicas, NEW e \in Events \cup {NoId}, Enqueue(r, e)
        PROVE  LifeOK'
    BY <2>3 DEF Enqueue
  <2>4. ASSUME NEW r \in Replicas, EnqueueRefused(r) PROVE LifeOK'
    BY <2>4 DEF EnqueueRefused
  <2>5. ASSUME NEW r \in Replicas, WorkerStep(r) PROVE LifeOK'
    <3>1. CASE Get(r) \/ SkipInvalid(r)
      BY <3>1 DEF Get, SkipInvalid, TakeHead, Goto
    <3>2. CASE SkipProcessed(r) \/ CheckProcessed(r) \/ SkipInProgress(r)
      BY <3>2 DEF SkipProcessed, CheckProcessed, SkipInProgress, Finish, Goto
    <3>3. CASE Acquire(r)
      BY <3>3 DEF Acquire, Goto
    <3>4. CASE Publish(r) \/ Mark(r)
      BY <3>4 DEF Publish, Mark, Finish, Goto
    <3>5. CASE RedisFails(r) \/ Clear(r) \/ ClearFails(r)
      BY <3>5 DEF RedisFails, Clear, ClearFails, Finish, Goto
    <3>6. CASE WorkerReturns(r)
      BY <3>6 DEF WorkerReturns, IsDrained, InStop, Goto
    <3> QED
      BY <2>5, <3>1, <3>2, <3>3, <3>4, <3>5, <3>6 DEF WorkerStep
  <2>6. ASSUME NEW r \in Replicas, StopStep(r) PROVE LifeOK'
    BY <2>6 DEF StopStep, StopReturns, StopRaises, StopTimeout, StopTimeoutOrphans,
                StopTimeoutAbsorbed, InStop, Goto
  <2>7. ASSUME NEW e \in Events, ProcessingExpires(e) \/ ProcessedExpires(e)
        PROVE  LifeOK'
    BY <2>7 DEF ProcessingExpires, ProcessedExpires
  <2>8. ASSUME NEW r \in Replicas, OrphanLands(r) PROVE LifeOK'
    BY <2>8 DEF OrphanLands, Goto
  <2> QED
    BY <2>1, <2>2, <2>3, <2>4, <2>5, <2>6, <2>7, <2>8 DEF Next
<1> QED
  BY <1>1, <1>2 DEF ProcInv

LEMMA ProcInvariant == Spec => []ProcInv
<1>1. Init => ProcInv
  BY TypeInvInit DEF ProcInv, LifeOK, Init
<1>2. ProcInv /\ [Next]_vars => ProcInv'
  BY ProcInvNext
<1> QED
  BY <1>1, <1>2, PTL DEF Spec

-----------------------------------------------------------------------------
(* Accounting *)

(* Counting one status adds one to the sum, for this replica only. *)
LEMMA CountCounts ==
    ASSUME verdicts \in [Replicas -> [Verdicts -> Nat]],
           NEW r \in Replicas, NEW v \in Verdicts, Count(r, v)
    PROVE  /\ Counted(r)' = Counted(r) + 1
           /\ \A s \in Replicas \ {r} : Counted(s)' = Counted(s)
<1>1. verdicts'[r] = [verdicts[r] EXCEPT ![v] = @ + 1]
  BY DEF Count
<1>2. \A u \in Verdicts :
          /\ verdicts[r][u] \in Nat
          /\ verdicts'[r][u] = IF u = v THEN verdicts[r][u] + 1 ELSE verdicts[r][u]
  BY <1>1
<1>3. Counted(r)' = Counted(r) + 1
  BY <1>2 DEF Counted, Verdicts
<1>4. \A s \in Replicas \ {r} : verdicts'[s] = verdicts[s]
  BY DEF Count
<1> QED
  BY <1>3, <1>4 DEF Counted

(* What a step does to the replica r it is a step of, and to no other. *)
LEMMA AccountingStep ==
    ASSUME ProcInv, Accounting, NEW r \in Replicas,
           \A s \in Replicas \ {r} :
               /\ accepted'[s] = accepted[s] /\ queue'[s] = queue[s]
               /\ pc'[s] = pc[s] /\ item'[s] = item[s]
               /\ verdicts'[s] = verdicts[s],
           accepted'[r] = Len(queue'[r]) + Uncounted(r)' + Counted(r)',
           QueueSize > 0 => Len(queue'[r]) <= QueueSize
    PROVE  Accounting'
  BY DEF Accounting, Uncounted, Counted

(* The quantities of Accounting are numbers, before and after a step. *)
LEMMA AccountingTypes ==
    ASSUME ProcInv, NEW r \in Replicas
    PROVE  /\ accepted[r] \in Nat /\ Len(queue[r]) \in Nat
           /\ Uncounted(r) \in Nat /\ Counted(r) \in Nat
<1>1. \A v \in Verdicts : verdicts[r][v] \in Nat
  BY DEF ProcInv, TypeInv, TypeOK
<1>2. Counted(r) \in Nat
  BY <1>1 DEF Counted, Verdicts
<1>3. Len(queue[r]) \in Nat
  BY LenProperties DEF ProcInv, TypeInv, TypeOK
<1> QED
  BY <1>2, <1>3 DEF ProcInv, TypeInv, TypeOK, Uncounted

LEMMA AccountingTypesNext ==
    ASSUME ProcInv', NEW r \in Replicas
    PROVE  /\ accepted'[r] \in Nat /\ Len(queue'[r]) \in Nat
           /\ Uncounted(r)' \in Nat /\ Counted(r)' \in Nat
<1>1. \A v \in Verdicts : verdicts'[r][v] \in Nat
  BY DEF ProcInv, TypeInv, TypeOK
<1>2. Counted(r)' \in Nat
  BY <1>1 DEF Counted, Verdicts
<1>3. Len(queue'[r]) \in Nat
  BY LenProperties DEF ProcInv, TypeInv, TypeOK
<1> QED
  BY <1>2, <1>3 DEF ProcInv, TypeInv, TypeOK, Uncounted

LEMMA AccountingNext ==
    ASSUME ProcInv, Accounting, [Next]_vars PROVE Accounting'
<1> DEFINE Others(r) ==
               \A s \in Replicas \ {r} :
                   /\ accepted'[s] = accepted[s] /\ queue'[s] = queue[s]
                   /\ pc'[s] = pc[s] /\ item'[s] = item[s]
                   /\ verdicts'[s] = verdicts[s]
<1>0. ProcInv'
  BY ProcInvNext
<1>1. CASE UNCHANGED vars
  BY <1>1 DEF vars, Accounting, Counted, Uncounted
<1>2. ASSUME NEW r \in Replicas, EmptyMemory(r), \E p \in {"get", "none"} : Goto(r, p)
      PROVE  Accounting'
  <2>1. /\ accepted'[r] = 0 /\ queue'[r] = <<>> /\ verdicts'[r] = NoVerdicts
        /\ Uncounted(r)' = 0
    BY <1>2 DEF EmptyMemory, Goto, Uncounted, Handling, ProcInv, TypeInv, TypeOK
  <2>2. Counted(r)' = 0
    BY <2>1 DEF Counted, NoVerdicts, Verdicts
  <2>3. Len(queue'[r]) = 0
    BY <2>1, EmptySeq
  <2>4. Others(r)
    BY <1>2 DEF EmptyMemory, Goto, ProcInv, TypeInv, TypeOK
  <2>5. accepted'[r] = Len(queue'[r]) + Uncounted(r)' + Counted(r)'
    BY <2>1, <2>2, <2>3
  <2>6. QueueSize > 0 => Len(queue'[r]) <= QueueSize
    BY <2>3, ConstantsAssumption
  <2> QED
    BY <2>4, <2>5, <2>6, AccountingStep
<1>3. ASSUME NEW r \in Replicas, NEW e \in Events \cup {NoId}, Enqueue(r, e)
      PROVE  Accounting'
  <2>1. /\ Len(queue'[r]) = Len(queue[r]) + 1
        /\ accepted'[r] = accepted[r] + 1
    BY <1>3, QueueGrows DEF Enqueue, ProcInv, TypeInv, TypeOK
  <2>2. QueueSize > 0 => Len(queue'[r]) <= QueueSize
    <3>1. QueueSize \in Int /\ Len(queue[r]) \in Nat
      BY ConstantsAssumption, AccountingTypes
    <3>2. ~(QueueSize > 0 /\ Len(queue[r]) >= QueueSize)
      BY <1>3 DEF Enqueue, QueueIsFull
    <3> QED
      BY <2>1, <3>1, <3>2
  <2>3. Uncounted(r)' = Uncounted(r) /\ Counted(r)' = Counted(r)
    BY <1>3 DEF Enqueue, Uncounted, Counted
  <2>4. accepted[r] = Len(queue[r]) + Uncounted(r) + Counted(r)
    BY DEF Accounting
  <2>5. accepted'[r] = Len(queue'[r]) + Uncounted(r)' + Counted(r)'
    <3>1. Len(queue[r]) \in Nat /\ Uncounted(r) \in Nat /\ Counted(r) \in Nat
      BY AccountingTypes
    <3> QED
      BY <2>1, <2>3, <2>4, <3>1
  <2>6. Others(r)
    BY <1>3 DEF Enqueue, ProcInv, TypeInv, TypeOK
  <2> QED
    BY <2>2, <2>5, <2>6, AccountingStep
<1>4. ASSUME NEW r \in Replicas, UNCHANGED <<accepted, queue>>,
             \A s \in Replicas \ {r} : pc'[s] = pc[s] /\ item'[s] = item[s],
             \/ UNCHANGED verdicts /\ Uncounted(r)' = Uncounted(r)
             \/ /\ \E v \in Verdicts : Count(r, v)
                /\ Uncounted(r) = 1 /\ Uncounted(r)' = 0
      PROVE  Accounting'
  <2>1. /\ Uncounted(r)' + Counted(r)' = Uncounted(r) + Counted(r)
        /\ Others(r)
    <3>1. CASE UNCHANGED verdicts /\ Uncounted(r)' = Uncounted(r)
      BY <1>4, <3>1 DEF Counted
    <3>2. ASSUME NEW v \in Verdicts, Count(r, v), Uncounted(r) = 1, Uncounted(r)' = 0
          PROVE  /\ Uncounted(r)' + Counted(r)' = Uncounted(r) + Counted(r)
                 /\ Others(r)
      <4>1. Counted(r)' = Counted(r) + 1
        BY <3>2, CountCounts DEF ProcInv, TypeInv, TypeOK
      <4>2. Others(r)
        BY <1>4, <3>2 DEF Count, ProcInv, TypeInv, TypeOK
      <4> QED
        <5>1. Uncounted(r) \in Nat /\ Counted(r) \in Nat
          BY AccountingTypes
        <5> QED
          BY <3>2, <4>1, <4>2, <5>1
    <3> QED
      BY <1>4, <3>1, <3>2
  <2>2. /\ accepted[r] = Len(queue[r]) + Uncounted(r) + Counted(r)
        /\ QueueSize > 0 => Len(queue[r]) <= QueueSize
    BY DEF Accounting
  <2>3. accepted'[r] = Len(queue'[r]) + Uncounted(r)' + Counted(r)'
    <3>1. /\ Len(queue[r]) \in Nat /\ Uncounted(r) \in Nat /\ Counted(r) \in Nat
          /\ Uncounted(r)' \in Nat /\ Counted(r)' \in Nat
      BY <1>0, AccountingTypes, AccountingTypesNext
    <3>2. accepted' = accepted /\ queue' = queue
      BY <1>4
    <3> QED
      BY <2>1, <2>2, <3>1, <3>2
  <2> QED
    BY <1>4, <2>1, <2>2, <2>3, AccountingStep
<1>5. ASSUME NEW r \in Replicas, Get(r) \/ SkipInvalid(r)
      PROVE  Accounting'
  <2>1. /\ Len(queue'[r]) = Len(queue[r]) - 1
        /\ accepted'[r] = accepted[r]
    BY <1>5, QueueSplits DEF Get, SkipInvalid, TakeHead, ProcInv, TypeInv, TypeOK
  <2>2. Uncounted(r) = 0
    BY <1>5 DEF Get, SkipInvalid, TakeHead, Uncounted, Handling
  <2>3. /\ Uncounted(r)' + Counted(r)' = Counted(r) + 1
        /\ Others(r)
    <3>1. CASE Get(r)
      <4>1. Uncounted(r)' = 1
        BY <3>1 DEF Get, Goto, Uncounted, Handling, ProcInv, TypeInv, TypeOK
      <4>2. Counted(r)' = Counted(r)
        BY <3>1 DEF Get, Counted
      <4>3. Others(r)
        BY <3>1 DEF Get, TakeHead, Goto, ProcInv, TypeInv, TypeOK
      <4> QED
        BY <4>1, <4>2, <4>3, AccountingTypes
    <3>2. CASE SkipInvalid(r)
      <4>1. Uncounted(r)' = 0
        BY <2>2, <3>2 DEF SkipInvalid, Uncounted
      <4>2. Counted(r)' = Counted(r) + 1
        BY <3>2, CountCounts DEF SkipInvalid, Verdicts, ProcInv, TypeInv, TypeOK
      <4>3. Others(r)
        BY <3>2 DEF SkipInvalid, TakeHead, Count, ProcInv, TypeInv, TypeOK
      <4> QED
        BY <4>1, <4>2, <4>3, AccountingTypes
    <3> QED
      BY <1>5, <3>1, <3>2
  <2>4. /\ accepted[r] = Len(queue[r]) + Uncounted(r) + Counted(r)
        /\ QueueSize > 0 => Len(queue[r]) <= QueueSize
    BY DEF Accounting
  <2>5. QueueSize > 0 => Len(queue'[r]) <= QueueSize
    BY <2>1, <2>4, ConstantsAssumption, AccountingTypes
  <2>6. accepted'[r] = Len(queue'[r]) + Uncounted(r)' + Counted(r)'
    <3>1. /\ Len(queue[r]) \in Nat /\ Counted(r) \in Nat
          /\ Uncounted(r)' \in Nat /\ Counted(r)' \in Nat
      BY <1>0, AccountingTypes, AccountingTypesNext
    <3>2. accepted[r] = (Len(queue[r]) - 1) + (Counted(r) + 1)
      BY <2>2, <2>4, <3>1
    <3>3. (Len(queue[r]) - 1) + Uncounted(r)' + Counted(r)'
             = (Len(queue[r]) - 1) + (Uncounted(r)' + Counted(r)')
      BY <3>1
    <3> QED
      BY <2>1, <2>3, <3>2, <3>3
  <2> QED
    BY <2>3, <2>5, <2>6, AccountingStep
<1>6. ASSUME NEW r \in Replicas, Boot(r) \/ Crash(r) PROVE Accounting'
  BY <1>2, <1>6 DEF Boot, Crash
<1>7. ASSUME NEW r \in Replicas, Stop(r) \/ EnqueueRefused(r) PROVE Accounting'
  BY <1>7 DEF Stop, EnqueueRefused, Accounting, Uncounted, Counted
<1>8. ASSUME NEW r \in Replicas, WorkerStep(r) PROVE Accounting'
  <2> USE DEF Uncounted, Handling, Goto, ProcInv, TypeInv, TypeOK
  <2>1. CASE Get(r) \/ SkipInvalid(r)
    BY <1>5, <2>1
  <2>2. CASE SkipProcessed(r)
    BY <1>4, <2>2 DEF SkipProcessed, Finish, Verdicts
  <2>3. CASE CheckProcessed(r)
    BY <1>4, <2>3 DEF CheckProcessed
  <2>4. CASE SkipInProgress(r)
    BY <1>4, <2>4 DEF SkipInProgress, Finish, Verdicts
  <2>5. CASE Acquire(r)
    BY <1>4, <2>5 DEF Acquire, Verdicts
  <2>6. CASE Publish(r)
    BY <1>4, <2>6 DEF Publish
  <2>7. CASE Mark(r)
    BY <1>4, <2>7 DEF Mark, Finish, Verdicts
  <2>8. CASE RedisFails(r)
    BY <1>4, <2>8 DEF RedisFails, Verdicts
  <2>9. CASE Clear(r)
    BY <1>4, <2>9 DEF Clear, Finish
  <2>10. CASE ClearFails(r)
    BY <1>4, <2>10 DEF ClearFails
  <2>11. CASE WorkerReturns(r)
    BY <1>4, <2>11 DEF WorkerReturns
  <2> QED
    BY <1>8, <2>1, <2>2, <2>3, <2>4, <2>5, <2>6, <2>7, <2>8, <2>9, <2>10, <2>11
       DEF WorkerStep
<1>9. ASSUME NEW r \in Replicas, StopStep(r) PROVE Accounting'
  <2>1. CASE StopReturns(r) \/ StopRaises(r) \/ StopTimeoutAbsorbed(r)
    BY <2>1 DEF StopReturns, StopRaises, StopTimeoutAbsorbed, Accounting, Uncounted,
                Counted
  <2>2. CASE StopTimeout(r)
    <3>1. pc[r] \in Handling => item[r] \in Events /\ item[r] # Nothing
      BY ConstantsAssumption DEF ProcInv, TypeInv, HandOK
    <3>2. Uncounted(r)' = Uncounted(r)
      BY <2>2, <3>1 DEF StopTimeout, Goto, Uncounted, Handling, ProcInv, TypeInv, TypeOK
    <3>3. \A s \in Replicas \ {r} : pc'[s] = pc[s] /\ item'[s] = item[s]
      BY <2>2 DEF StopTimeout, Goto, ProcInv, TypeInv, TypeOK
    <3> QED
      BY <1>4, <2>2, <3>2, <3>3 DEF StopTimeout
  <2>3. CASE StopTimeoutOrphans(r)
    <3>1. item[r] # Nothing
      BY <2>3, ConstantsAssumption
         DEF StopTimeoutOrphans, Handling, ProcInv, TypeInv, HandOK
    <3>2. Uncounted(r)' = Uncounted(r)
      BY <2>3, <3>1
         DEF StopTimeoutOrphans, Goto, Uncounted, Handling, ProcInv, TypeInv, TypeOK
    <3> QED
      BY <1>4, <2>3, <3>2 DEF StopTimeoutOrphans, Goto, ProcInv, TypeInv, TypeOK
  <2> QED
    BY <1>9, <2>1, <2>2, <2>3 DEF StopStep
<1>10. ASSUME NEW e \in Events, ProcessingExpires(e) \/ ProcessedExpires(e)
       PROVE  Accounting'
  BY <1>10 DEF ProcessingExpires, ProcessedExpires, Accounting, Uncounted, Counted
<1>11. ASSUME NEW r \in Replicas, OrphanLands(r) PROVE Accounting'
  <2>1. Uncounted(r)' = Uncounted(r)
    BY <1>11 DEF OrphanLands, Goto, Uncounted, Handling, ProcInv, TypeInv, TypeOK
  <2> QED
    BY <1>4, <1>11, <2>1 DEF OrphanLands, Goto, ProcInv, TypeInv, TypeOK
<1> QED
  BY <1>1, <1>3, <1>6, <1>7, <1>8, <1>9, <1>10, <1>11 DEF Next

(* No event answered with 200 is lost from the books of its process, and   *)
(* the queue keeps its bound.                                              *)
THEOREM AccountingHolds == Spec => []Accounting
<1>1. Init => Accounting
  BY EmptySeq, ConstantsAssumption
     DEF Init, Accounting, Uncounted, Counted, NoVerdicts, Verdicts, Handling
<1>2. ProcInv /\ Accounting /\ [Next]_vars => Accounting'
  BY AccountingNext
<1> QED
  BY <1>1, <1>2, ProcInvariant, PTL DEF Spec

(* A stop() that ends because the worker did leaves nothing unprocessed. *)
THEOREM CleanStopDrains == Spec => []DrainedOnCleanStop
<1>1. ProcInv /\ Accounting => DrainedOnCleanStop
  <2> SUFFICES ASSUME ProcInv, Accounting, NEW r \in Replicas, pc[r] = "done"
               PROVE  queue[r] = <<>> /\ accepted[r] = Counted(r)
    BY DEF DrainedOnCleanStop
  <2>1. queue[r] = <<>>
    BY DEF ProcInv, LifeOK
  <2>2. Len(queue[r]) = 0 /\ Uncounted(r) = 0
    BY <2>1, EmptySeq DEF Uncounted, Handling
  <2>3. accepted[r] = Len(queue[r]) + Uncounted(r) + Counted(r)
    BY DEF Accounting
  <2> QED
    BY <2>1, <2>2, <2>3, AccountingTypes
<1> QED
  BY <1>1, ProcInvariant, AccountingHolds, PTL

-----------------------------------------------------------------------------
(* Locks *)

HoldsLock(r) == pc[r] \in {"publish", "mark", "clear"}

(* A step of r moves no other worker. *)
LEMMA OthersStay ==
    ASSUME TypeOK, NEW r \in Replicas,
           Boot(r) \/ Crash(r) \/ Stop(r) \/ EnqueueRefused(r) \/ WorkerStep(r)
           \/ StopStep(r) \/ OrphanLands(r)
           \/ \E e \in Events \cup {NoId} : Enqueue(r, e)
    PROVE  \A s \in Replicas \ {r} : pc'[s] = pc[s] /\ item'[s] = item[s]
<1> USE DEF TypeOK
<1>1. ASSUME Boot(r) \/ Crash(r) \/ Stop(r) \/ EnqueueRefused(r)
      PROVE  \A s \in Replicas \ {r} : pc'[s] = pc[s] /\ item'[s] = item[s]
  BY <1>1 DEF Boot, Crash, Stop, EnqueueRefused, EmptyMemory, Goto
<1>2. ASSUME NEW e \in Events \cup {NoId}, Enqueue(r, e)
      PROVE  \A s \in Replicas \ {r} : pc'[s] = pc[s] /\ item'[s] = item[s]
  BY <1>2 DEF Enqueue
<1>3. ASSUME WorkerStep(r)
      PROVE  \A s \in Replicas \ {r} : pc'[s] = pc[s] /\ item'[s] = item[s]
  BY <1>3 DEF WorkerStep, Get, SkipInvalid, TakeHead, SkipProcessed, CheckProcessed,
              SkipInProgress, Acquire, Publish, Mark, RedisFails, Clear, ClearFails,
              WorkerReturns, Finish, Goto
<1>4. ASSUME StopStep(r)
      PROVE  \A s \in Replicas \ {r} : pc'[s] = pc[s] /\ item'[s] = item[s]
  BY <1>4 DEF StopStep, StopReturns, StopRaises, StopTimeout, StopTimeoutOrphans,
              StopTimeoutAbsorbed, Goto
<1>5. ASSUME OrphanLands(r)
      PROVE  \A s \in Replicas \ {r} : pc'[s] = pc[s] /\ item'[s] = item[s]
  BY <1>5 DEF OrphanLands, Goto
<1> QED
  BY <1>1, <1>2, <1>3, <1>4, <1>5

LEMMA LocksAccountedNext ==
    ASSUME ProcInv, LocksAccounted, [Next]_vars PROVE LocksAccounted'
<1> USE DEF LocksAccounted
<1> SUFFICES ASSUME NEW e \in processing' \ abandoned'
             PROVE  \E r \in Replicas : item'[r] = e /\ HoldsLock(r)'
  BY DEF HoldsLock
<1>0. TypeOK
  BY DEF ProcInv, TypeInv
(* The worker r that moves either takes the lock, or keeps it, or had none. *)
<1>1. ASSUME NEW r \in Replicas, e \in processing \ abandoned,
             \A s \in Replicas \ {r} : pc'[s] = pc[s] /\ item'[s] = item[s],
             (HoldsLock(r) /\ item[r] = e) => (HoldsLock(r)' /\ item'[r] = e)
      PROVE  \E s \in Replicas : item'[s] = e /\ HoldsLock(s)'
  BY <1>1 DEF HoldsLock
<1>2. ASSUME NEW r \in Replicas, Interrupt(r), Crash(r) \/ StopTimeout(r)
      PROVE  \E s \in Replicas : item'[s] = e /\ HoldsLock(s)'
  <2>1. e # item[r] \/ pc[r] \notin {"setnx", "publish", "mark", "clear"}
    BY <1>2 DEF Interrupt, Abandon
  <2>2. e \in processing \ abandoned
    BY <1>2, <2>1 DEF Interrupt, CommandMayLand, Abandon, SetProcessing, MarkProcessed,
                      ClearProcessing, storeVars
  <2>3. \A s \in Replicas \ {r} : pc'[s] = pc[s] /\ item'[s] = item[s]
    BY <1>0, <1>2, OthersStay DEF StopStep
  <2> QED
    BY <1>1, <2>1, <2>2, <2>3 DEF HoldsLock
<1>3. CASE UNCHANGED vars
  BY <1>3 DEF vars, HoldsLock
<1>4. ASSUME NEW r \in Replicas, Boot(r)
      PROVE  \E s \in Replicas : item'[s] = e /\ HoldsLock(s)'
  <2>1. ~HoldsLock(r) /\ e \in processing \ abandoned
    BY <1>4 DEF Boot, ProcInv, LifeOK, HoldsLock, storeVars
  <2> QED
    BY <1>0, <1>1, <1>4, <2>1, OthersStay
<1>5. ASSUME NEW r \in Replicas, Stop(r) \/ EnqueueRefused(r)
      PROVE  \E s \in Replicas : item'[s] = e /\ HoldsLock(s)'
  BY <1>5 DEF Stop, EnqueueRefused, HoldsLock, storeVars
<1>6. ASSUME NEW r \in Replicas, NEW d \in Events \cup {NoId}, Enqueue(r, d)
      PROVE  \E s \in Replicas : item'[s] = e /\ HoldsLock(s)'
  BY <1>6 DEF Enqueue, HoldsLock, storeVars
<1>7. ASSUME NEW r \in Replicas, WorkerStep(r)
      PROVE  \E s \in Replicas : item'[s] = e /\ HoldsLock(s)'
  <2>0. \A s \in Replicas \ {r} : pc'[s] = pc[s] /\ item'[s] = item[s]
    BY <1>0, <1>7, OthersStay
  <2> USE DEF HoldsLock, Goto, Finish, Abandon, storeVars, TypeOK
  <2>1. CASE Get(r) \/ SkipInvalid(r)
    BY <1>0, <1>1, <2>0, <2>1 DEF Get, SkipInvalid, TakeHead
  <2>2. CASE SkipProcessed(r) \/ CheckProcessed(r) \/ SkipInProgress(r)
    BY <1>0, <1>1, <2>0, <2>2 DEF SkipProcessed, CheckProcessed, SkipInProgress
  <2>3. CASE Acquire(r)
    <3>1. CASE e = item[r]
      BY <1>0, <2>3, <3>1 DEF Acquire
    <3>2. CASE e # item[r]
      BY <1>0, <1>1, <2>0, <2>3, <3>2 DEF Acquire, SetProcessing
    <3> QED
      BY <3>1, <3>2
  <2>4. CASE Publish(r)
    BY <1>0, <1>1, <2>0, <2>4 DEF Publish
  <2>5. CASE Mark(r)
    BY <1>0, <1>1, <2>0, <2>5 DEF Mark, MarkProcessed
  <2>6. CASE RedisFails(r)
    <3>1. CASE e = item[r]
      BY <1>0, <2>6, <3>1 DEF RedisFails
    <3>2. CASE e # item[r]
      BY <1>0, <1>1, <2>0, <2>6, <3>2
         DEF RedisFails, CommandMayLand, SetProcessing, MarkProcessed, ClearProcessing
    <3> QED
      BY <3>1, <3>2
  <2>7. CASE Clear(r)
    BY <1>0, <1>1, <2>0, <2>7 DEF Clear, ClearProcessing
  <2>8. CASE ClearFails(r)
    BY <1>0, <1>1, <2>0, <2>8
       DEF ClearFails, CommandMayLand, SetProcessing, MarkProcessed, ClearProcessing
  <2>9. CASE WorkerReturns(r)
    BY <1>0, <1>1, <2>0, <2>9 DEF WorkerReturns
  <2> QED
    BY <1>7, <2>1, <2>2, <2>3, <2>4, <2>5, <2>6, <2>7, <2>8, <2>9 DEF WorkerStep
<1>8. ASSUME NEW r \in Replicas, StopStep(r)
      PROVE  \E s \in Replicas : item'[s] = e /\ HoldsLock(s)'
  <2>1. CASE StopReturns(r) \/ StopRaises(r) \/ StopTimeoutAbsorbed(r)
    BY <2>1 DEF StopReturns, StopRaises, StopTimeoutAbsorbed, HoldsLock, storeVars
  <2>2. CASE StopTimeout(r)
    BY <1>2, <2>2 DEF StopTimeout
  <2>3. CASE StopTimeoutOrphans(r)
    <3>1. e # item[r] /\ e \in processing \ abandoned
      BY <2>3 DEF StopTimeoutOrphans, Abandon, storeVars
    <3> QED
      BY <1>0, <1>1, <1>8, <3>1, OthersStay
  <2> QED
    BY <1>8, <2>1, <2>2, <2>3 DEF StopStep
<1>9. ASSUME NEW d \in Events, ProcessingExpires(d) \/ ProcessedExpires(d)
      PROVE  \E s \in Replicas : item'[s] = e /\ HoldsLock(s)'
  BY <1>9 DEF ProcessingExpires, ProcessedExpires, ProcessingKeyExpires,
              ProcessedKeyExpires, Abandon, HoldsLock
<1>10. ASSUME NEW r \in Replicas, Crash(r)
       PROVE  \E s \in Replicas : item'[s] = e /\ HoldsLock(s)'
  BY <1>2, <1>10 DEF Crash
<1>11. ASSUME NEW r \in Replicas, OrphanLands(r)
       PROVE  \E s \in Replicas : item'[s] = e /\ HoldsLock(s)'
  <2>1. ~HoldsLock(r) /\ e \in processing \ abandoned
    BY <1>11 DEF OrphanLands, HoldsLock, storeVars
  <2> QED
    BY <1>0, <1>1, <1>11, <2>1, OthersStay
<1> QED
  BY <1>3, <1>4, <1>5, <1>6, <1>7, <1>8, <1>9, <1>10, <1>11 DEF Next

(* No path of _process_one leaves a lock behind, except a cancellation, a  *)
(* death of the process and a DEL that fails: with any number of replicas, *)
(* any Redis failure and any expiry.                                       *)
THEOREM LocksStayAccounted == Spec => []LocksAccounted
<1>1. Init => LocksAccounted
  BY DEF Init, StoreInit, LocksAccounted
<1>2. ProcInv /\ LocksAccounted /\ [Next]_vars => LocksAccounted'
  BY LocksAccountedNext
<1> QED
  BY <1>1, <1>2, ProcInvariant, PTL DEF Spec

-----------------------------------------------------------------------------
(* Mutual exclusion of replicas, unless Redis gives trouble *)

(* Up to Redis trouble, a worker past SET NX owns the lock of its event,   *)
(* and only an event that never gets to the publisher is at DEL.           *)
HolderInv ==
    /\ \A r \in Replicas : pc[r] = "clear" => item[r] \in BadEvents \cup troubled
    /\ \A r \in Replicas : HasTheEvent(r) =>
          /\ item[r] \notin BadEvents
          /\ item[r] \in processing \cup troubled
    /\ Exclusive

LEMMA HolderInvNext ==
    ASSUME TypeOK, HolderInv, [Next]_vars PROVE HolderInv'
<1> USE DEF HolderInv, Exclusive
(* A step that takes no lock, and removes at most a key that the worker    *)
(* itself held, that of a bad event, or one that Redis gave trouble with.  *)
<1>1. ASSUME NEW r \in Replicas,
             \A s \in Replicas \ {r} : pc'[s] = pc[s] /\ item'[s] = item[s],
             troubled \subseteq troubled',
             HasTheEvent(r)' => HasTheEvent(r) /\ item'[r] = item[r],
             pc'[r] = "clear" => item'[r] \in BadEvents \cup troubled',
             \A e \in processing \ processing' :
                \/ e \in BadEvents \cup troubled'
                \/ HasTheEvent(r) /\ ~HasTheEvent(r)' /\ item[r] = e
      PROVE  HolderInv'
  <2>1. ASSUME NEW s \in Replicas, HasTheEvent(s)'
        PROVE  item'[s] \notin BadEvents /\ item'[s] \in processing' \cup troubled'
    BY <1>1, <2>1 DEF HasTheEvent
  <2> QED
    BY <1>1, <2>1 DEF HasTheEvent
<1>2. CASE UNCHANGED vars
  BY <1>2 DEF vars, HasTheEvent
<1>3. ASSUME NEW r \in Replicas, Interrupt(r), UNCHANGED troubled
      PROVE  \A e \in processing \ processing' :
                \/ e \in BadEvents \cup troubled'
                \/ HasTheEvent(r) /\ item[r] = e
  BY <1>3 DEF Interrupt, CommandMayLand, SetProcessing, MarkProcessed, ClearProcessing,
              storeVars, HasTheEvent
<1>4. ASSUME NEW r \in Replicas, Boot(r) \/ Crash(r) \/ Stop(r) \/ EnqueueRefused(r)
      PROVE  HolderInv'
  <2>1. \A s \in Replicas \ {r} : pc'[s] = pc[s] /\ item'[s] = item[s]
    BY <1>4, OthersStay
  <2>2. CASE Boot(r)
    BY <1>1, <2>1, <2>2 DEF Boot, Goto, HasTheEvent, TypeOK, storeVars
  <2>3. CASE Crash(r)
    BY <1>1, <1>3, <2>1, <2>3 DEF Crash, Goto, HasTheEvent, TypeOK
  <2>4. CASE Stop(r) \/ EnqueueRefused(r)
    BY <2>4 DEF Stop, EnqueueRefused, HasTheEvent, storeVars
  <2> QED
    BY <1>4, <2>2, <2>3, <2>4
<1>5. ASSUME NEW r \in Replicas, NEW e \in Events \cup {NoId}, Enqueue(r, e)
      PROVE  HolderInv'
  BY <1>5 DEF Enqueue, HasTheEvent, storeVars
<1>6. ASSUME NEW r \in Replicas, WorkerStep(r) PROVE HolderInv'
  <2>0. \A s \in Replicas \ {r} : pc'[s] = pc[s] /\ item'[s] = item[s]
    BY <1>6, OthersStay
  <2> USE DEF HasTheEvent, Goto, Finish, storeVars, TypeOK
  <2>1. CASE Get(r) \/ SkipInvalid(r)
    BY <1>1, <2>0, <2>1 DEF Get, SkipInvalid, TakeHead
  <2>2. CASE SkipProcessed(r) \/ CheckProcessed(r) \/ SkipInProgress(r)
    <3>1. pc[r] \in {"exists", "setnx"} /\ pc'[r] \in {"get", "setnx"}
      BY <2>2 DEF SkipProcessed, CheckProcessed, SkipInProgress
    <3>2. processing' = processing /\ troubled' = troubled
      BY <2>2 DEF SkipProcessed, CheckProcessed, SkipInProgress
    <3> QED
      BY <1>1, <2>0, <3>1, <3>2
  <2>3. CASE Acquire(r)
    <3>1. \A s \in Replicas : HasTheEvent(s) /\ item[s] = item[r] => item[s] \in troubled
      BY <2>3 DEF Acquire, LockIsFree
    <3>2. pc'[r] = "publish" => item[r] \notin BadEvents
      BY <2>3 DEF Acquire
    <3>3. pc'[r] = "clear" => item[r] \in BadEvents
      BY <2>3 DEF Acquire
    <3>4. pc'[r] \in {"publish", "clear"}
      BY <2>3 DEF Acquire
    <3>5. processing' = processing \cup {item[r]} /\ item' = item /\ troubled' = troubled
      BY <2>3 DEF Acquire, SetProcessing
    <3> QED
      BY <2>0, <3>1, <3>2, <3>3, <3>4, <3>5
  <2>4. CASE Publish(r)
    BY <1>1, <2>0, <2>4 DEF Publish
  <2>5. CASE Mark(r)
    BY <1>1, <2>0, <2>5 DEF Mark, MarkProcessed
  <2>6. CASE RedisFails(r)
    BY <1>1, <2>0, <2>6 DEF RedisFails, Trouble, CommandMayLand, SetProcessing,
                            MarkProcessed, ClearProcessing
  <2>7. CASE Clear(r)
    BY <1>1, <2>0, <2>7 DEF Clear, ClearProcessing
  <2>8. CASE ClearFails(r)
    BY <1>1, <2>0, <2>8 DEF ClearFails, Trouble, CommandMayLand, SetProcessing,
                            MarkProcessed, ClearProcessing
  <2>9. CASE WorkerReturns(r)
    BY <1>1, <2>0, <2>9 DEF WorkerReturns
  <2> QED
    BY <1>6, <2>1, <2>2, <2>3, <2>4, <2>5, <2>6, <2>7, <2>8, <2>9 DEF WorkerStep
<1>7. ASSUME NEW r \in Replicas, StopStep(r) PROVE HolderInv'
  <2>0. \A s \in Replicas \ {r} : pc'[s] = pc[s] /\ item'[s] = item[s]
    BY <1>7, OthersStay
  <2>1. CASE StopReturns(r) \/ StopRaises(r) \/ StopTimeoutAbsorbed(r)
    BY <2>1 DEF StopReturns, StopRaises, StopTimeoutAbsorbed, HasTheEvent, storeVars
  <2>2. CASE StopTimeout(r)
    BY <1>1, <1>3, <2>0, <2>2 DEF StopTimeout, Goto, HasTheEvent, TypeOK
  <2>3. CASE StopTimeoutOrphans(r)
    BY <1>1, <2>0, <2>3 DEF StopTimeoutOrphans, Goto, HasTheEvent, storeVars, TypeOK
  <2> QED
    BY <1>7, <2>1, <2>2, <2>3 DEF StopStep
<1>8. ASSUME NEW r \in Replicas, OrphanLands(r) PROVE HolderInv'
  BY <1>1, <1>8 DEF OrphanLands, Goto, HasTheEvent, storeVars, TypeOK
<1>9. ASSUME NEW e \in Events, ProcessingExpires(e) \/ ProcessedExpires(e)
      PROVE  HolderInv'
  BY <1>9 DEF ProcessingExpires, ProcessedExpires, ProcessingKeyExpires,
              ProcessedKeyExpires, Trouble, HasTheEvent
<1> QED
  BY <1>2, <1>4, <1>5, <1>6, <1>7, <1>8, <1>9 DEF Next

(* Two of any number of replicas have one event to publish or to mark at   *)
(* once only after Redis raised an error for it or dropped one of its      *)
(* keys, however they are delivered, interrupted and restarted: the DEL of *)
(* one worker never frees the lock of another before that.                 *)
THEOREM ReplicasExclude == Spec => []Exclusive
<1>1. Init => HolderInv
  BY DEF Init, HolderInv, Exclusive, HasTheEvent
<1>2. TypeOK /\ HolderInv /\ [Next]_vars => HolderInv'
  BY HolderInvNext
<1>3. HolderInv => Exclusive
  BY DEF HolderInv
<1> QED
  BY <1>1, <1>2, <1>3, TypeCorrect, PTL DEF Spec

-----------------------------------------------------------------------------
(* A single replica *)

SingleReplica == \A r, s \in Replicas : r = s

(* What the worker has read of the record is still so when it publishes:   *)
(* nobody else writes it.                                                  *)
FreshRead ==
    \A r \in Replicas :
        pc[r] \in {"setnx", "publish", "orphaned"} => item[r] \notin processed

LEMMA FreshReadNext ==
    ASSUME SingleReplica, TypeOK, FreshRead, [Next]_vars PROVE FreshRead'
<1> USE DEF FreshRead, TypeOK
<1>1. CASE UNCHANGED vars
  BY <1>1 DEF vars
<1>2. ASSUME NEW r \in Replicas, Boot(r) \/ Crash(r) \/ Stop(r) \/ EnqueueRefused(r)
      PROVE  FreshRead'
  BY <1>2 DEF SingleReplica, Boot, Crash, Stop, EnqueueRefused, Goto, storeVars
<1>3. ASSUME NEW r \in Replicas, NEW e \in Events \cup {NoId}, Enqueue(r, e)
      PROVE  FreshRead'
  BY <1>3 DEF Enqueue, storeVars
<1>4. ASSUME NEW r \in Replicas, WorkerStep(r) PROVE FreshRead'
  <2> USE DEF Goto, Finish, storeVars, SingleReplica
  <2>1. CASE Get(r) \/ SkipInvalid(r)
    BY <2>1 DEF Get, SkipInvalid, TakeHead
  <2>2. CASE SkipProcessed(r) \/ CheckProcessed(r) \/ SkipInProgress(r)
    BY <2>2 DEF SkipProcessed, CheckProcessed, SkipInProgress, IsProcessed
  <2>3. CASE Acquire(r)
    BY <2>3 DEF Acquire, SetProcessing
  <2>4. CASE Publish(r) \/ Mark(r)
    BY <2>4 DEF Publish, Mark
  <2>5. CASE RedisFails(r) \/ Clear(r) \/ ClearFails(r)
    BY <2>5 DEF RedisFails, Clear, ClearFails
  <2>6. CASE WorkerReturns(r)
    BY <2>6 DEF WorkerReturns
  <2> QED
    BY <1>4, <2>1, <2>2, <2>3, <2>4, <2>5, <2>6 DEF WorkerStep
<1>5. ASSUME NEW r \in Replicas, StopStep(r) PROVE FreshRead'
  BY <1>5 DEF StopStep, StopReturns, StopRaises, StopTimeout, StopTimeoutOrphans,
              StopTimeoutAbsorbed, Goto, storeVars, SingleReplica
<1>6. ASSUME NEW e \in Events, ProcessingExpires(e) \/ ProcessedExpires(e)
      PROVE  FreshRead'
  BY <1>6 DEF ProcessingExpires, ProcessedExpires, ProcessingKeyExpires,
              ProcessedKeyExpires
<1>7. ASSUME NEW r \in Replicas, OrphanLands(r) PROVE FreshRead'
  BY <1>7 DEF OrphanLands, Goto, storeVars, SingleReplica
<1> QED
  BY <1>1, <1>2, <1>3, <1>4, <1>5, <1>6, <1>7 DEF Next

LEMMA FreshReadInvariant ==
    ASSUME SingleReplica PROVE Spec => []FreshRead
<1>1. Init => FreshRead
  BY DEF Init, FreshRead
<1>2. TypeOK /\ FreshRead /\ [Next]_vars => FreshRead'
  BY FreshReadNext
<1> QED
  BY <1>1, <1>2, TypeCorrect, PTL DEF Spec

(* Only a worker that publishes e, or was cut off in it, hands a message of *)
(* e over.                                                                 *)
LEMMA WhoHands ==
    ASSUME TypeOK, Next, NEW e \in Events, handed'[e] # handed[e]
    PROVE  \E r \in Replicas : pc[r] \in {"publish", "orphaned"} /\ item[r] = e
<1>1. ASSUME NEW r \in Replicas, PublishMayLand(r)
      PROVE  pc[r] = "publish" /\ item[r] = e
  BY <1>1 DEF PublishMayLand, Hand, TypeOK
<1>2. ASSUME NEW r \in Replicas, Publish(r)
      PROVE  pc[r] = "publish" /\ item[r] = e
  BY <1>2 DEF Publish, Hand, TypeOK
<1>3. ASSUME NEW r \in Replicas, OrphanLands(r)
      PROVE  pc[r] = "orphaned" /\ item[r] = e
  BY <1>3 DEF OrphanLands, Hand, TypeOK
<1>4. \E r \in Replicas : PublishMayLand(r) \/ Publish(r) \/ OrphanLands(r)
  BY DEF Next, Boot, Crash, Interrupt, Stop, Enqueue, EnqueueRefused, WorkerStep, Get,
         SkipInvalid, TakeHead, SkipProcessed, CheckProcessed, SkipInProgress, Acquire,
         Mark, RedisFails, Clear, ClearFails, WorkerReturns, StopStep, StopReturns,
         StopRaises, StopTimeout, StopTimeoutOrphans, StopTimeoutAbsorbed,
         ProcessingExpires, ProcessedExpires
<1> QED
  BY <1>1, <1>2, <1>3, <1>4

(* A bridge of one replica never sends a message for an event recorded as  *)
(* processed, under every failure the model has.                           *)
THEOREM ProcessedStaysProcessed ==
    ASSUME SingleReplica
    PROVE  Spec => NeverRepublishProcessed
<1>1. TypeOK /\ FreshRead /\ [Next]_vars
        => [\A e \in Events : handed'[e] # handed[e] => e \notin processed]_vars
  <2> SUFFICES ASSUME TypeOK, FreshRead, Next,
                      NEW e \in Events, handed'[e] # handed[e]
               PROVE  e \notin processed
    OBVIOUS
  <2> QED
    BY WhoHands DEF FreshRead
<1> QED
  BY <1>1, TypeCorrect, FreshReadInvariant, PTL DEF Spec, NeverRepublishProcessed

-----------------------------------------------------------------------------
(* At most one message, as long as Redis gives no trouble: a message that  *)
(* has left is remembered by the lock until the record takes over, and the *)
(* only lock released without a record is that of an event that never      *)
(* reached the publisher.                                                  *)

OneMessageInv ==
    /\ \A r \in Replicas :
          /\ pc[r] \in {"publish", "mark", "orphaned"} => item[r] \notin BadEvents
          /\ pc[r] = "clear" => item[r] \in BadEvents \cup troubled
          /\ pc[r] \in {"publish", "orphaned"} /\ item[r] \notin troubled
                => item[r] \in processing /\ handed[item[r]] = 0
    /\ \A e \in BadEvents : handed[e] = 0
    /\ \A e \in Events \ troubled :
          /\ handed[e] <= 1
          /\ handed[e] # 0 => e \in processing \cup processed

(* A hand-over for the worker of r, which holds the lock and has sent      *)
(* nothing yet unless Redis gave trouble, and then waits for nothing more. *)
LEMMA HandingOnce ==
    ASSUME SingleReplica, TypeInv, OneMessageInv, NEW r \in Replicas,
           pc[r] \in {"publish", "orphaned"}, Hand(item[r]),
           UNCHANGED <<storeVars, item, troubled>>,
           \E p \in {"mark", "cancelled"} : Goto(r, p)
    PROVE  OneMessageInv'
<1> USE DEF OneMessageInv, TypeInv, TypeOK, HandOK, SingleReplica
<1>1. item[r] \in Events /\ item[r] \notin BadEvents
  BY DEF Handling
<1>2. \A e \in Events :
          handed'[e] = IF e = item[r] THEN handed[e] + 1 ELSE handed[e]
  BY <1>1 DEF Hand
<1>3. \A e \in BadEvents : handed'[e] = 0
  BY <1>1, <1>2, ConstantsAssumption
<1>4. \A e \in Events \ troubled :
          /\ handed'[e] <= 1
          /\ handed'[e] # 0 => e \in processing \cup processed
  BY <1>2
<1> QED
  BY <1>1, <1>3, <1>4 DEF Goto, storeVars

LEMMA OneMessageNext ==
    ASSUME SingleReplica, TypeInv, FreshRead, OneMessageInv, [Next]_vars
    PROVE  OneMessageInv'
<1> USE DEF OneMessageInv, TypeInv, TypeOK, HandOK, SingleReplica
<1>1. CASE UNCHANGED vars
  BY <1>1 DEF vars
<1>2. ASSUME NEW r \in Replicas, Interrupt(r), UNCHANGED troubled,
             pc'[r] \in {"none", "cancelled"}
      PROVE  OneMessageInv'
  <2>1. ASSUME NEW e \in Events
        PROVE  \/ handed'[e] = handed[e]
               \/ pc[r] = "publish" /\ item[r] = e /\ handed'[e] = handed[e] + 1
    BY <1>2 DEF Interrupt, PublishMayLand, Hand
  <2>2. \A e \in BadEvents : handed'[e] = 0
    BY <2>1, ConstantsAssumption
  <2>3. ASSUME NEW e \in Events \ troubled
        PROVE  /\ handed'[e] <= 1
               /\ handed'[e] # 0 => e \in processing' \cup processed'
    <3>1. handed[e] # 0 => e \in processing' \cup processed'
      BY <1>2 DEF Interrupt, CommandMayLand, SetProcessing, MarkProcessed,
                  ClearProcessing, storeVars
    <3>2. pc[r] = "publish" /\ item[r] = e => e \in processing' /\ handed[e] = 0
      BY <1>2 DEF Interrupt, CommandMayLand, storeVars
    <3> QED
      BY <2>1, <3>1, <3>2
  <2> QED
    BY <1>2, <2>2, <2>3
<1>3. ASSUME NEW r \in Replicas, Boot(r) \/ Crash(r) \/ Stop(r) \/ EnqueueRefused(r)
      PROVE  OneMessageInv'
  <2>1. CASE Boot(r)
    BY <2>1 DEF Boot, Goto, storeVars
  <2>2. CASE Crash(r)
    BY <1>2, <2>2 DEF Crash, Goto
  <2>3. CASE Stop(r) \/ EnqueueRefused(r)
    BY <2>3 DEF Stop, EnqueueRefused, storeVars
  <2> QED
    BY <1>3, <2>1, <2>2, <2>3
<1>4. ASSUME NEW r \in Replicas, NEW e \in Events \cup {NoId}, Enqueue(r, e)
      PROVE  OneMessageInv'
  BY <1>4 DEF Enqueue, storeVars
<1>5. ASSUME NEW r \in Replicas, WorkerStep(r) PROVE OneMessageInv'
  <2> USE DEF Goto, Finish, storeVars
  <2>1. CASE Get(r) \/ SkipInvalid(r)
    BY <2>1 DEF Get, SkipInvalid, TakeHead
  <2>2. CASE SkipProcessed(r) \/ CheckProcessed(r) \/ SkipInProgress(r)
    BY <2>2 DEF SkipProcessed, CheckProcessed, SkipInProgress
  <2>3. CASE Acquire(r)
    <3>1. item[r] \notin troubled => handed[item[r]] = 0
      BY <2>3 DEF Acquire, LockIsFree, FreshRead, Handling
    <3> QED
      BY <2>3, <3>1 DEF Acquire, SetProcessing
  <2>4. CASE Publish(r)
    <3>1. CASE Hand(item[r])
      BY <2>4, <3>1, HandingOnce DEF Publish
    <3>2. CASE UNCHANGED handed
      BY <2>4, <3>2 DEF Publish
    <3> QED
      BY <2>4, <3>1, <3>2 DEF Publish
  <2>5. CASE Mark(r)
    BY <2>5 DEF Mark, MarkProcessed
  <2>6. CASE RedisFails(r)
    BY <2>6 DEF RedisFails, Trouble, CommandMayLand, SetProcessing, MarkProcessed,
                ClearProcessing
  <2>7. CASE Clear(r)
    BY <2>7 DEF Clear, ClearProcessing
  <2>8. CASE ClearFails(r)
    BY <2>8 DEF ClearFails, Trouble, CommandMayLand, SetProcessing, MarkProcessed,
                ClearProcessing
  <2>9. CASE WorkerReturns(r)
    BY <2>9 DEF WorkerReturns
  <2> QED
    BY <1>5, <2>1, <2>2, <2>3, <2>4, <2>5, <2>6, <2>7, <2>8, <2>9 DEF WorkerStep
<1>6. ASSUME NEW r \in Replicas, StopStep(r) PROVE OneMessageInv'
  <2>1. CASE StopReturns(r) \/ StopRaises(r) \/ StopTimeoutAbsorbed(r)
    BY <2>1 DEF StopReturns, StopRaises, StopTimeoutAbsorbed, storeVars
  <2>2. CASE StopTimeout(r)
    BY <1>2, <2>2 DEF StopTimeout, Goto
  <2>3. CASE StopTimeoutOrphans(r)
    BY <2>3 DEF StopTimeoutOrphans, Goto, storeVars
  <2> QED
    BY <1>6, <2>1, <2>2, <2>3 DEF StopStep
<1>7. ASSUME NEW r \in Replicas, OrphanLands(r) PROVE OneMessageInv'
  BY <1>7, HandingOnce DEF OrphanLands
<1>8. ASSUME NEW e \in Events, ProcessingExpires(e) \/ ProcessedExpires(e)
      PROVE  OneMessageInv'
  BY <1>8 DEF ProcessingExpires, ProcessedExpires, ProcessingKeyExpires,
              ProcessedKeyExpires, Trouble
<1> QED
  BY <1>1, <1>3, <1>4, <1>5, <1>6, <1>7, <1>8 DEF Next

LEMMA OneMessageInvariant ==
    ASSUME SingleReplica PROVE Spec => [](TypeInv /\ OneMessageInv)
<1>1. Init => OneMessageInv
  BY ConstantsAssumption DEF Init, OneMessageInv
<1>2. TypeInv /\ FreshRead /\ OneMessageInv /\ [Next]_vars => OneMessageInv'
  BY OneMessageNext
<1>3. ProcInv => TypeInv
  BY DEF ProcInv
<1> QED
  BY <1>1, <1>2, <1>3, ProcInvariant, FreshReadInvariant, PTL DEF Spec

(* A bridge of one replica hands out a second message for an event only    *)
(* after Redis has raised an error for that event or dropped a key of it:  *)
(* across any number of deliveries, lost publishes, cancellations, late    *)
(* threads, crashes and restarts.                                          *)
THEOREM SingleReplicaSendsOnce ==
    ASSUME SingleReplica
    PROVE  Spec => []DuplicatesNeedTrouble
<1>1. TypeInv /\ OneMessageInv => DuplicatesNeedTrouble
  BY DEF TypeInv, TypeOK, OneMessageInv, DuplicatesNeedTrouble
<1> QED
  BY <1>1, OneMessageInvariant, PTL

-----------------------------------------------------------------------------
(* Where records come from *)

(* Only a worker at mark has its event recorded. *)
LEMMA WhoRecords ==
    ASSUME Next, NEW e \in processed' \ processed
    PROVE  \E r \in Replicas : pc[r] = "mark" /\ item[r] = e
<1>1. ASSUME NEW r \in Replicas, CommandMayLand(r)
      PROVE  pc[r] = "mark" /\ item[r] = e
  BY <1>1 DEF CommandMayLand, SetProcessing, MarkProcessed, ClearProcessing, storeVars
<1>2. ASSUME NEW r \in Replicas, Mark(r) PROVE pc[r] = "mark" /\ item[r] = e
  BY <1>2 DEF Mark, MarkProcessed
<1>3. \E r \in Replicas : CommandMayLand(r) \/ Mark(r)
  BY DEF Next, Boot, Crash, Interrupt, Stop, Enqueue, EnqueueRefused, WorkerStep, Get,
         SkipInvalid, TakeHead, SkipProcessed, CheckProcessed, SkipInProgress, Acquire,
         SetProcessing, Publish, RedisFails, Clear, ClearProcessing, ClearFails,
         WorkerReturns, StopStep, StopReturns, StopRaises, StopTimeout,
         StopTimeoutOrphans, StopTimeoutAbsorbed, OrphanLands, ProcessingExpires,
         ProcessingKeyExpires, ProcessedExpires, ProcessedKeyExpires, storeVars
<1> QED
  BY <1>1, <1>2, <1>3

(* A worker gets to mark by its publish(), and keeps its event there. *)
LEMMA WhoMarks ==
    ASSUME TypeOK, Next, NEW r \in Replicas, pc'[r] = "mark"
    PROVE  (pc[r] = "mark" /\ item'[r] = item[r]) \/ Publish(r)
<1>0. pc \in [Replicas -> PCs] /\ item \in [Replicas -> Events \cup {Nothing}]
  BY DEF TypeOK
<1>1. CASE \E e \in Events : ProcessingExpires(e) \/ ProcessedExpires(e)
  BY <1>1 DEF ProcessingExpires, ProcessedExpires
<1>2. ASSUME NEW s \in Replicas, s # r,
             Boot(s) \/ Crash(s) \/ Stop(s) \/ EnqueueRefused(s) \/ WorkerStep(s)
             \/ StopStep(s) \/ OrphanLands(s)
             \/ \E e \in Events \cup {NoId} : Enqueue(s, e)
      PROVE  pc[r] = "mark" /\ item'[r] = item[r]
  BY <1>2, OthersStay
<1>3. CASE \/ Boot(r) \/ Crash(r) \/ Stop(r) \/ EnqueueRefused(r) \/ OrphanLands(r)
           \/ \E e \in Events \cup {NoId} : Enqueue(r, e)
  BY <1>0, <1>3 DEF Boot, Crash, Stop, EnqueueRefused, OrphanLands, Enqueue, Goto
<1>4. CASE StopStep(r)
  BY <1>0, <1>4 DEF StopStep, StopReturns, StopRaises, StopTimeout, StopTimeoutOrphans,
                    StopTimeoutAbsorbed, Goto
<1>5. CASE WorkerStep(r)
  BY <1>0, <1>5 DEF WorkerStep, Get, SkipInvalid, TakeHead, SkipProcessed,
                    CheckProcessed, SkipInProgress, Acquire, Mark, RedisFails, Clear,
                    ClearFails, WorkerReturns, Finish, Goto
<1> QED
  BY <1>1, <1>2, <1>3, <1>4, <1>5 DEF Next

=============================================================================
