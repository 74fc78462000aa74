-------------------------- MODULE ProvisioningProofs --------------------------
(***************************************************************************)
(* Theorems about Provisioning, for any number of runs, jobs and faults,   *)
(* and their proofs.                                                       *)
(***************************************************************************)
EXTENDS Provisioning, SequenceTheorems, FiniteSetTheorems, TLAPS

-----------------------------------------------------------------------------
(* The plan *)

Names ==
    {"stripe.payments.inbound", "stripe.subscriptions.inbound", "stripe.invoices.inbound",
     "stripe.customers.inbound", "stripe.all.inbound", "stripe.errors.dmq",
     "stripe-bridge-acl", "stripe-bridge-client-profile"}

Levels ==
    {"stripe", "webhook", "v1", "payment_intent", "subscription", "invoice", "customer", ">"}

BrokerObjects ==
    [kind : {"queue", "subscription", "acl profile", "topic exception", "client profile"},
     of : Names, topic : Seq(Levels)]

(* A list of objects in which each object comes after its parents, none of *)
(* which is the topic exception.                                           *)
Ordered(s) ==
    /\ s \in Seq(BrokerObjects)
    /\ \A i \in 1..Len(s) : \A p \in Parents(s[i]) :
          p # TopicException /\ \E j \in 1..(i - 1) : s[j] = p

(* Two such lists, one after the other, are such a list. *)
LEMMA OrderedConcat ==
    ASSUME NEW s, NEW t, Ordered(s), Ordered(t)
    PROVE  Ordered(s \o t)
<1> DEFINE u == s \o t
<1> USE DEF Ordered
<1>1. /\ u \in Seq(BrokerObjects)
      /\ Len(u) = Len(s) + Len(t)
      /\ \A i \in 1..(Len(s) + Len(t)) : u[i] = IF i <= Len(s) THEN s[i] ELSE t[i - Len(s)]
  BY ConcatProperties
<1>2. Len(s) \in Nat /\ Len(t) \in Nat
  BY LenProperties
<1>3. ASSUME NEW i \in 1..Len(u), NEW p \in Parents(u[i])
      PROVE  p # TopicException /\ \E j \in 1..(i - 1) : u[j] = p
  <2> HIDE DEF u
  <2>1. CASE i <= Len(s)
    <3>1. i \in 1..Len(s) /\ u[i] = s[i]
      BY <1>1, <1>2, <2>1
    <3>2. p # TopicException
      BY <1>3, <3>1
    <3>3. PICK j \in 1..(i - 1) : s[j] = p
      BY <1>3, <3>1
    <3>4. u[j] = p
      BY <1>1, <1>2, <2>1, <3>3
    <3> QED
      BY <3>2, <3>4
  <2>2. CASE i > Len(s)
    <3>1. i - Len(s) \in 1..Len(t) /\ u[i] = t[i - Len(s)]
      BY <1>1, <1>2, <2>2
    <3>2. p # TopicException
      BY <1>3, <3>1
    <3>3. PICK j \in 1..((i - Len(s)) - 1) : t[j] = p
      BY <1>3, <3>1
    <3>4. j + Len(s) \in 1..(i - 1) /\ u[j + Len(s)] = p
      BY <1>1, <1>2, <2>2, <3>3
    <3> QED
      BY <3>2, <3>4
  <2> QED
    BY <1>1, <1>2, <2>1, <2>2
<1> QED
  BY <1>1, <1>3

(* The objects of one queue: the queue, and then its subscriptions. *)
PlanOf(d) ==
    <<Queue(d.name)>>
      \o [i \in DOMAIN d.subscriptions |-> Subscription(d.name, d.subscriptions[i])]

LEMMA OrderedPlanOf ==
    ASSUME NEW d \in [name : Names, subscriptions : Seq(Seq(Levels))]
    PROVE  Ordered(PlanOf(d))
<1> DEFINE subs == [i \in DOMAIN d.subscriptions |-> Subscription(d.name, d.subscriptions[i])]
           n == Len(d.subscriptions)
<1>0. /\ Queue(d.name) \in BrokerObjects
      /\ \A i \in DOMAIN d.subscriptions : Subscription(d.name, d.subscriptions[i]) \in BrokerObjects
  BY DEF Queue, Subscription, BrokerObjects
<1>1. n \in Nat /\ DOMAIN d.subscriptions = 1..n
  BY LenProperties
<1>2. subs \in Seq(BrokerObjects) /\ Len(subs) = n
  BY <1>0, <1>1
<1>3. /\ <<Queue(d.name)>> \in Seq(BrokerObjects)
      /\ Len(<<Queue(d.name)>>) = 1
      /\ <<Queue(d.name)>>[1] = Queue(d.name)
  BY <1>0
<1>4. /\ PlanOf(d) \in Seq(BrokerObjects)
      /\ Len(PlanOf(d)) = 1 + n
      /\ \A i \in 1..(1 + n) :
            PlanOf(d)[i] = IF i <= 1 THEN <<Queue(d.name)>>[i] ELSE subs[i - 1]
  <2> HIDE DEF n, subs
  <2> QED
    BY <1>2, <1>3, ConcatProperties DEF PlanOf, subs
<1>5. ASSUME NEW i \in 1..(1 + n), NEW p \in Parents(PlanOf(d)[i])
      PROVE  p # TopicException /\ \E j \in 1..(i - 1) : PlanOf(d)[j] = p
  <2> HIDE DEF n, subs
  <2>1. PlanOf(d)[1] = Queue(d.name)
    BY <1>1, <1>3, <1>4
  <2>2. i # 1
    <3>1. Parents(Queue(d.name)) = {}
      BY DEF Parents, Queue
    <3> QED
      BY <1>5, <2>1, <3>1
  <2>3. PlanOf(d)[i] = Subscription(d.name, d.subscriptions[i - 1])
    <3>1. i \in 1..(1 + n) /\ i - 1 \in 1..n /\ ~(i <= 1)
      BY <1>1, <2>2
    <3>2. PlanOf(d)[i] = subs[i - 1]
      BY <1>4, <3>1
    <3> QED
      BY <1>1, <3>1, <3>2 DEF subs
  <2>4. p = Queue(d.name)
    BY <1>5, <2>3 DEF Parents, Subscription
  <2>5. p # TopicException
    BY <2>4 DEF Queue, TopicException
  <2>6. 1 \in 1..(i - 1)
    BY <1>1, <2>2
  <2> QED
    BY <2>1, <2>4, <2>5, <2>6
<1> QED
  BY <1>1, <1>4, <1>5 DEF Ordered

LEMMA DefinitionsType ==
    /\ Len(QUEUE_DEFINITIONS) = 6
    /\ \A n \in 1..6 :
          QUEUE_DEFINITIONS[n] \in [name : Names, subscriptions : Seq(Seq(Levels))]
<1> DEFINE of(word) == Root \o <<word, ">">>
<1>1. ASSUME NEW word \in Levels PROVE <<of(word)>> \in Seq(Seq(Levels))
  <2>1. Root \in Seq(Levels) /\ <<word, ">">> \in Seq(Levels)
    BY DEF Root, Levels
  <2>2. of(word) \in Seq(Levels)
    BY <2>1, ConcatProperties
  <2> HIDE DEF of
  <2> QED
    BY <2>2
<1>2. <<Root \o <<">">>>> \in Seq(Seq(Levels))
  <2> DEFINE all == Root \o <<">">>
  <2>1. Root \in Seq(Levels) /\ <<">">> \in Seq(Levels)
    BY DEF Root, Levels
  <2>2. all \in Seq(Levels)
    BY <2>1, ConcatProperties
  <2> HIDE DEF all
  <2>3. <<all>> \in Seq(Seq(Levels))
    BY <2>2
  <2> QED
    BY <2>3 DEF all
<1>3. /\ <<of("payment_intent")>> \in Seq(Seq(Levels))
      /\ <<of("subscription")>> \in Seq(Seq(Levels))
      /\ <<of("invoice")>> \in Seq(Seq(Levels))
      /\ <<of("customer")>> \in Seq(Seq(Levels))
      /\ << >> \in Seq(Seq(Levels))
  <2> HIDE DEF of
  <2> QED
    BY <1>1 DEF Levels
<1> QED
  BY <1>2, <1>3 DEF QUEUE_DEFINITIONS, QueueDefinition, Names

(* The recursive function of QueuePlan has a value for each of the six     *)
(* queues: without it nothing would be known about the plan.               *)
LEMMA QueuePlanBuilt ==
    \E plan : /\ plan[0] = << >> /\ plan[6] = QueuePlan
              /\ \A n \in 1..6 : plan[n] = plan[n - 1] \o PlanOf(QUEUE_DEFINITIONS[n])
              /\ \A n \in 0..6 : Ordered(plan[n])
<1> DEFINE add(q, n) ==
               q \o <<Queue(QUEUE_DEFINITIONS[n].name)>>
                 \o [i \in DOMAIN QUEUE_DEFINITIONS[n].subscriptions |->
                        Subscription(QUEUE_DEFINITIONS[n].name,
                                     QUEUE_DEFINITIONS[n].subscriptions[i])]
           isPlan(f) == f = [n \in 0..6 |-> IF n = 0 THEN << >> ELSE add(f[n - 1], n)]
           plan == CHOOSE f : isPlan(f)
<1>1. \E f : isPlan(f)
  <2> DEFINE p1 == add(<< >>, 1)
             p2 == add(p1, 2)
             p3 == add(p2, 3)
             p4 == add(p3, 4)
             p5 == add(p4, 5)
             p6 == add(p5, 6)
             g == [n \in 0..6 |-> IF n = 0 THEN << >> ELSE IF n = 1 THEN p1
                                  ELSE IF n = 2 THEN p2 ELSE IF n = 3 THEN p3
                                  ELSE IF n = 4 THEN p4 ELSE IF n = 5 THEN p5 ELSE p6]
  <2>1. /\ p1 = add(<< >>, 1) /\ p2 = add(p1, 2) /\ p3 = add(p2, 3)
        /\ p4 = add(p3, 4) /\ p5 = add(p4, 5) /\ p6 = add(p5, 6)
    OBVIOUS
  <2> HIDE DEF p1, p2, p3, p4, p5, p6, add
  <2>2. ASSUME NEW n \in 0..6
        PROVE  g[n] = IF n = 0 THEN << >> ELSE add(g[n - 1], n)
    BY <2>1
  <2>3. isPlan(g)
    <3> HIDE DEF g
    <3>1. g = [n \in 0..6 |-> g[n]]
      BY DEF g
    <3> QED
      BY <2>2, <3>1
  <2> QED
    BY <2>3
<1>2. isPlan(plan)
  <2> HIDE DEF isPlan
  <2> QED
    BY <1>1
<1>3. QueuePlan = plan[6]
  BY DefinitionsType DEF QueuePlan
<1> HIDE DEF plan
<1>4. /\ plan[0] = << >>
      /\ \A n \in 1..6 : plan[n] = add(plan[n - 1], n)
  <2> HIDE DEF add
  <2> QED
    BY <1>2
<1>5. ASSUME NEW n \in 1..6, Ordered(plan[n - 1])
      PROVE  Ordered(plan[n]) /\ plan[n] = plan[n - 1] \o PlanOf(QUEUE_DEFINITIONS[n])
  <2> DEFINE d == QUEUE_DEFINITIONS[n]
             subs == [i \in DOMAIN d.subscriptions |-> Subscription(d.name, d.subscriptions[i])]
  <2>1. d \in [name : Names, subscriptions : Seq(Seq(Levels))]
    BY DefinitionsType
  <2>2. /\ plan[n - 1] \in Seq(BrokerObjects)
        /\ <<Queue(d.name)>> \in Seq(BrokerObjects)
        /\ subs \in Seq(BrokerObjects)
    <3>1. Queue(d.name) \in BrokerObjects
      BY <2>1 DEF Queue, BrokerObjects
    <3>2. ASSUME NEW i \in DOMAIN d.subscriptions
          PROVE  Subscription(d.name, d.subscriptions[i]) \in BrokerObjects
      BY <2>1 DEF Subscription, BrokerObjects
    <3>3. DOMAIN d.subscriptions = 1..Len(d.subscriptions) /\ Len(d.subscriptions) \in Nat
      BY <2>1, LenProperties
    <3> HIDE DEF d
    <3> QED
      BY <1>5, <3>1, <3>2, <3>3 DEF Ordered
  <2>3. plan[n] = plan[n - 1] \o PlanOf(d)
    <3>1. plan[n] = (plan[n - 1] \o <<Queue(d.name)>>) \o subs
      BY <1>4
    <3>2. PlanOf(d) = <<Queue(d.name)>> \o subs
      BY DEF PlanOf
    <3>3. (plan[n - 1] \o <<Queue(d.name)>>) \o subs
            = plan[n - 1] \o (<<Queue(d.name)>> \o subs)
      <4> DEFINE p == plan[n - 1]
                 q == <<Queue(d.name)>>
      <4> HIDE DEF d, subs, p, q
      <4>1. \A u, v, w \in Seq(BrokerObjects) : (u \o v) \o w = u \o (v \o w)
        BY ConcatAssociative
      <4>2. p \in Seq(BrokerObjects) /\ q \in Seq(BrokerObjects)
        BY <2>2 DEF p, q
      <4>3. (p \o q) \o subs = p \o (q \o subs)
        BY <2>2, <4>1, <4>2
      <4> QED
        BY <4>3 DEF p, q
    <3> HIDE DEF d, subs, add
    <3> QED
      BY <3>1, <3>2, <3>3
  <2>4. Ordered(plan[n])
    <3> HIDE DEF d
    <3> QED
      BY <1>5, <2>1, <2>3, OrderedPlanOf, OrderedConcat
  <2> QED
    BY <2>3, <2>4
<1>6. Ordered(plan[0])
  BY <1>4, EmptySeq DEF Ordered
<1> HIDE DEF add
<1>7. Ordered(plan[1]) /\ Ordered(plan[2]) /\ Ordered(plan[3])
  BY <1>5, <1>6
<1>8. Ordered(plan[4]) /\ Ordered(plan[5]) /\ Ordered(plan[6])
  BY <1>5, <1>7
<1>9. \A n \in 0..6 : Ordered(plan[n])
  BY <1>6, <1>7, <1>8
<1>10. ASSUME NEW n \in 1..6 PROVE plan[n] = plan[n - 1] \o PlanOf(QUEUE_DEFINITIONS[n])
  <2>1. n - 1 \in 0..6
    OBVIOUS
  <2> QED
    BY <1>5, <1>9, <2>1
<1> QED
  BY <1>3, <1>4, <1>9, <1>10

LEMMA QueuePlanOrdered == Ordered(QueuePlan)
  BY QueuePlanBuilt

LEMMA ProfilesType ==
    /\ AclProfile \in BrokerObjects
    /\ TopicException \in BrokerObjects
    /\ ClientProfile \in BrokerObjects
<1>1. << >> \in Seq(Levels) /\ Root \o <<">">> \in Seq(Levels)
  <2>1. Root \in Seq(Levels) /\ <<">">> \in Seq(Levels)
    BY DEF Root, Levels
  <2> QED
    BY <2>1, EmptySeq, ConcatProperties
<1> QED
  BY <1>1 DEF AclProfile, TopicException, ClientProfile, BrokerObjects, Names

(* The plan is not empty, and each of its objects comes after its parents. *)
LEMMA PlanOrdered == Ordered(Plan) /\ Len(Plan) \in Nat \ {0}
<1> DEFINE rest == << AclProfile, TopicException, ClientProfile >>
<1>1. /\ AclProfile \in BrokerObjects
      /\ TopicException \in BrokerObjects
      /\ ClientProfile \in BrokerObjects
  BY ProfilesType
<1>2. /\ Parents(AclProfile) = {}
      /\ Parents(TopicException) = {AclProfile}
      /\ Parents(ClientProfile) = {}
      /\ AclProfile # TopicException
  BY DEF Parents, AclProfile, TopicException, ClientProfile
<1>3. Ordered(rest) /\ Len(rest) = 3
  <2> HIDE DEF AclProfile, TopicException, ClientProfile
  <2>1. /\ rest \in Seq(BrokerObjects) /\ Len(rest) = 3
        /\ rest[1] = AclProfile /\ rest[2] = TopicException /\ rest[3] = ClientProfile
    BY <1>1
  <2>2. ASSUME NEW i \in 1..3, NEW p \in Parents(rest[i])
        PROVE  p # TopicException /\ \E j \in 1..(i - 1) : rest[j] = p
    <3>1. i = 2 /\ p = AclProfile
      BY <1>2, <2>1, <2>2
    <3> QED
      BY <1>2, <2>1, <3>1
  <2> QED
    BY <2>1, <2>2 DEF Ordered
<1> HIDE DEF rest
<1>4. Ordered(Plan)
  BY <1>3, QueuePlanOrdered, OrderedConcat DEF Plan, rest
<1>5. QueuePlan \in Seq(BrokerObjects) /\ rest \in Seq(BrokerObjects) /\ Len(QueuePlan) \in Nat
  BY <1>3, QueuePlanOrdered, LenProperties DEF Ordered
<1>6. Len(Plan) = Len(QueuePlan) + 3
  BY <1>3, <1>5, ConcatProperties DEF Plan, rest
<1> QED
  BY <1>4, <1>5, <1>6

(* What is in a list of objects. *)
In(s) == {s[i] : i \in 1..Len(s)}

LEMMA InConcat ==
    ASSUME NEW s \in Seq(BrokerObjects), NEW t \in Seq(BrokerObjects)
    PROVE  In(s \o t) = In(s) \cup In(t)
<1>0. Len(s) \in Nat /\ Len(t) \in Nat
  BY LenProperties
<1>1. /\ Len(s \o t) = Len(s) + Len(t)
      /\ \A i \in 1..(Len(s) + Len(t)) :
            (s \o t)[i] = IF i <= Len(s) THEN s[i] ELSE t[i - Len(s)]
  BY ConcatProperties
<1>2. ASSUME NEW i \in 1..(Len(s) + Len(t)) PROVE (s \o t)[i] \in In(s) \cup In(t)
  <2>1. IF i <= Len(s) THEN i \in 1..Len(s) ELSE i - Len(s) \in 1..Len(t)
    BY <1>0
  <2> QED
    BY <1>1, <2>1 DEF In
<1>3. ASSUME NEW i \in 1..Len(s) PROVE s[i] \in In(s \o t)
  <2>1. i \in 1..(Len(s) + Len(t)) /\ i <= Len(s)
    BY <1>0
  <2>2. (s \o t)[i] = s[i]
    BY <1>1, <2>1
  <2> QED
    BY <1>1, <2>1, <2>2 DEF In
<1>4. ASSUME NEW i \in 1..Len(t) PROVE t[i] \in In(s \o t)
  <2>1. /\ i + Len(s) \in 1..(Len(s) + Len(t)) /\ ~(i + Len(s) <= Len(s))
        /\ (i + Len(s)) - Len(s) = i
    BY <1>0
  <2>2. (s \o t)[i + Len(s)] = t[i]
    BY <1>1, <2>1
  <2> QED
    BY <1>1, <2>1, <2>2 DEF In
<1> QED
  BY <1>1, <1>2, <1>3, <1>4 DEF In

(* The objects of the definition of a queue, and of them all. *)
ObjectsOf(d) ==
    {Queue(d.name)}
      \cup {Subscription(d.name, d.subscriptions[i]) : i \in 1..Len(d.subscriptions)}

LEMMA InPlanOf ==
    ASSUME NEW d \in [name : Names, subscriptions : Seq(Seq(Levels))]
    PROVE  In(PlanOf(d)) = ObjectsOf(d) /\ PlanOf(d) \in Seq(BrokerObjects)
<1> DEFINE subs == [i \in DOMAIN d.subscriptions |-> Subscription(d.name, d.subscriptions[i])]
           head == <<Queue(d.name)>>
<1>0. /\ Queue(d.name) \in BrokerObjects
      /\ \A i \in DOMAIN d.subscriptions : Subscription(d.name, d.subscriptions[i]) \in BrokerObjects
  BY DEF Queue, Subscription, BrokerObjects
<1>1. Len(d.subscriptions) \in Nat /\ DOMAIN d.subscriptions = 1..Len(d.subscriptions)
  BY LenProperties
<1>2. subs \in Seq(BrokerObjects) /\ Len(subs) = Len(d.subscriptions)
  BY <1>0, <1>1
<1>3. head \in Seq(BrokerObjects) /\ Len(head) = 1 /\ head[1] = Queue(d.name)
  BY <1>0
<1>4. PlanOf(d) = head \o subs
  BY DEF PlanOf
<1>5. In(head) = {Queue(d.name)}
  <2> HIDE DEF head
  <2> QED
    BY <1>3 DEF In
<1>6. In(subs) = {Subscription(d.name, d.subscriptions[i]) : i \in 1..Len(d.subscriptions)}
  BY <1>1, <1>2 DEF In
<1> HIDE DEF head, subs
<1>7. head \o subs \in Seq(BrokerObjects)
  BY <1>2, <1>3, ConcatProperties
<1>8. In(head \o subs) = In(head) \cup In(subs)
  BY <1>2, <1>3, InConcat
<1> QED
  BY <1>4, <1>5, <1>6, <1>7, <1>8 DEF ObjectsOf

(* The plan leaves no queue and no subscription out, and adds none. *)
LEMMA PlannedObjects ==
    Objects = (UNION {ObjectsOf(QUEUE_DEFINITIONS[n]) : n \in 1..6})
                \cup {AclProfile, TopicException, ClientProfile}
<1>1. PICK plan : /\ plan[0] = << >> /\ plan[6] = QueuePlan
                  /\ \A n \in 1..6 : plan[n] = plan[n - 1] \o PlanOf(QUEUE_DEFINITIONS[n])
                  /\ \A n \in 0..6 : Ordered(plan[n])
  BY QueuePlanBuilt
<1>2. \A n \in 0..6 : plan[n] \in Seq(BrokerObjects)
  BY <1>1 DEF Ordered
<1>3. ASSUME NEW n \in 1..6
      PROVE  In(plan[n]) = In(plan[n - 1]) \cup ObjectsOf(QUEUE_DEFINITIONS[n])
  <2>1. n - 1 \in 0..6
    OBVIOUS
  <2> QED
    BY <1>1, <1>2, <2>1, DefinitionsType, InPlanOf, InConcat
<1>4. In(plan[0]) = {}
  BY <1>1 DEF In
<1>5. In(plan[6]) = UNION {ObjectsOf(QUEUE_DEFINITIONS[n]) : n \in 1..6}
  <2> DEFINE of(n) == ObjectsOf(QUEUE_DEFINITIONS[n])
  <2>1. /\ In(plan[1]) = of(1) /\ In(plan[2]) = In(plan[1]) \cup of(2)
        /\ In(plan[3]) = In(plan[2]) \cup of(3) /\ In(plan[4]) = In(plan[3]) \cup of(4)
        /\ In(plan[5]) = In(plan[4]) \cup of(5) /\ In(plan[6]) = In(plan[5]) \cup of(6)
    BY <1>3, <1>4
  <2> HIDE DEF of
  <2>2. In(plan[6]) = of(1) \cup of(2) \cup of(3) \cup of(4) \cup of(5) \cup of(6)
    BY <2>1
  <2>3. UNION {of(n) : n \in 1..6}
          = of(1) \cup of(2) \cup of(3) \cup of(4) \cup of(5) \cup of(6)
    OBVIOUS
  <2> QED
    BY <2>2, <2>3 DEF of
<1> DEFINE rest == << AclProfile, TopicException, ClientProfile >>
<1>6. rest \in Seq(BrokerObjects) /\ In(rest) = {AclProfile, TopicException, ClientProfile}
  <2>1. /\ AclProfile \in BrokerObjects /\ TopicException \in BrokerObjects
        /\ ClientProfile \in BrokerObjects
    BY ProfilesType
  <2> HIDE DEF AclProfile, TopicException, ClientProfile
  <2>2. /\ rest \in Seq(BrokerObjects) /\ Len(rest) = 3
        /\ rest[1] = AclProfile /\ rest[2] = TopicException /\ rest[3] = ClientProfile
    BY <2>1
  <2> HIDE DEF rest
  <2> QED
    BY <2>2 DEF In
<1> HIDE DEF rest
<1>7. In(Plan) = In(QueuePlan) \cup In(rest)
  <2>1. QueuePlan \in Seq(BrokerObjects) /\ Plan = QueuePlan \o rest
    BY QueuePlanOrdered DEF Ordered, Plan, rest
  <2> QED
    BY <1>6, <2>1, InConcat
<1>8. Objects = In(Plan)
  BY PlanOrdered DEF Objects, Steps, In
<1> QED
  BY <1>1, <1>5, <1>6, <1>7, <1>8

-----------------------------------------------------------------------------
(* The invariant *)

(* The run r has come past object i of the plan. *)
Past(r, i) ==
    phase[r] = "succeeded" \/ (phase[r] \in {"get", "post"} /\ i < step[r])

(* What a run has come past is there, save for the topic exception. *)
PastIsThere ==
    \A r \in Runs, i \in Steps :
        Past(r, i) => Plan[i] \in objects \/ Plan[i] = TopicException

(* Every step of a run, the start of one that nobody restarts included. *)
AnyRunStep(r) == RunStep(r) \/ Launch(r) \/ Killed(r)

LEMMA StepsType == Len(Plan) \in Nat \ {0} /\ Steps = 1..Len(Plan)
  BY PlanOrdered DEF Steps

LEMMA ParentsBefore ==
    ASSUME NEW i \in Steps, NEW p \in Parents(Plan[i])
    PROVE  p # TopicException /\ \E j \in Steps : j < i /\ Plan[j] = p
<1> HIDE DEF Plan, Parents
<1>1. PICK j \in 1..(i - 1) : Plan[j] = p
  BY StepsType, PlanOrdered DEF Ordered
<1>2. p # TopicException
  BY StepsType, PlanOrdered DEF Ordered
<1>3. j \in Steps /\ j < i
  BY StepsType
<1> QED
  BY <1>1, <1>2, <1>3

(* A run only asks for an object whose parents it has come past. *)
LEMMA ParentsAreThere ==
    ASSUME TypeOK, PastIsThere, NEW r \in Runs, phase[r] \in {"get", "post"}
    PROVE  Parents(At(r)) \subseteq objects
<1> SUFFICES ASSUME NEW p \in Parents(At(r)) PROVE p \in objects
  OBVIOUS
<1>1. step[r] \in Steps
  BY DEF TypeOK
<1>2. PICK j \in Steps : j < step[r] /\ Plan[j] = p
  BY <1>1, ParentsBefore DEF At
<1>3. p # TopicException
  BY <1>1, ParentsBefore DEF At
<1> QED
  BY <1>2, <1>3 DEF PastIsThere, Past

(* Every object of the plan stays in it, whatever a request does. *)
LEMMA AnyRunStepTyped ==
    ASSUME TypeOK, NEW r \in Runs, AnyRunStep(r) PROVE TypeOK'
<1>1. step[r] \in Steps /\ At(r) \in Objects
  BY DEF TypeOK, At, Objects
<1>2. step[r] < Len(Plan) => step[r] + 1 \in Steps
  BY <1>1, StepsType
<1>3. 1 \in Steps
  BY StepsType
<1>4. Fault => faults' \in 0..MaxFaults
  <2>1. faults \in 0..MaxFaults /\ MaxFaults \in Nat
    BY ProvisioningAssumption DEF TypeOK
  <2> QED
    BY <2>1 DEF Fault
<1>11. Fail(r) => /\ phase' \in [Runs -> Phases]
                  /\ failures' \in [Runs -> Nat]
  <2>1. phase \in [Runs -> Phases] /\ failures \in [Runs -> Nat]
    BY DEF TypeOK
  <2>2. failures[r] + 1 \in Nat
    BY <2>1
  <2> QED
    BY <2>1, <2>2 DEF Fail, Phases
<1> USE DEF TypeOK, Phases
<1>5. CASE Start(r) \/ Launch(r)
  BY <1>3, <1>5 DEF Start, Launch
<1>6. CASE GetFound(r) \/ GetNotFound(r)
  BY <1>2, <1>6 DEF GetFound, GetNotFound, Proceed
<1>7. CASE GetFails(r) \/ TopicCheckFails(r)
  BY <1>2, <1>4, <1>7, <1>11 DEF GetFails, TopicCheckFails, Proceed
<1>8. CASE Post(r)
  BY <1>1, <1>2, <1>8 DEF Post, Proceed
<1>9. CASE PostRefused(r)
  BY <1>9, <1>11 DEF PostRefused
<1>10. CASE PostFails(r) \/ Killed(r)
  BY <1>1, <1>4, <1>10, <1>11 DEF PostFails, Killed
<1> QED
  BY <1>5, <1>6, <1>7, <1>8, <1>9, <1>10 DEF AnyRunStep, RunStep

LEMMA AnyRunStepPast ==
    ASSUME TypeOK, PastIsThere, NEW r \in Runs, AnyRunStep(r) PROVE PastIsThere'
<1>1. /\ phase \in [Runs -> Phases] /\ step \in [Runs -> Steps]
      /\ phase' \in [Runs -> Phases] /\ step' \in [Runs -> Steps]
  BY AnyRunStepTyped DEF TypeOK
<1>2. step[r] \in Int /\ \A i \in Steps : i \in Int /\ i <= Len(Plan)
  <2>1. \A i \in Steps : i \in Int /\ i <= Len(Plan)
    BY StepsType
  <2> QED
    BY <1>1, <2>1
<1>3. \A s \in Runs \ {r} : phase'[s] = phase[s] /\ step'[s] = step[s]
  BY <1>1 DEF AnyRunStep, RunStep, Start, Launch, GetFound, GetNotFound, GetFails,
         TopicCheckFails, Post, PostRefused, PostFails, Killed, Proceed, Fail
<1>4. objects \subseteq objects'
  BY DEF AnyRunStep, RunStep, Start, Launch, GetFound, GetNotFound, GetFails,
         TopicCheckFails, Post, PostRefused, PostFails, Killed
(* A run that proceeds comes past the object it is at. *)
<1>5. ASSUME Proceed(r), phase[r] \in {"get", "post"}, NEW i \in Steps
      PROVE  Past(r, i)' => Past(r, i) \/ i = step[r]
  <2>1. CASE step[r] < Len(Plan)
    <3>1. phase'[r] = "get" /\ step'[r] = step[r] + 1
      BY <1>1, <1>5, <2>1 DEF Proceed
    <3>2. i < step[r] + 1 => i < step[r] \/ i = step[r]
      BY <1>2
    <3> QED
      BY <1>5, <3>1, <3>2 DEF Past
  <2>2. CASE ~(step[r] < Len(Plan))
    <3>1. i < step[r] \/ i = step[r]
      BY <1>2, <2>2
    <3> QED
      BY <1>5, <3>1 DEF Past
  <2> QED
    BY <2>1, <2>2
(* The run r comes past nothing, or past the object it is at. *)
<1>6. ASSUME NEW i \in Steps, Past(r, i)'
      PROVE  Past(r, i) \/ (i = step[r] /\ (At(r) \in objects' \/ At(r) = TopicException))
  <2>1. CASE Start(r) \/ Launch(r)
    <3>1. phase'[r] = "get" /\ step'[r] = 1
      BY <1>1, <2>1, StepsType DEF Start, Launch
    <3>2. ~(i < 1)
      BY StepsType
    <3> QED
      BY <1>6, <3>1, <3>2 DEF Past
  <2>2. CASE GetFound(r)
    BY <1>5, <1>6, <2>2 DEF GetFound
  <2>3. CASE GetNotFound(r)
    BY <1>1, <1>6, <2>3 DEF GetNotFound, Past
  <2>4. CASE GetFails(r) \/ PostRefused(r) \/ PostFails(r) \/ Killed(r)
    <3>1. phase'[r] = "failed"
      BY <1>1, <2>4 DEF GetFails, PostRefused, PostFails, Killed, Fail
    <3> QED
      BY <1>6, <3>1 DEF Past
  <2>5. CASE TopicCheckFails(r)
    <3>1. CASE Proceed(r)
      BY <1>5, <1>6, <2>5, <3>1 DEF TopicCheckFails
    <3>2. CASE Fail(r)
      <4>1. phase'[r] = "failed"
        BY <1>1, <3>2 DEF Fail
      <4> QED
        BY <1>6, <4>1 DEF Past
    <3> QED
      BY <2>5, <3>1, <3>2 DEF TopicCheckFails
  <2>6. CASE Post(r)
    BY <1>5, <1>6, <2>6 DEF Post
  <2> QED
    BY <2>1, <2>2, <2>3, <2>4, <2>5, <2>6 DEF AnyRunStep, RunStep
<1>7. ASSUME NEW s \in Runs, NEW i \in Steps, Past(s, i)'
      PROVE  Plan[i] \in objects' \/ Plan[i] = TopicException
  <2>1. CASE s = r
    BY <1>4, <1>6, <1>7, <2>1 DEF PastIsThere, At
  <2>2. CASE s # r
    BY <1>3, <1>4, <1>7, <2>2 DEF PastIsThere, Past
  <2> QED
    BY <2>1, <2>2
<1> QED
  BY <1>7 DEF PastIsThere

LEMMA AnyRunStepParents ==
    ASSUME TypeOK, PastIsThere, ParentsComeFirst, NEW r \in Runs, AnyRunStep(r)
    PROVE  ParentsComeFirst'
<1>1. CASE PostRefused(r)
  <2>0. phase[r] = "post"
    BY <1>1 DEF PostRefused
  <2>1. Parents(At(r)) \subseteq objects
    BY <2>0, ParentsAreThere
  <2>2. refused' = refused \cup {"exists"}
    BY <1>1, <2>1 DEF PostRefused
  <2> QED
    BY <2>2 DEF ParentsComeFirst
<1>2. CASE ~PostRefused(r)
  <2>1. UNCHANGED refused
    BY <1>2 DEF AnyRunStep, RunStep, Start, Launch, GetFound, GetNotFound, GetFails,
                TopicCheckFails, Post, PostFails, Killed
  <2> QED
    BY <2>1 DEF ParentsComeFirst
<1> QED
  BY <1>1, <1>2

(* A run that is about to lose a race: what it posts is there by now. *)
Losing(r) == IF phase[r] = "post" /\ At(r) \in objects THEN 1 ELSE 0

(* A failure of a run is due to a fault, or to an object that somebody     *)
(* else created between its GET and its POST; the object is there ever     *)
(* after, so it accounts for one failure of each run only.                 *)
LossesAreExplained ==
    \A r \in Runs : failures[r] + Losing(r) <= faults + Cardinality(objects)

LEMMA ObjectsFinite ==
    ASSUME NEW S \in SUBSET Objects
    PROVE  /\ IsFiniteSet(S) /\ Cardinality(S) \in Nat
           /\ Cardinality(Objects) \in Nat /\ Cardinality(S) <= Cardinality(Objects)
<1> DEFINE plan == [i \in Steps |-> Plan[i]]
<1>1. IsFiniteSet(Steps)
  BY StepsType, FS_Interval
<1>2. plan \in Surjection(Steps, Objects)
  BY DEF Surjection, Objects
<1>3. IsFiniteSet(Objects)
  BY <1>1, <1>2, FS_Surjection
<1> QED
  BY <1>3, FS_Subset, FS_CardinalityType

LEMMA AnyRunStepExplained ==
    ASSUME TypeOK, PastIsThere, LossesAreExplained, NEW r \in Runs, AnyRunStep(r)
    PROVE  LossesAreExplained'
<1>0. TypeOK'
  BY AnyRunStepTyped
<1>1. /\ phase \in [Runs -> Phases] /\ step \in [Runs -> Steps]
      /\ failures \in [Runs -> Nat] /\ faults \in Int
      /\ failures' \in [Runs -> Nat] /\ faults' \in Int
  <2>1. \A n \in 0..MaxFaults : n \in Int
    OBVIOUS
  <2> QED
    BY <1>0, <2>1 DEF TypeOK
<1>2. /\ IsFiniteSet(objects) /\ Cardinality(objects) \in Nat
      /\ Cardinality(objects') \in Nat
  <2>1. objects \in SUBSET Objects /\ objects' \in SUBSET Objects
    BY <1>0 DEF TypeOK
  <2> QED
    BY <2>1, ObjectsFinite
<1>3. \A s \in Runs : Losing(s) \in {0, 1} /\ Losing(s)' \in {0, 1}
  BY DEF Losing
<1>4. \A s \in Runs \ {r} : phase'[s] = phase[s] /\ step'[s] = step[s] /\ failures'[s] = failures[s]
  BY <1>1 DEF AnyRunStep, RunStep, Start, Launch, GetFound, GetNotFound, GetFails,
         TopicCheckFails, Post, PostRefused, PostFails, Killed, Proceed, Fail
(* A run with nothing to lose can only begin to lose when an object is     *)
(* created.                                                                *)
<1>5. \/ objects' = objects
      \/ /\ At(r) \notin objects /\ objects' = objects \cup {At(r)}
         /\ Cardinality(objects') = Cardinality(objects) + 1
  <2>1. objects' = objects \/ objects' = objects \cup {At(r)}
    BY DEF AnyRunStep, RunStep, Start, Launch, GetFound, GetNotFound, GetFails,
           TopicCheckFails, Post, PostRefused, PostFails, Killed
  <2>2. At(r) \notin objects =>
           Cardinality(objects \cup {At(r)}) = Cardinality(objects) + 1
    BY <1>2, FS_AddElement
  <2> QED
    BY <2>1, <2>2
<1>6. Cardinality(objects') >= Cardinality(objects)
  BY <1>2, <1>5
<1>7. ASSUME NEW s \in Runs \ {r}
      PROVE  Losing(s)' + Cardinality(objects) <= Losing(s) + Cardinality(objects')
  <2>1. CASE objects' = objects
    <3>1. Losing(s)' = Losing(s)
      BY <1>4, <2>1 DEF Losing, At
    <3> QED
      BY <1>2, <1>3, <2>1, <3>1
  <2>2. CASE Cardinality(objects') = Cardinality(objects) + 1
    <3>1. Losing(s) \in {0, 1} /\ Losing(s)' \in {0, 1}
      BY <1>3
    <3> QED
      BY <1>2, <2>2, <3>1
  <2> QED
    BY <1>5, <2>1, <2>2
<1>8. faults' = faults \/ faults' = faults + 1
  BY DEF AnyRunStep, RunStep, Start, Launch, GetFound, GetNotFound, GetFails,
         TopicCheckFails, Post, PostRefused, PostFails, Killed, Fault
(* What the run itself does. *)
<1>9. failures'[r] + Losing(r)' + faults <= failures[r] + Losing(r) + faults'
  <2> DEFINE Fewer == failures'[r] + Losing(r)' <= failures[r] + Losing(r)
  <2>1. CASE phase'[r] # "post" /\ failures'[r] = failures[r]
    <3>1. Losing(r)' = 0
      BY <2>1 DEF Losing
    <3>2. Losing(r) \in {0, 1} /\ failures[r] \in Nat
      BY <1>1, <1>3
    <3> QED
      BY <1>1, <1>8, <2>1, <3>1, <3>2
  <2>2. CASE GetNotFound(r)
    <3>1. Losing(r)' = 0 /\ failures'[r] = failures[r]
      BY <2>2 DEF GetNotFound, Losing, At
    <3>2. Losing(r) \in {0, 1} /\ failures[r] \in Nat
      BY <1>1, <1>3
    <3> QED
      BY <1>1, <1>8, <3>1, <3>2
  <2>3. CASE Fault /\ Fail(r)
    <3>1. /\ phase'[r] = "failed" /\ failures'[r] = failures[r] + 1
          /\ faults' = faults + 1
      BY <1>1, <2>3 DEF Fault, Fail
    <3>2. Losing(r)' = 0 /\ Losing(r) \in {0, 1} /\ failures[r] \in Nat
      BY <1>1, <1>3, <3>1 DEF Losing
    <3> QED
      BY <1>1, <3>1, <3>2
  <2>4. CASE PostRefused(r)
    <3>1. phase[r] = "post"
      BY <2>4 DEF PostRefused
    <3>2. Parents(At(r)) \subseteq objects
      BY <3>1, ParentsAreThere
    <3>3. At(r) \in objects
      BY <2>4, <3>2 DEF PostRefused
    <3>4. /\ phase'[r] = "failed" /\ failures'[r] = failures[r] + 1
          /\ faults' = faults
      BY <1>1, <2>4 DEF PostRefused, Fail
    <3>5. Losing(r)' = 0 /\ Losing(r) = 1 /\ failures[r] \in Nat
      BY <1>1, <3>1, <3>3, <3>4 DEF Losing
    <3> QED
      BY <1>1, <3>4, <3>5
  <2>5. CASE Start(r) \/ Launch(r) \/ GetFound(r) \/ Post(r)
    <3>1. phase'[r] # "post" /\ failures'[r] = failures[r]
      BY <1>1, <2>5 DEF Start, Launch, GetFound, Post, Proceed
    <3> QED
      BY <2>1, <3>1
  <2>6. CASE TopicCheckFails(r)
    <3>1. CASE Proceed(r) /\ UNCHANGED failures
      <4>1. phase'[r] # "post" /\ failures'[r] = failures[r]
        BY <1>1, <3>1 DEF Proceed
      <4> QED
        BY <2>1, <4>1
    <3>2. CASE Fail(r)
      BY <2>3, <2>6, <3>2 DEF TopicCheckFails
    <3> QED
      BY <2>6, <3>1, <3>2 DEF TopicCheckFails
  <2>7. CASE GetFails(r) \/ PostFails(r) \/ Killed(r)
    BY <2>3, <2>7 DEF GetFails, PostFails, Killed
  <2> QED
    BY <2>2, <2>4, <2>5, <2>6, <2>7 DEF AnyRunStep, RunStep
<1>10. ASSUME NEW s \in Runs
       PROVE  failures'[s] + Losing(s)' <= faults' + Cardinality(objects')
  <2>1. /\ failures[s] + Losing(s) <= faults + Cardinality(objects)
        /\ failures[s] \in Nat /\ failures'[s] \in Nat
        /\ Losing(s) \in {0, 1} /\ Losing(s)' \in {0, 1}
    BY <1>1, <1>3 DEF LossesAreExplained
  <2>2. CASE s = r
    BY <1>1, <1>2, <1>6, <1>9, <2>1, <2>2
  <2>3. CASE s # r
    <3>1. /\ Losing(s)' + Cardinality(objects) <= Losing(s) + Cardinality(objects')
          /\ failures'[s] = failures[s]
      BY <1>4, <1>7, <2>3
    <3> QED
      BY <1>1, <1>2, <1>8, <2>1, <3>1
  <2> QED
    BY <2>2, <2>3
<1> QED
  BY <1>10 DEF LossesAreExplained

LEMMA CountsBounded ==
    ASSUME TypeOK
    PROVE  /\ Cardinality(objects) \in Nat /\ Cardinality(Objects) \in Nat
           /\ Cardinality(objects) <= Cardinality(Objects)
           /\ faults \in Int /\ faults <= MaxFaults
<1>1. objects \in SUBSET Objects /\ faults \in 0..MaxFaults
  BY DEF TypeOK
<1>2. \A n \in 0..MaxFaults : n \in Int /\ n <= MaxFaults
  BY ProvisioningAssumption
<1> QED
  BY <1>1, <1>2, ObjectsFinite

ProvisioningInv == TypeOK /\ PastIsThere /\ ParentsComeFirst /\ LossesAreExplained

LEMMA ProvisioningInvInit ==
    ASSUME Init PROVE ProvisioningInv
<1>1. TypeOK
  <2>1. objects \subseteq Objects
    BY StepsType DEF Init, LeftBy, Objects
  <2> QED
    BY <2>1, StepsType, ProvisioningAssumption DEF Init, TypeOK, Phases
<1>2. PastIsThere /\ ParentsComeFirst
  BY DEF Init, PastIsThere, Past, ParentsComeFirst
<1>3. LossesAreExplained
  <2>1. Cardinality(objects) \in Nat
    BY <1>1, ObjectsFinite DEF TypeOK
  <2>2. faults = 0 /\ \A r \in Runs : failures[r] = 0 /\ Losing(r) = 0
    BY DEF Init, Losing
  <2> QED
    BY <2>1, <2>2 DEF LossesAreExplained
<1> QED
  BY <1>1, <1>2, <1>3 DEF ProvisioningInv

LEMMA ProvisioningInvStep ==
    ASSUME ProvisioningInv, [\E r \in Runs : AnyRunStep(r)]_vars
    PROVE  ProvisioningInv'
<1>1. CASE UNCHANGED vars
  BY <1>1 DEF vars, ProvisioningInv, TypeOK, PastIsThere, Past, ParentsComeFirst,
              LossesAreExplained, Losing, At
<1>2. ASSUME NEW r \in Runs, AnyRunStep(r) PROVE ProvisioningInv'
  BY <1>2, AnyRunStepTyped, AnyRunStepPast, AnyRunStepParents, AnyRunStepExplained
     DEF ProvisioningInv
<1> QED
  BY <1>1, <1>2

LEMMA ProvisioningInvariant == Spec => []ProvisioningInv
<1>1. Init => ProvisioningInv
  BY ProvisioningInvInit
<1>2. ProvisioningInv /\ [Next]_vars => ProvisioningInv'
  BY ProvisioningInvStep DEF Next, AnyRunStep
<1> QED
  BY <1>1, <1>2, PTL DEF Spec

(* A run that is past the end of the plan has left everything in place but *)
(* perhaps the topic exception.                                            *)
LEMMA PastTheEnd ==
    ASSUME ProvisioningInv PROVE SuccessMeansProvisioned
  BY DEF ProvisioningInv, PastIsThere, Past, SuccessMeansProvisioned, Objects

LEMMA FailuresFollow ==
    ASSUME ProvisioningInv PROVE FailuresAreExplained
<1>1. Cardinality(objects) \in Nat /\ faults \in Int /\ failures \in [Runs -> Nat]
  BY CountsBounded DEF ProvisioningInv, TypeOK
<1>2. \A r \in Runs : Losing(r) \in {0, 1}
  BY DEF Losing
<1>3. ASSUME NEW r \in Runs PROVE failures[r] <= faults + Cardinality(objects)
  <2>1. failures[r] + Losing(r) <= faults + Cardinality(objects)
    BY DEF ProvisioningInv, LossesAreExplained
  <2>2. failures[r] \in Nat /\ Losing(r) \in {0, 1}
    BY <1>1, <1>2
  <2> QED
    BY <1>1, <2>1, <2>2
<1> QED
  BY <1>3 DEF FailuresAreExplained

-----------------------------------------------------------------------------
(* Theorems *)

(* Every variable keeps its type: no run walks past the end of the plan,   *)
(* and the broker has only what the plan names.                            *)
THEOREM TypeCorrect == Spec => []TypeOK
<1>1. ProvisioningInv => TypeOK
  BY DEF ProvisioningInv
<1> QED
  BY <1>1, ProvisioningInvariant, PTL

(* A run that exits with status 0 leaves every queue, subscription and     *)
(* profile in place, beside any number of other runs, failures and kills.  *)
THEOREM SuccessProvisions == Spec => []SuccessMeansProvisioned
<1>1. ProvisioningInv => SuccessMeansProvisioned
  BY PastTheEnd
<1> QED
  BY <1>1, ProvisioningInvariant, PTL

(* No object is sent to the broker before the one it belongs to is there,  *)
(* for as many concurrent, failing and restarted runs as one likes.        *)
THEOREM ParentsFirst == Spec => []ParentsComeFirst
<1>1. ProvisioningInv => ParentsComeFirst
  BY DEF ProvisioningInv
<1> QED
  BY <1>1, ProvisioningInvariant, PTL

(* A run fails once for each fault, and once for each object that another  *)
(* run creates between its GET and its POST, and no more often.            *)
THEOREM EachFailureExplained == Spec => []FailuresAreExplained
<1>1. ProvisioningInv => FailuresAreExplained
  BY FailuresFollow
<1> QED
  BY <1>1, ProvisioningInvariant, PTL

(* A job that may be started again as often as there are faults and        *)
(* objects is never given up, however many runs it races with.             *)
THEOREM EnoughRetries ==
    ASSUME BackoffLimit >= MaxFaults + Cardinality(Objects)
    PROVE  Spec => [](\A r \in Runs : ~GivenUp(r))
<1>1. ASSUME ProvisioningInv PROVE \A r \in Runs : ~GivenUp(r)
  <2>1. /\ Cardinality(objects) \in Nat /\ Cardinality(Objects) \in Nat
        /\ Cardinality(objects) <= Cardinality(Objects)
        /\ faults \in Int /\ faults <= MaxFaults /\ failures \in [Runs -> Nat]
        /\ BackoffLimit \in Nat /\ MaxFaults \in Nat
    BY <1>1, CountsBounded, ProvisioningAssumption DEF ProvisioningInv, TypeOK
  <2>2. ASSUME NEW r \in Runs PROVE ~(failures[r] > BackoffLimit)
    <3>1. failures[r] \in Nat /\ failures[r] <= faults + Cardinality(objects)
      BY <1>1, <2>1, FailuresFollow DEF FailuresAreExplained
    <3> QED
      BY <2>1, <3>1
  <2> QED
    BY <2>2 DEF GivenUp
<1>2. ProvisioningInv => \A r \in Runs : ~GivenUp(r)
  BY <1>1
<1> QED
  BY <1>2, ProvisioningInvariant, PTL

=============================================================================
