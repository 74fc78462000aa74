-------------------------- MODULE EventRouterProofs --------------------------
(***************************************************************************)
(* What the event router and the subscriptions of the queues do, for every *)
(* event type and every account: facts the proofs about routing and about  *)
(* the validation script share.                                            *)
(***************************************************************************)
EXTENDS EventRouter, SequenceTheorems, TLAPS

-----------------------------------------------------------------------------
(* The mapping *)

(* An event type has one entry, and a topic of its own. *)
LEMMA OneEntry ==
    ASSUME NEW a \in Mapping, NEW b \in Mapping,
           a.type = b.type \/ a.segments = b.segments
    PROVE  a = b
<1>1. a.type = b.type => a = b
  BY DEF Mapping, Entry
<1>2. a.segments = b.segments => a = b
  BY DEF Mapping, Entry
<1> QED
  BY <1>1, <1>2

(* The first words of topics, below the root, and the words after them. *)
Categories ==
    {"payment_intent", "subscription", "invoice", "charge", "customer", "checkout",
     "payout", "error"}

Actions ==
    {"succeeded", "payment_failed", "created", "updated", "deleted", "payment_succeeded",
     "finalized", "failed", "dispute", "session", "completed", "unroutable"}

RouterWords == Categories \cup Actions \cup {"stripe", "webhook", "v1"}

LEMMA MapEventTypeIs ==
    /\ \A a \in Mapping : MapEventType(a.type) = a.segments
    /\ \A type : type \notin Supported => MapEventType(type) = <<"error", "unroutable">>
<1>1. ASSUME NEW a \in Mapping PROVE MapEventType(a.type) = a.segments
  <2> DEFINE b == CHOOSE entry \in Mapping : entry.type = a.type
  <2>1. b \in Mapping /\ b.type = a.type
    OBVIOUS
  <2>2. a.type \in Supported
    BY DEF Supported
  <2> HIDE DEF b
  <2>3. b = a
    BY <2>1, OneEntry
  <2> QED
    BY <2>2, <2>3 DEF MapEventType, b
<1> QED
  BY <1>1 DEF MapEventType

(* Pairs and triples of words are sequences of words. *)
LEMMA PairsAndTriples ==
    ASSUME NEW A, NEW B, NEW S, A \subseteq S, B \subseteq S,
           NEW s \in (A \X B) \cup (A \X B \X B)
    PROVE  s \in Seq(S) /\ Len(s) \in {2, 3} /\ s[1] \in A
<1>1. CASE s \in A \X B
  <2>1. PICK a \in A, b \in B : s = <<a, b>>
    BY <1>1
  <2>2. <<a, b>> \in Seq(S) /\ Len(<<a, b>>) = 2 /\ <<a, b>>[1] = a
    OBVIOUS
  <2> QED
    BY <2>1, <2>2
<1>2. CASE s \in A \X B \X B
  <2>1. PICK a \in A, b \in B, c \in B : s = <<a, b, c>>
    BY <1>2
  <2>2. <<a, b, c>> \in Seq(S) /\ Len(<<a, b, c>>) = 3 /\ <<a, b, c>>[1] = a
    OBVIOUS
  <2> QED
    BY <2>1, <2>2
<1> QED
  BY <1>1, <1>2

(* The middle of a topic: two or three words, the first of them a category. *)
LEMMA SegmentsType ==
    ASSUME NEW type
    PROVE  /\ MapEventType(type) \in Seq(RouterWords)
           /\ Len(MapEventType(type)) \in {2, 3}
           /\ MapEventType(type)[1] \in Categories
<1> DEFINE Middles == (Categories \X Actions) \cup (Categories \X Actions \X Actions)
<1>1. ASSUME NEW s \in Middles
      PROVE  s \in Seq(RouterWords) /\ Len(s) \in {2, 3} /\ s[1] \in Categories
  BY PairsAndTriples DEF RouterWords
<1>2. ASSUME NEW a \in Mapping PROVE a.segments \in Middles
  BY DEF Mapping, Entry, Categories, Actions
<1>3. <<"error", "unroutable">> \in Middles
  BY DEF Categories, Actions
<1> HIDE DEF Middles
<1>4. CASE type \in Supported
  <2>1. PICK a \in Mapping : a.type = type
    BY <1>4 DEF Supported
  <2>2. MapEventType(type) = a.segments
    BY <2>1, MapEventTypeIs
  <2> QED
    BY <1>1, <1>2, <2>2
<1>5. CASE type \notin Supported
  BY <1>1, <1>3, <1>5, MapEventTypeIs
<1> QED
  BY <1>4, <1>5

(* A topic is the root, the words of the event, and the account. *)
IsTopic(topic, words, account) ==
    /\ topic \in Seq(RouterWords \cup {account})
    /\ Len(topic) = Len(words) + 4
    /\ \A i \in 1..3 : topic[i] = Root[i]
    /\ \A i \in 1..Len(words) : topic[i + 3] = words[i]
    /\ topic[Len(words) + 4] = account

LEMMA GetTopicIs ==
    ASSUME NEW type, NEW account
    PROVE  IsTopic(GetTopic(type, account), MapEventType(type), account)
<1> DEFINE S == RouterWords \cup {account}
           words == MapEventType(type)
           front == Root \o words
           topic == GetTopic(type, account)
<1>1. Root \in Seq(S) /\ Len(Root) = 3
  BY DEF Root, RouterWords
<1>2. words \in Seq(S) /\ Len(words) \in {2, 3}
  BY SegmentsType
<1>3. <<account>> \in Seq(S) /\ Len(<<account>>) = 1 /\ <<account>>[1] = account
  OBVIOUS
<1> HIDE DEF S, words
<1>4. /\ front \in Seq(S) /\ Len(front) = Len(words) + 3
      /\ \A i \in 1..(Len(words) + 3) : front[i] = IF i <= 3 THEN Root[i] ELSE words[i - 3]
  <2>1. /\ front \in Seq(S) /\ Len(front) = Len(Root) + Len(words)
        /\ \A i \in 1..(Len(Root) + Len(words)) :
              front[i] = IF i <= Len(Root) THEN Root[i] ELSE words[i - Len(Root)]
    <3> HIDE DEF topic
    <3> QED
      BY <1>1, <1>2, ConcatProperties
  <2>2. Len(Root) + Len(words) = Len(words) + 3
    BY <1>1, <1>2
  <2> HIDE DEF front
  <2> QED
    BY <1>1, <2>1, <2>2
<1>5. topic = front \o <<account>>
  BY DEF GetTopic, words
<1> HIDE DEF front, topic
<1>6. /\ topic \in Seq(S) /\ Len(topic) = Len(words) + 4
      /\ \A i \in 1..(Len(words) + 4) :
            topic[i] = IF i <= Len(words) + 3 THEN front[i]
                       ELSE <<account>>[i - (Len(words) + 3)]
  BY <1>2, <1>3, <1>4, <1>5, ConcatProperties
<1>7. \A i \in 1..3 : topic[i] = Root[i]
  <2> SUFFICES ASSUME NEW i \in 1..3 PROVE topic[i] = Root[i]
    OBVIOUS
  <2>1. i \in 1..(Len(words) + 4) /\ i \in 1..(Len(words) + 3) /\ i <= Len(words) + 3 /\ i <= 3
    BY <1>2
  <2> QED
    BY <1>4, <1>6, <2>1
<1>8. \A i \in 1..Len(words) : topic[i + 3] = words[i]
  <2> SUFFICES ASSUME NEW i \in 1..Len(words) PROVE topic[i + 3] = words[i]
    OBVIOUS
  <2>1. /\ i + 3 \in 1..(Len(words) + 4) /\ i + 3 \in 1..(Len(words) + 3)
        /\ i + 3 <= Len(words) + 3 /\ ~(i + 3 <= 3) /\ (i + 3) - 3 = i
    BY <1>2
  <2> QED
    BY <1>4, <1>6, <2>1
<1>9. topic[Len(words) + 4] = account
  <2>1. /\ Len(words) + 4 \in 1..(Len(words) + 4) /\ ~(Len(words) + 4 <= Len(words) + 3)
        /\ (Len(words) + 4) - (Len(words) + 3) = 1
    BY <1>2
  <2> QED
    BY <1>3, <1>6, <2>1
<1> QED
  BY <1>6, <1>7, <1>8, <1>9 DEF IsTopic, S, words, topic

(* No two event types share a topic, save those that are not supported. *)
LEMMA TopicsDiffer ==
    ASSUME NEW t \in Supported, NEW u, t # u, NEW account
    PROVE  GetTopic(t, account) # GetTopic(u, account)
<1> SUFFICES ASSUME GetTopic(t, account) = GetTopic(u, account) PROVE FALSE
  OBVIOUS
<1> DEFINE s == MapEventType(t)
           w == MapEventType(u)
<1>1. s \in Seq(RouterWords) /\ w \in Seq(RouterWords)
  BY SegmentsType
<1>2. Len(s) \in {2, 3} /\ Len(w) \in {2, 3}
  BY SegmentsType
<1>3. Len(s) + 4 = Len(w) + 4
  BY GetTopicIs DEF IsTopic
<1>4. Len(s) = Len(w)
  BY <1>2, <1>3
<1>5. \A i \in 1..Len(s) : s[i] = w[i]
  <2> SUFFICES ASSUME NEW i \in 1..Len(s) PROVE s[i] = w[i]
    OBVIOUS
  <2>1. ASSUME NEW v, NEW j \in 1..Len(MapEventType(v))
        PROVE  GetTopic(v, account)[j + 3] = MapEventType(v)[j]
    <3>1. IsTopic(GetTopic(v, account), MapEventType(v), account)
      BY GetTopicIs
    <3> QED
      BY <3>1 DEF IsTopic
  <2>2. i \in 1..Len(w)
    BY <1>4
  <2>3. GetTopic(t, account)[i + 3] = s[i] /\ GetTopic(u, account)[i + 3] = w[i]
    BY <2>1, <2>2
  <2> QED
    BY <2>3
<1>6. s = w
  <2> HIDE DEF s, w
  <2> QED
    BY <1>1, <1>4, <1>5, SeqEqual
<1>7. PICK a \in Mapping : a.type = t
  BY DEF Supported
<1>8. s = a.segments
  BY <1>7, MapEventTypeIs
<1>9. CASE u \in Supported
  <2>1. PICK b \in Mapping : b.type = u
    BY <1>9 DEF Supported
  <2>2. w = b.segments
    BY <2>1, MapEventTypeIs
  <2> QED
    BY <1>6, <1>7, <1>8, <2>1, <2>2, OneEntry
<1>10. CASE u \notin Supported
  <2>1. a.segments # <<"error", "unroutable">>
    BY DEF Mapping, Entry
  <2> QED
    BY <1>6, <1>8, <1>10, <2>1, MapEventTypeIs
<1> QED
  BY <1>9, <1>10

-----------------------------------------------------------------------------
(* The queues *)

(* The subscription of a queue to one category of events. *)
CategoryTopic(word) == Root \o <<word, ">">>

AllTopic == Root \o <<">">>

LEMMA SubscriptionTopics ==
    ASSUME NEW word
    PROVE  /\ Len(CategoryTopic(word)) = 5 /\ CategoryTopic(word)[5] = ">"
           /\ CategoryTopic(word)[4] = word
           /\ \A i \in 1..3 : CategoryTopic(word)[i] = Root[i]
           /\ Len(AllTopic) = 4 /\ AllTopic[4] = ">"
           /\ \A i \in 1..3 : AllTopic[i] = Root[i]
<1> DEFINE S == {"stripe", "webhook", "v1", ">", word}
           pair == <<word, ">">>
           one == <<">">>
<1>1. Root \in Seq(S) /\ Len(Root) = 3
  BY DEF Root
<1>2. pair \in Seq(S) /\ Len(pair) = 2 /\ pair[1] = word /\ pair[2] = ">"
  OBVIOUS
<1>3. one \in Seq(S) /\ Len(one) = 1 /\ one[1] = ">"
  OBVIOUS
<1>4. CategoryTopic(word) = Root \o pair /\ AllTopic = Root \o one
  BY DEF CategoryTopic, AllTopic
<1> HIDE DEF S, pair, one
<1>5. /\ Len(CategoryTopic(word)) = Len(Root) + Len(pair)
      /\ \A i \in 1..(Len(Root) + Len(pair)) :
            CategoryTopic(word)[i] = IF i <= Len(Root) THEN Root[i] ELSE pair[i - Len(Root)]
  <2>1. /\ Len(Root \o pair) = Len(Root) + Len(pair)
        /\ \A i \in 1..(Len(Root) + Len(pair)) :
              (Root \o pair)[i] = IF i <= Len(Root) THEN Root[i] ELSE pair[i - Len(Root)]
    BY <1>1, <1>2, ConcatProperties
  <2> QED
    BY <1>4, <2>1
<1>6. /\ Len(AllTopic) = Len(Root) + Len(one)
      /\ \A i \in 1..(Len(Root) + Len(one)) :
            AllTopic[i] = IF i <= Len(Root) THEN Root[i] ELSE one[i - Len(Root)]
  BY <1>1, <1>3, <1>4, ConcatProperties
<1>7. Len(Root) + Len(pair) = 5 /\ Len(Root) + Len(one) = 4
  BY <1>1, <1>2, <1>3
<1>8. CategoryTopic(word)[5] = pair[2] /\ CategoryTopic(word)[4] = pair[1]
  BY <1>1, <1>5, <1>7
<1>9. AllTopic[4] = one[1]
  BY <1>1, <1>6, <1>7
<1>10. \A i \in 1..3 : CategoryTopic(word)[i] = Root[i] /\ AllTopic[i] = Root[i]
  BY <1>1, <1>5, <1>6, <1>7
<1> QED
  BY <1>2, <1>3, <1>5, <1>6, <1>7, <1>8, <1>9, <1>10

(* A queue of one category gets the events of that category, by the first  *)
(* word below the root, and the audit queue gets every event.              *)
LEMMA WhatMatches ==
    ASSUME NEW topic, NEW words, NEW account, IsTopic(topic, words, account),
           Len(words) \in {2, 3}
    PROVE  /\ \A word : Matches(CategoryTopic(word), topic) <=> words[1] = word
           /\ Matches(AllTopic, topic)
<1>1. /\ Len(topic) >= 5 /\ topic[4] = words[1]
      /\ \A i \in 1..3 : topic[i] = Root[i]
  <2>1. ASSUME NEW n \in {2, 3} PROVE 1 \in 1..n /\ 1 + 3 = 4 /\ n + 4 >= 5
    OBVIOUS
  <2>2. 1 \in 1..Len(words) /\ 1 + 3 = 4 /\ Len(words) + 4 >= 5
    BY <2>1, Zenon
  <2>3. Len(topic) = Len(words) + 4 /\ topic[1 + 3] = words[1]
    BY <2>2 DEF IsTopic
  <2>4. \A i \in 1..3 : topic[i] = Root[i]
    BY DEF IsTopic
  <2> QED
    BY <2>2, <2>3, <2>4, Zenon
<1>2. ASSUME NEW word PROVE Matches(CategoryTopic(word), topic) <=> words[1] = word
  <2>1. Matches(CategoryTopic(word), topic)
          <=> Len(topic) >= 5 /\ \A i \in 1..4 : topic[i] = CategoryTopic(word)[i]
    <3>1. Len(CategoryTopic(word)) = 5 /\ CategoryTopic(word)[5] = ">" /\ 5 - 1 = 4
      BY SubscriptionTopics
    <3> QED
      BY <3>1 DEF Matches
  <2>2. \A i \in 1..4 : i \in 1..3 \/ i = 4
    OBVIOUS
  <2>3. Len(topic) >= 5 /\ 4 \in 1..4
    BY ONLY <1>1
  <2>4. /\ CategoryTopic(word)[4] = word
        /\ \A i \in 1..3 : CategoryTopic(word)[i] = Root[i]
    BY SubscriptionTopics
  <2> QED
    BY <1>1, <2>1, <2>2, <2>3, <2>4
<1>3. Matches(AllTopic, topic)
  <2>1. Matches(AllTopic, topic)
          <=> Len(topic) >= 4 /\ \A i \in 1..3 : topic[i] = AllTopic[i]
    <3>1. Len(AllTopic) = 4 /\ AllTopic[4] = ">" /\ 4 - 1 = 3
      BY SubscriptionTopics
    <3> QED
      BY <3>1 DEF Matches
  <2>2. Len(topic) >= 4
    <3>1. Len(topic) \in Int
      BY LenProperties DEF IsTopic
    <3> QED
      BY ONLY <1>1, <3>1
  <2>3. \A i \in 1..3 : AllTopic[i] = Root[i]
    BY SubscriptionTopics
  <2> QED
    BY <1>1, <2>1, <2>2, <2>3
<1> QED
  BY <1>2, <1>3

(* The queue for one category of events, where there is one. *)
CategoryQueue(word) ==
    CASE word = "payment_intent" -> {"stripe.payments.inbound"}
      [] word = "subscription" -> {"stripe.subscriptions.inbound"}
      [] word = "invoice" -> {"stripe.invoices.inbound"}
      [] word = "customer" -> {"stripe.customers.inbound"}
      [] OTHER -> {}

LEMMA QueuesOfTopic ==
    ASSUME NEW type, NEW account
    PROVE  QueuesOf(GetTopic(type, account))
             = {"stripe.all.inbound"} \cup CategoryQueue(MapEventType(type)[1])
<1> DEFINE topic == GetTopic(type, account)
           word == MapEventType(type)[1]
           Gets(j) == \E k \in DOMAIN QUEUE_DEFINITIONS[j].subscriptions :
                         Matches(QUEUE_DEFINITIONS[j].subscriptions[k], topic)
<1>1. (\A w : Matches(CategoryTopic(w), topic) <=> word = w) /\ Matches(AllTopic, topic)
  BY GetTopicIs, SegmentsType, WhatMatches
<1> HIDE DEF topic, word
<1>2. QUEUE_DEFINITIONS =
        << QueueDefinition("stripe.payments.inbound", <<CategoryTopic("payment_intent")>>),
           QueueDefinition("stripe.subscriptions.inbound", <<CategoryTopic("subscription")>>),
           QueueDefinition("stripe.invoices.inbound", <<CategoryTopic("invoice")>>),
           QueueDefinition("stripe.customers.inbound", <<CategoryTopic("customer")>>),
           QueueDefinition("stripe.all.inbound", <<AllTopic>>),
           QueueDefinition("stripe.errors.dmq", << >>) >>
  BY DEF QUEUE_DEFINITIONS, CategoryTopic, AllTopic
<1>3. DOMAIN QUEUE_DEFINITIONS = 1..6
  BY <1>2
<1>4. /\ QUEUE_DEFINITIONS[1].name = "stripe.payments.inbound"
      /\ QUEUE_DEFINITIONS[2].name = "stripe.subscriptions.inbound"
      /\ QUEUE_DEFINITIONS[3].name = "stripe.invoices.inbound"
      /\ QUEUE_DEFINITIONS[4].name = "stripe.customers.inbound"
      /\ QUEUE_DEFINITIONS[5].name = "stripe.all.inbound"
  BY <1>2 DEF QueueDefinition
<1>5. /\ Gets(1) <=> word = "payment_intent"
      /\ Gets(2) <=> word = "subscription"
      /\ Gets(3) <=> word = "invoice"
      /\ Gets(4) <=> word = "customer"
      /\ Gets(5)
      /\ ~Gets(6)
  <2>1. ASSUME NEW s PROVE DOMAIN <<s>> = {1} /\ <<s>>[1] = s
    OBVIOUS
  <2>2. /\ QUEUE_DEFINITIONS[1].subscriptions = <<CategoryTopic("payment_intent")>>
        /\ QUEUE_DEFINITIONS[2].subscriptions = <<CategoryTopic("subscription")>>
        /\ QUEUE_DEFINITIONS[3].subscriptions = <<CategoryTopic("invoice")>>
        /\ QUEUE_DEFINITIONS[4].subscriptions = <<CategoryTopic("customer")>>
        /\ QUEUE_DEFINITIONS[5].subscriptions = <<AllTopic>>
        /\ QUEUE_DEFINITIONS[6].subscriptions = << >>
    BY <1>2 DEF QueueDefinition
  <2>3. DOMAIN << >> = {}
    OBVIOUS
  <2> QED
    BY <1>1, <2>1, <2>2, <2>3
<1> HIDE DEF Gets
<1>6. QueuesOf(topic) = {QUEUE_DEFINITIONS[i].name : i \in {j \in 1..6 : Gets(j)}}
  BY <1>3 DEF QueuesOf, Gets
<1>7. \A j : j \in 1..6 <=> j \in {1, 2, 3, 4, 5, 6}
  OBVIOUS
<1> QED
  BY <1>4, <1>5, <1>6, <1>7 DEF CategoryQueue, topic, word

=============================================================================
