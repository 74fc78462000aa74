---------------------------- MODULE RoutingProofs ----------------------------
(***************************************************************************)
(* Theorems about Routing, for event types of any words and any length,    *)
(* any accounts and any payloads, and their proofs.                        *)
(***************************************************************************)
EXTENDS Routing, EventRouterProofs

-----------------------------------------------------------------------------
(* The handlers *)

LEMMA TypesAreSequences ==
    ASSUME NEW t \in Types PROVE t \in Seq(Words) /\ Len(t) \in Nat \ {0}
<1>1. PICK n \in 1..MaxWords : t \in [1..n -> Words]
  BY DEF Types
<1>2. n \in Nat \ {0}
  BY RoutingAssumption
<1> QED
  BY <1>1, <1>2

LEMMA StartsWithIs ==
    ASSUME NEW S, NEW t \in Seq(S), NEW a, NEW b
    PROVE  /\ StartsWith(t, <<a>>) <=> Len(t) > 1 /\ t[1] = a
           /\ StartsWith(t, <<a, b>>) <=> Len(t) > 2 /\ t[1] = a /\ t[2] = b
<1> DEFINE T == S \cup {a, b}
<1>0. Len(t) \in Nat /\ t \in Seq(T)
  BY LenProperties
<1>1. ASSUME NEW n \in {1, 2}, Len(t) > n
      PROVE  /\ SubSeq(t, 1, n) \in Seq(T) /\ Len(SubSeq(t, 1, n)) = n
             /\ \A i \in 1..n : SubSeq(t, 1, n)[i] = t[i]
  <2>1. 1 \in 1..(Len(t) + 1) /\ n \in 0..Len(t) /\ n \in 0..(Len(t) + 1)
    BY <1>0, <1>1
  <2>2. \A i \in 1..n : i \in 1..(n - 1 + 1) /\ 1 + i - 1 = i
    OBVIOUS
  <2>3. /\ SubSeq(t, 1, n) \in Seq(T)
        /\ Len(SubSeq(t, 1, n)) = IF 1 <= n THEN n - 1 + 1 ELSE 0
        /\ \A i \in 1..(n - 1 + 1) : SubSeq(t, 1, n)[i] = t[1 + i - 1]
    BY <1>0, <2>1, SubSeqProperties
  <2> QED
    BY <2>2, <2>3
<1>2. /\ <<a>> \in Seq(T) /\ Len(<<a>>) = 1 /\ <<a>>[1] = a
      /\ <<a, b>> \in Seq(T) /\ Len(<<a, b>>) = 2 /\ <<a, b>>[1] = a /\ <<a, b>>[2] = b
  OBVIOUS
<1> HIDE DEF T
<1>3. StartsWith(t, <<a>>) <=> Len(t) > 1 /\ t[1] = a
  <2> DEFINE s == SubSeq(t, 1, 1)
  <2>1. ASSUME Len(t) > 1 PROVE s = <<a>> <=> t[1] = a
    <3>1. s \in Seq(T) /\ Len(s) = 1 /\ s[1] = t[1]
      BY <1>1, <2>1
    <3> HIDE DEF s
    <3>2. t[1] = a => \A i \in 1..Len(s) : s[i] = <<a>>[i]
      BY <1>2, <3>1
    <3> QED
      BY <1>2, <3>1, <3>2, SeqEqual
  <2> QED
    BY <1>2, <2>1 DEF StartsWith
<1>4. StartsWith(t, <<a, b>>) <=> Len(t) > 2 /\ t[1] = a /\ t[2] = b
  <2> DEFINE s == SubSeq(t, 1, 2)
  <2>1. ASSUME Len(t) > 2 PROVE s = <<a, b>> <=> t[1] = a /\ t[2] = b
    <3>1. s \in Seq(T) /\ Len(s) = 2 /\ s[1] = t[1] /\ s[2] = t[2]
      BY <1>1, <2>1
    <3> HIDE DEF s
    <3>2. t[1] = a /\ t[2] = b => \A i \in 1..Len(s) : s[i] = <<a, b>>[i]
      BY <1>2, <3>1
    <3> QED
      BY <1>2, <3>1, <3>2, SeqEqual
  <2> QED
    BY <1>2, <2>1 DEF StartsWith
<1> QED
  BY <1>3, <1>4

(* The rows that match, each by its words. *)
LEMMA RowsAre ==
    ASSUME NEW S, NEW t \in Seq(S)
    PROVE  /\ MatchingRows(t) \subseteq 1..8
           /\ 1 \in MatchingRows(t) <=> Len(t) > 1 /\ t[1] = "payment_intent"
           /\ 2 \in MatchingRows(t) <=> Len(t) > 2 /\ t[1] = "customer" /\ t[2] = "subscription"
           /\ 3 \in MatchingRows(t) <=> Len(t) > 1 /\ t[1] = "invoice"
           /\ 4 \in MatchingRows(t) <=> Len(t) > 2 /\ t[1] = "charge" /\ t[2] = "dispute"
           /\ 5 \in MatchingRows(t) <=> Len(t) > 1 /\ t[1] = "charge"
           /\ 6 \in MatchingRows(t) <=> Len(t) > 1 /\ t[1] = "customer"
           /\ 7 \in MatchingRows(t) <=> Len(t) > 2 /\ t[1] = "checkout" /\ t[2] = "session"
           /\ 8 \in MatchingRows(t) <=> Len(t) > 1 /\ t[1] = "payout"
<1>1. DOMAIN HandlerMap = 1..8
  BY DEF HandlerMap
<1>2. /\ HandlerMap[1].prefix = <<"payment_intent">>
      /\ HandlerMap[2].prefix = <<"customer", "subscription">>
      /\ HandlerMap[3].prefix = <<"invoice">>
      /\ HandlerMap[4].prefix = <<"charge", "dispute">>
      /\ HandlerMap[5].prefix = <<"charge">>
      /\ HandlerMap[6].prefix = <<"customer">>
      /\ HandlerMap[7].prefix = <<"checkout", "session">>
      /\ HandlerMap[8].prefix = <<"payout">>
  BY DEF HandlerMap, Row
<1>3. /\ 1 \in 1..8 /\ 2 \in 1..8 /\ 3 \in 1..8 /\ 4 \in 1..8
      /\ 5 \in 1..8 /\ 6 \in 1..8 /\ 7 \in 1..8 /\ 8 \in 1..8
  OBVIOUS
<1>4. \A i \in 1..8 : i \in MatchingRows(t) <=> StartsWith(t, HandlerMap[i].prefix)
  BY <1>1 DEF MatchingRows
<1>5. MatchingRows(t) \subseteq 1..8
  BY <1>1 DEF MatchingRows
<1>6. /\ 1 \in MatchingRows(t) <=> StartsWith(t, <<"payment_intent">>)
      /\ 2 \in MatchingRows(t) <=> StartsWith(t, <<"customer", "subscription">>)
      /\ 3 \in MatchingRows(t) <=> StartsWith(t, <<"invoice">>)
      /\ 4 \in MatchingRows(t) <=> StartsWith(t, <<"charge", "dispute">>)
      /\ 5 \in MatchingRows(t) <=> StartsWith(t, <<"charge">>)
      /\ 6 \in MatchingRows(t) <=> StartsWith(t, <<"customer">>)
      /\ 7 \in MatchingRows(t) <=> StartsWith(t, <<"checkout", "session">>)
      /\ 8 \in MatchingRows(t) <=> StartsWith(t, <<"payout">>)
  BY <1>2, <1>3, <1>4
<1>7. ASSUME NEW a PROVE StartsWith(t, <<a>>) <=> Len(t) > 1 /\ t[1] = a
  BY StartsWithIs
<1>8. ASSUME NEW a, NEW b
      PROVE  StartsWith(t, <<a, b>>) <=> Len(t) > 2 /\ t[1] = a /\ t[2] = b
  BY StartsWithIs
<1> QED
  BY <1>5, <1>6, <1>7, <1>8

(* The first row that matches decides. *)
LEMMA ResolveHandlerIs ==
    ASSUME NEW S, NEW t \in Seq(S)
    PROVE  /\ \A i \in MatchingRows(t) :
                 (\A j \in MatchingRows(t) : i <= j) => ResolveHandler(t) = HandlerMap[i].handler
           /\ MatchingRows(t) # {} =>
                 \E i \in MatchingRows(t) : \A j \in MatchingRows(t) : i <= j
           /\ MatchingRows(t) = {} => ResolveHandler(t) = "BaseEventHandler"
<1>1. MatchingRows(t) \subseteq 1..8
  BY RowsAre
<1>2. ASSUME NEW i \in MatchingRows(t), \A j \in MatchingRows(t) : i <= j
      PROVE  ResolveHandler(t) = HandlerMap[i].handler
  <2> DEFINE k == CHOOSE n \in MatchingRows(t) : \A j \in MatchingRows(t) : n <= j
  <2>1. k \in MatchingRows(t) /\ \A j \in MatchingRows(t) : k <= j
    BY <1>2
  <2> HIDE DEF k
  <2>2. k <= i /\ i <= k /\ k \in Int /\ i \in Int
    BY <1>1, <1>2, <2>1
  <2>3. k = i
    BY <2>2
  <2> QED
    BY <1>2, <2>3 DEF ResolveHandler, k
<1>3. ASSUME MatchingRows(t) # {}
      PROVE  \E i \in MatchingRows(t) : \A j \in MatchingRows(t) : i <= j
  <2> DEFINE M == MatchingRows(t)
  <2>1. \A i \in M : i \in {1, 2, 3, 4, 5, 6, 7, 8}
    BY <1>1
  <2> HIDE DEF M
  <2>2. M # {} => \E i \in M : \A j \in M : i <= j
    BY <2>1
  <2> QED
    BY <1>3, <2>2 DEF M
<1> QED
  BY <1>2, <1>3 DEF ResolveHandler

(* Which handler that is, by the words of the type. *)
LEMMA HandlerByWords ==
    ASSUME NEW S, NEW t \in Seq(S)
    PROVE  ResolveHandler(t) =
             CASE Len(t) > 1 /\ t[1] = "payment_intent" -> "PaymentIntentHandler"
               [] Len(t) > 2 /\ t[1] = "customer" /\ t[2] = "subscription"
                     -> "SubscriptionHandler"
               [] Len(t) > 1 /\ t[1] = "invoice" -> "InvoiceHandler"
               [] Len(t) > 2 /\ t[1] = "charge" /\ t[2] = "dispute" -> "DisputeHandler"
               [] Len(t) > 1 /\ t[1] = "charge" /\ ~(Len(t) > 2 /\ t[2] = "dispute")
                     -> "ChargeHandler"
               [] Len(t) > 1 /\ t[1] = "customer" /\ ~(Len(t) > 2 /\ t[2] = "subscription")
                     -> "CustomerHandler"
               [] Len(t) > 2 /\ t[1] = "checkout" /\ t[2] = "session"
                     -> "CheckoutSessionHandler"
               [] Len(t) > 1 /\ t[1] = "payout" -> "PayoutHandler"
               [] OTHER -> "BaseEventHandler"
<1> DEFINE M == MatchingRows(t)
<1>1. /\ M \subseteq 1..8
      /\ 1 \in M <=> Len(t) > 1 /\ t[1] = "payment_intent"
      /\ 2 \in M <=> Len(t) > 2 /\ t[1] = "customer" /\ t[2] = "subscription"
      /\ 3 \in M <=> Len(t) > 1 /\ t[1] = "invoice"
      /\ 4 \in M <=> Len(t) > 2 /\ t[1] = "charge" /\ t[2] = "dispute"
      /\ 5 \in M <=> Len(t) > 1 /\ t[1] = "charge"
      /\ 6 \in M <=> Len(t) > 1 /\ t[1] = "customer"
      /\ 7 \in M <=> Len(t) > 2 /\ t[1] = "checkout" /\ t[2] = "session"
      /\ 8 \in M <=> Len(t) > 1 /\ t[1] = "payout"
  BY RowsAre
<1>2. /\ HandlerMap[1].handler = "PaymentIntentHandler"
      /\ HandlerMap[2].handler = "SubscriptionHandler"
      /\ HandlerMap[3].handler = "InvoiceHandler"
      /\ HandlerMap[4].handler = "DisputeHandler"
      /\ HandlerMap[5].handler = "ChargeHandler"
      /\ HandlerMap[6].handler = "CustomerHandler"
      /\ HandlerMap[7].handler = "CheckoutSessionHandler"
      /\ HandlerMap[8].handler = "PayoutHandler"
  BY DEF HandlerMap, Row
<1>3. /\ \A i \in M : (\A j \in M : i <= j) => ResolveHandler(t) = HandlerMap[i].handler
      /\ M = {} => ResolveHandler(t) = "BaseEventHandler"
  BY ResolveHandlerIs
<1>4. Len(t) \in Nat
  BY LenProperties
<1> HIDE DEF M
<1>5. \A j \in M : j \in {1, 2, 3, 4, 5, 6, 7, 8}
  BY <1>1
<1>6. ASSUME NEW n \in M, \A j \in {1, 2, 3, 4, 5, 6, 7, 8} : j < n => j \notin M
      PROVE  ResolveHandler(t) = HandlerMap[n].handler
  BY <1>3, <1>5, <1>6
<1>7. /\ 1 \in M => ResolveHandler(t) = "PaymentIntentHandler"
      /\ 2 \in M /\ 1 \notin M => ResolveHandler(t) = "SubscriptionHandler"
      /\ 3 \in M /\ 1 \notin M /\ 2 \notin M => ResolveHandler(t) = "InvoiceHandler"
      /\ 4 \in M /\ 1 \notin M /\ 2 \notin M /\ 3 \notin M => ResolveHandler(t) = "DisputeHandler"
      /\ 5 \in M /\ 1 \notin M /\ 2 \notin M /\ 3 \notin M /\ 4 \notin M
            => ResolveHandler(t) = "ChargeHandler"
      /\ 6 \in M /\ 1 \notin M /\ 2 \notin M /\ 3 \notin M /\ 4 \notin M /\ 5 \notin M
            => ResolveHandler(t) = "CustomerHandler"
      /\ 7 \in M /\ 1 \notin M /\ 2 \notin M /\ 3 \notin M /\ 4 \notin M /\ 5 \notin M /\ 6 \notin M
            => ResolveHandler(t) = "CheckoutSessionHandler"
      /\ 8 \in M /\ 1 \notin M /\ 2 \notin M /\ 3 \notin M /\ 4 \notin M /\ 5 \notin M /\ 6 \notin M
            /\ 7 \notin M => ResolveHandler(t) = "PayoutHandler"
  BY <1>2, <1>6
<1>8. (\A n \in {1, 2, 3, 4, 5, 6, 7, 8} : n \notin M) => ResolveHandler(t) = "BaseEventHandler"
  BY <1>3, <1>5
<1> QED
  BY <1>1, <1>7, <1>8

(* For each entry of the mapping, the category its topic starts with and   *)
(* its handler mean the same queue.                                        *)
LEMMA CategoryAndHandler ==
    ASSUME NEW a \in Mapping
    PROVE  CategoryQueue(a.segments[1]) = QueueFor(ResolveHandler(a.type))
<1> DEFINE Word == Categories \cup Actions
<1>1. a.type \in (Word \X Word) \cup (Word \X Word \X Word)
  BY DEF Mapping, Entry, Categories, Actions
<1>2. a.type \in Seq(Word)
  BY <1>1, PairsAndTriples
<1>3. /\ Len(a.type) \in {2, 3}
      /\ a.segments[1] = "payment_intent" <=> a.type[1] = "payment_intent"
      /\ a.segments[1] = "subscription"
            <=> Len(a.type) = 3 /\ a.type[1] = "customer" /\ a.type[2] = "subscription"
      /\ a.segments[1] = "invoice" <=> a.type[1] = "invoice"
      /\ a.segments[1] = "customer"
            <=> a.type[1] = "customer" /\ ~(Len(a.type) = 3 /\ a.type[2] = "subscription")
  BY DEF Mapping, Entry
<1>4. QueueFor(ResolveHandler(a.type)) =
        CASE a.segments[1] = "payment_intent" -> {"stripe.payments.inbound"}
          [] a.segments[1] = "subscription" -> {"stripe.subscriptions.inbound"}
          [] a.segments[1] = "invoice" -> {"stripe.invoices.inbound"}
          [] a.segments[1] = "customer" -> {"stripe.customers.inbound"}
          [] OTHER -> {}
  <2>1. \A n \in {2, 3} : n > 1 /\ (n > 2 <=> n = 3)
    OBVIOUS
  <2> HIDE DEF Word
  <2> QED
    BY <1>2, <1>3, <2>1, HandlerByWords DEF QueueFor
<1> QED
  BY <1>4 DEF CategoryQueue

(* The row of the handler is the longest that matches. *)
LEMMA FirstIsLongest ==
    ASSUME NEW S, NEW t \in Seq(S), NEW i \in MatchingRows(t)
    PROVE  \E j \in MatchingRows(t) :
              /\ HandlerMap[j].handler = ResolveHandler(t)
              /\ Len(HandlerMap[j].prefix) >= Len(HandlerMap[i].prefix)
<1>1. PICK j \in MatchingRows(t) : \A k \in MatchingRows(t) : j <= k
  BY ResolveHandlerIs
<1>2. HandlerMap[j].handler = ResolveHandler(t)
  BY <1>1, ResolveHandlerIs
<1>3. /\ Len(HandlerMap[1].prefix) = 1 /\ Len(HandlerMap[2].prefix) = 2
      /\ Len(HandlerMap[3].prefix) = 1 /\ Len(HandlerMap[4].prefix) = 2
      /\ Len(HandlerMap[5].prefix) = 1 /\ Len(HandlerMap[6].prefix) = 1
      /\ Len(HandlerMap[7].prefix) = 2 /\ Len(HandlerMap[8].prefix) = 1
  BY DEF HandlerMap, Row
<1>4. i \in {1, 2, 3, 4, 5, 6, 7, 8} /\ j \in {1, 2, 3, 4, 5, 6, 7, 8} /\ j <= i
  <2>1. MatchingRows(t) \subseteq 1..8
    BY RowsAre
  <2> QED
    BY <1>1, <2>1
(* A row of two words is the first that matches. *)
<1>5. i \in {2, 4, 7} => j = i
  <2>1. i = 2 => 1 \notin MatchingRows(t)
    BY RowsAre
  <2>2. i = 4 => 1 \notin MatchingRows(t) /\ 2 \notin MatchingRows(t) /\ 3 \notin MatchingRows(t)
    BY RowsAre
  <2>3. i = 7 => \A k \in {1, 2, 3, 4, 5, 6} : k \notin MatchingRows(t)
    BY RowsAre
  <2> QED
    BY <1>1, <1>4, <2>1, <2>2, <2>3
<1>6. Len(HandlerMap[j].prefix) >= Len(HandlerMap[i].prefix)
  <2> DEFINE len(k) == Len(HandlerMap[k].prefix)
  <2>1. \A k \in {1, 2, 3, 4, 5, 6, 7, 8} : len(k) = IF k \in {2, 4, 7} THEN 2 ELSE 1
    BY <1>3
  <2> HIDE DEF len
  <2>2. len(j) >= len(i)
    BY <1>4, <1>5, <2>1
  <2> QED
    BY <2>2 DEF len
<1> QED
  BY <1>2, <1>6

(* A topic has no level but those of the tables and the account. *)
LEMMA TopicType ==
    ASSUME NEW t, NEW a \in Accounts
    PROVE  GetTopic(t, a) \in Seq(TopicLevels)
<1> DEFINE g == GetTopic(t, a)
           w == MapEventType(t)
<1>1. IsTopic(g, w, a) /\ Len(w) \in {2, 3} /\ w \in Seq(RouterWords)
  BY GetTopicIs, SegmentsType
<1>2. \A i \in 1..3 : Root[i] \in TopicLevels
  <2>1. DOMAIN Root = 1..3
    BY DEF Root
  <2> QED
    BY <2>1 DEF TopicLevels
<1>3. \A i \in DOMAIN w : w[i] \in TopicLevels
  <2>1. w \in {<<"error", "unroutable">>} \cup {entry.segments : entry \in Mapping}
    <3>1. CASE t \in Supported
      BY <3>1, MapEventTypeIs DEF Supported
    <3>2. CASE t \notin Supported
      BY <3>2, MapEventTypeIs
    <3> QED
      BY <3>1, <3>2
  <2> HIDE DEF w
  <2> QED
    BY <2>1 DEF TopicLevels
<1>4. a \in TopicLevels
  BY DEF TopicLevels
<1>5. Len(w) \in Nat /\ DOMAIN w = 1..Len(w) /\ g \in Seq(RouterWords \cup {a})
  BY <1>1, LenProperties DEF IsTopic
<1> HIDE DEF g, w
<1>6. ASSUME NEW i \in 1..Len(g) PROVE g[i] \in TopicLevels
  <2>1. Len(g) = Len(w) + 4
    BY <1>1 DEF IsTopic
  <2>2. CASE i \in 1..3
    BY <1>1, <1>2, <2>2 DEF IsTopic
  <2>3. CASE i = Len(w) + 4
    BY <1>1, <1>4, <2>3 DEF IsTopic
  <2>4. CASE i \notin 1..3 /\ i # Len(w) + 4
    <3>1. i - 3 \in 1..Len(w) /\ (i - 3) + 3 = i
      BY <1>5, <2>1, <2>4
    <3>2. g[(i - 3) + 3] = w[i - 3]
      BY <1>1, <3>1 DEF IsTopic
    <3> QED
      BY <1>3, <1>5, <3>1, <3>2
  <2> QED
    BY <2>2, <2>3, <2>4
<1>7. g \in Seq(TopicLevels)
  BY <1>5, <1>6
<1> QED
  BY <1>7 DEF g

-----------------------------------------------------------------------------
(* The invariant: what has been chosen for the event in hand is what its   *)
(* type calls for.                                                         *)

ChosenInv ==
    /\ stage = "waiting" => topic = << >> /\ handler = "BaseEventHandler"
    /\ stage # "waiting" => topic = GetTopic(type, account)
    /\ stage \in {"normalized", "failed", "published"} => handler = ResolveHandler(type)
    /\ stage = "routed" => handler = "BaseEventHandler"
    /\ stage = "failed" => NormalizeRaises(handler, payload)
    /\ queues = IF stage = "published" THEN QueuesOf(topic) ELSE {}

Given ==
    /\ stage \in {"waiting", "routed", "normalized", "failed", "published"}
    /\ type \in Types
    /\ account \in Accounts
    /\ payload \in Payloads

RoutingInv == Given /\ ChosenInv

LEMMA RoutingInvariant == Spec => []RoutingInv
<1>1. Init => RoutingInv
  <2>1. Plain \in Payloads
    BY DEF Plain, Payloads, Shapes, Lists
  <2> QED
    BY <2>1 DEF Init, RoutingInv, Given, ChosenInv
<1>2. RoutingInv /\ [Next]_vars => RoutingInv'
  <2> SUFFICES ASSUME RoutingInv, [Next]_vars PROVE RoutingInv'
    OBVIOUS
  <2> USE DEF RoutingInv, Given, ChosenInv
  <2>1. CASE Route
    BY <2>1 DEF Route
  <2>2. CASE Normalize
    BY <2>2 DEF Normalize
  <2>3. CASE Publish
    BY <2>3 DEF Publish
  <2>4. CASE UNCHANGED vars
    BY <2>4 DEF vars
  <2> QED
    BY <2>1, <2>2, <2>3, <2>4 DEF Next
<1> QED
  BY <1>1, <1>2, PTL DEF Spec

-----------------------------------------------------------------------------
(* Theorems *)

(* Every variable keeps its type: a topic is made of the words of the      *)
(* mapping and an account, whatever the words of the type.                 *)
THEOREM TypeCorrect == Spec => []TypeOK
<1>1. RoutingInv => TypeOK
  <2> SUFFICES ASSUME RoutingInv PROVE TypeOK
    OBVIOUS
  <2>1. topic \in Seq(TopicLevels)
    <3>1. CASE stage = "waiting"
      BY <3>1 DEF RoutingInv, ChosenInv
    <3>2. CASE stage # "waiting"
      BY <3>2, TopicType DEF RoutingInv, Given, ChosenInv
    <3> QED
      BY <3>1, <3>2
  <2>2. handler \in Handlers
    <3>1. "BaseEventHandler" \in Handlers
      BY DEF Handlers
    <3>2. ResolveHandler(type) \in Handlers
      <4>1. type \in Seq(Words)
        BY TypesAreSequences DEF RoutingInv, Given
      <4>2. MatchingRows(type) \subseteq DOMAIN HandlerMap
        BY DEF MatchingRows
      <4> QED
        BY <3>1, <4>1, <4>2, ResolveHandlerIs DEF Handlers
    <3> QED
      BY <3>1, <3>2 DEF RoutingInv, Given, ChosenInv
  <2>3. queues \subseteq QueueNames
    BY DEF RoutingInv, ChosenInv, QueuesOf, QueueNames
  <2> QED
    BY <2>1, <2>2, <2>3 DEF TypeOK, RoutingInv, Given
<1> QED
  BY <1>1, RoutingInvariant, PTL

(* _resolve_handler takes the first prefix that matches, and that is the   *)
(* longest: no event goes to a handler for a wider class of events.        *)
THEOREM LongestPrefixWins == Spec => []BestHandler
<1>1. RoutingInv => BestHandler
  <2> SUFFICES ASSUME RoutingInv PROVE BestHandler
    OBVIOUS
  <2>1. type \in Seq(Words)
    BY TypesAreSequences DEF RoutingInv, Given
  <2>2. stage \in {"normalized", "published"} => handler = ResolveHandler(type)
    BY DEF RoutingInv, ChosenInv
  <2> QED
    BY <2>1, <2>2, FirstIsLongest DEF BestHandler
<1> QED
  BY <1>1, RoutingInvariant, PTL

(* The mapping of the router, the prefixes of the processor and the        *)
(* subscriptions of the broker agree on where each event belongs.          *)
THEOREM TablesAlwaysAgree == Spec => []TablesAgree
<1>1. RoutingInv => TablesAgree
  <2> SUFFICES ASSUME RoutingInv, stage = "published"
               PROVE  queues = {"stripe.all.inbound"}
                         \cup (IF type \in Supported THEN QueueFor(handler) ELSE {})
    BY DEF TablesAgree
  <2>1. /\ queues = {"stripe.all.inbound"} \cup CategoryQueue(MapEventType(type)[1])
        /\ handler = ResolveHandler(type)
    BY QueuesOfTopic DEF RoutingInv, ChosenInv
  <2>2. CASE type \in Supported
    <3>1. PICK a \in Mapping : a.type = type
      BY <2>2 DEF Supported
    <3>2. MapEventType(type) = a.segments
      BY <3>1, MapEventTypeIs
    <3> QED
      BY <2>1, <2>2, <3>1, <3>2, CategoryAndHandler
  <2>3. CASE type \notin Supported
    <3>1. MapEventType(type)[1] = "error"
      BY <2>3, MapEventTypeIs
    <3>2. CategoryQueue("error") = {}
      BY DEF CategoryQueue
    <3> QED
      BY <2>1, <2>3, <3>1, <3>2
  <2> QED
    BY <2>2, <2>3
<1> QED
  BY <1>1, RoutingInvariant, PTL

(* The topic of a supported event is its own: no other event type, known   *)
(* or not, gets the same topic for the same account.                       *)
THEOREM TopicsAreTelling == Spec => []TopicsTellTypes
<1>1. RoutingInv => TopicsTellTypes
  <2> SUFFICES ASSUME RoutingInv, stage # "waiting"
               PROVE  /\ topic[Len(topic)] = account
                      /\ \A t \in Supported : t # type => GetTopic(t, account) # topic
    BY DEF TopicsTellTypes
  <2>1. topic = GetTopic(type, account)
    BY DEF RoutingInv, ChosenInv
  <2>2. IsTopic(topic, MapEventType(type), account)
    BY <2>1, GetTopicIs
  <2>3. topic[Len(topic)] = account
    BY <2>2 DEF IsTopic
  <2> QED
    BY <2>1, <2>3, TopicsDiffer
<1> QED
  BY <1>1, RoutingInvariant, PTL

(* No event as Stripe's API sends it fails for the shape of its payload:   *)
(* only one with a field missing or of another type makes a handler raise. *)
THEOREM ApiEventsPass == Spec => []ApiEventsGetThrough
<1>1. RoutingInv => ApiEventsGetThrough
  <2>1. ASSUME NEW h, NEW p \in ApiPayloads PROVE ~NormalizeRaises(h, p)
    <3>1. /\ p.created = "right" /\ p.data = "right" /\ p.object = "right"
          /\ p.list \in {"absent", "null", "page of list"}
      BY DEF ApiPayloads, Plain
    <3>2. FieldsOf(p) = "fields" /\ ~CannotIterate(p)
      BY <3>1 DEF FieldsOf, CannotIterate
    <3> QED
      BY <3>1, <3>2 DEF NormalizeRaises, ExtractData, PaymentIntentData, CustomerData,
             PayoutData, ChargeData, DisputeData, SubscriptionData, InvoiceData,
             CheckoutSessionData
  <2> QED
    BY <2>1 DEF RoutingInv, ChosenInv, ApiEventsGetThrough
<1> QED
  BY <1>1, RoutingInvariant, PTL

=============================================================================
