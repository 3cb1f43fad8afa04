------------------------------ MODULE MediaProofs ------------------------------
(***************************************************************************)
(* Proofs about sound and coded picture.                                   *)
(*                                                                         *)
(* The audio tap hands its thread the frames in the order they were        *)
(* pushed, for every capacity, batch and history: between the tail and the *)
(* producer's head every slot holds the frame whose turn it is, because    *)
(* the producer makes room before it stores; a drain keeps what it copied  *)
(* only if the tail has stood still since it read it, and then everything  *)
(* it copied lay between the two.  A take moves the tap only as the tap    *)
(* allows.  The units it buffers are a chain, each starting where the one  *)
(* before it ends, so a fragment spans what lies between its first and the *)
(* next, and what follows continues it.                                    *)
(*                                                                         *)
(* A live stream's frames are in one line from the loop's hand through the *)
(* queue, the thread's hand and the encoder to the publisher, or counted.  *)
(* Its time is counted from the first frame that meets the encoder, and    *)
(* only the first frame a stream is offered can be of another run of the   *)
(* clock than the rest.                                                    *)
(*                                                                         *)
(* The mix follows the picture while takes wait for each other's           *)
(* exchanges: then one take at a time is under way, as a command and after *)
(* that as the exchanges it left waiting.  What a peer answers arrives     *)
(* whole while no silence falls inside a chunk: reader and peer are in     *)
(* step but for the one field that is on its way.                          *)
(***************************************************************************)
EXTENDS MCMedia, SequenceTheorems, FiniteSetTheorems, WellFoundedInduction, TLAPS

-----------------------------------------------------------------------------
(* The audio tap.                                                          *)

Producer == [at : {"resting", "room", "evict", "store", "publish"},
             head : Nat, tail : Nat, left : Nat]
Consumer == [at : {"away", "tail", "head", "copy"}, tail : Nat, count : Nat,
             copied : Seq(Nat)]

TapTypes ==
  /\ slot \in [0..Capacity - 1 -> Nat] /\ head \in Nat /\ tail \in Nat
  /\ producer \in Producer /\ consumer \in Consumer
  /\ drained \in Seq(Nat)

\* How far the producer has stored: its own head while it pushes.
Stored == IF producer.at = "resting" THEN head ELSE producer.head

ProducerInv ==
  /\ tail =< head /\ head =< Stored /\ Stored - tail =< Capacity
  /\ producer.at \in {"room", "evict", "store"} =>
       /\ producer.left >= 1
       /\ producer.head + producer.left =< head + MaxBatch
  /\ producer.at = "store" => producer.head - tail =< Capacity - 1
  /\ producer.at = "evict" => producer.head - producer.tail > Capacity - 1

\* The frames between the tail and the producer's head are where they belong.
SlotInv == \A k \in tail..Stored - 1 : slot[k % Capacity] = k + 1

\* What the consumer has copied is what it should have, unless the tail moved.
ConsumerInv ==
  /\ consumer.at \in {"head", "copy"} => consumer.tail =< tail
  /\ consumer.at = "head" => consumer.copied = <<>>
  /\ consumer.at = "copy" /\ consumer.tail = tail =>
       /\ consumer.count =< head - tail
       /\ Len(consumer.copied) =< consumer.count
       /\ \A i \in 1..Len(consumer.copied) : consumer.copied[i] = tail + i

\* Every frame heard is behind the tail.
HeardInv == HeardInOrder /\ \A i \in 1..Len(drained) : drained[i] =< tail

TapInv == TapTypes /\ ProducerInv /\ SlotInv /\ ConsumerInv /\ HeardInv

-----------------------------------------------------------------------------
(* The two numbers less than a capacity apart have slots of their own.     *)

LEMMA SlotsApart ==
  ASSUME NEW c \in Nat, c > 0, NEW a \in Nat, NEW b \in Nat, a < b, b - a < c
  PROVE  a % c # b % c
<1> SUFFICES ASSUME a % c = b % c PROVE FALSE
  OBVIOUS
<1> DEFINE p == a \div c
           q == b \div c
<1>1. p \in Int /\ q \in Int /\ a = c * p + (a % c) /\ b = c * q + (b % c)
  OBVIOUS
<1> HIDE DEF p, q
<1>2. b - a = c * (q - p)
  BY <1>1
<1>3. q - p >= 1
  BY <1>1, <1>2
<1>4. c * (q - p) >= c
  BY <1>1, <1>3
<1> QED
  BY <1>2, <1>4

LEMMA SlotExists ==
  ASSUME NEW c \in Nat, c > 0, NEW a \in Nat
  PROVE  a % c \in 0..c - 1
OBVIOUS

LEMMA TapBegins == ASSUME TapConstants, TapInit PROVE TapInv
BY DEF TapConstants, TapInit, TapInv, TapTypes, Producer, Consumer, ProducerInv, SlotInv,
       ConsumerInv, HeardInv, HeardInOrder, Stored, Resting, Away

-----------------------------------------------------------------------------
(* The producer.                                                           *)

LEMMA PushBeginsKeeps ==
  ASSUME TapConstants, TapInv, PushBegins PROVE TapInv'
<1>0. PICK n \in 1..MaxBatch :
        producer' = [at |-> "room", head |-> head, tail |-> 0, left |-> n]
  BY DEF PushBegins, Resting
<1>a. /\ UNCHANGED <<slot, head, tail, dropped, consumer, drained>>
      /\ producer.at = "resting" /\ n \in Nat /\ MaxBatch \in Nat
  BY DEF PushBegins, TapConstants
<1>b. Stored' = Stored
  BY <1>0, <1>a DEF Stored
<1>1. TapTypes'
  BY <1>0, <1>a DEF TapInv, TapTypes, Producer, Consumer
<1>2. ProducerInv'
  BY <1>0, <1>a DEF TapInv, TapTypes, Producer, Consumer, ProducerInv, Stored
<1>3. SlotInv'
  BY <1>a, <1>b DEF TapInv, SlotInv
<1>4. ConsumerInv'
  BY <1>a DEF TapInv, ConsumerInv
<1>5. HeardInv'
  BY <1>a DEF TapInv, HeardInv, HeardInOrder
<1> QED
  BY <1>1, <1>2, <1>3, <1>4, <1>5 DEF TapInv

LEMMA ReadTailKeeps ==
  ASSUME TapConstants, TapInv, ReadTail PROVE TapInv'
<1>0. /\ UNCHANGED <<slot, tail, dropped, consumer, drained>>
      /\ head' >= head /\ Stored' = Stored
  BY DEF ReadTail, TapInv, TapTypes, Producer, Consumer, ProducerInv, Stored
<1>1. TapTypes'
  BY DEF TapConstants, ReadTail, TapInv, TapTypes, Producer, Consumer, ProducerInv
<1>2. ProducerInv'
  BY DEF TapConstants, ReadTail, TapInv, TapTypes, Producer, Consumer, ProducerInv, Stored
<1>3. SlotInv'
  BY <1>0 DEF TapInv, SlotInv
<1>4. ConsumerInv'
  BY <1>0, <1>1 DEF TapInv, TapTypes, Producer, Consumer, ConsumerInv
<1>5. HeardInv'
  BY <1>0 DEF TapInv, HeardInv, HeardInOrder
<1> QED
  BY <1>1, <1>2, <1>3, <1>4, <1>5 DEF TapInv

\* With the ring full the tail is a capacity behind the head, so one frame
\* further is not past what is published: the batch is no longer than the ring.
LEMMA EvictKeeps ==
  ASSUME TapConstants, TapInv, Evict PROVE TapInv'
<1>1. CASE tail # producer.tail
  <2>1. producer' = [producer EXCEPT !.at = "room"]
        /\ UNCHANGED <<slot, head, tail, dropped, consumer, drained>>
    BY <1>1 DEF Evict
  <2>2. producer.at = "evict"
    BY DEF Evict
  <2>3. TapTypes' /\ ProducerInv' /\ Stored' = Stored
    BY <2>1, <2>2 DEF TapInv, TapTypes, Producer, Consumer, ProducerInv, Stored
  <2>4. SlotInv' /\ ConsumerInv' /\ HeardInv'
    BY <2>1, <2>3 DEF TapInv, SlotInv, ConsumerInv, HeardInv, HeardInOrder
  <2> QED
    BY <2>3, <2>4 DEF TapInv
<1>2. CASE tail = producer.tail
  <2>1. /\ tail' = tail + 1 /\ dropped' = dropped + 1
        /\ producer' = [producer EXCEPT !.at = "store"]
        /\ UNCHANGED <<slot, head, consumer, drained>>
        /\ producer.at = "evict"
    BY <1>2 DEF Evict
  <2>2. /\ head \in Nat /\ tail \in Nat /\ Capacity \in Nat /\ MaxBatch \in Nat
        /\ producer.head \in Nat /\ producer.left \in Nat
        /\ producer \in Producer
        /\ Capacity > 0 /\ MaxBatch =< Capacity
    BY DEF TapConstants, TapInv, TapTypes, Producer, Consumer
  <2>3. Stored = producer.head /\ Stored' = producer.head
    BY <2>1, <2>2 DEF Stored
  <2>a. /\ producer.head - tail = Capacity /\ producer.left >= 1
        /\ producer.head + producer.left =< head + MaxBatch
        /\ head =< producer.head
    BY <1>2, <2>1, <2>2, <2>3 DEF TapInv, ProducerInv
  <2>b. tail + 1 =< head
    BY <2>2, <2>a
  <2>c. producer' \in Producer
    BY <2>1, <2>2 DEF Producer
  <2>4. TapTypes'
    BY <2>1, <2>2, <2>c DEF TapInv, TapTypes
  <2>5. ProducerInv'
    BY <2>1, <2>2, <2>3, <2>a, <2>b DEF ProducerInv
  <2>6. SlotInv'
    BY <2>1, <2>2, <2>3 DEF TapInv, SlotInv
  <2>7. ConsumerInv'
    <3>1. consumer.tail \in Nat /\ ConsumerInv
      BY DEF TapInv, TapTypes, Consumer
    <3>2. consumer.at \in {"head", "copy"} => consumer.tail =< tail
      BY <3>1 DEF ConsumerInv
    <3>3. consumer.at \in {"head", "copy"} =>
            consumer.tail =< tail + 1 /\ consumer.tail # tail + 1
      BY <2>2, <3>1, <3>2
    <3> QED
      BY <2>1, <3>1, <3>3 DEF ConsumerInv
  <2>8. HeardInv'
    <3>1. \A i \in 1..Len(drained) : drained[i] \in Nat
      BY DEF TapInv, TapTypes, Producer, Consumer
    <3> QED
      BY <2>1, <2>2, <3>1 DEF TapInv, HeardInv, HeardInOrder
  <2> QED
    BY <2>4, <2>5, <2>6, <2>7, <2>8 DEF TapInv
<1> QED
  BY <1>1, <1>2

\* The slot stored into belongs to no frame still in the ring.
LEMMA StoreKeeps ==
  ASSUME TapConstants, TapInv, Store PROVE TapInv'
<1> DEFINE p == producer.head
<1>0. /\ slot' = [slot EXCEPT ![p % Capacity] = p + 1]
      /\ UNCHANGED <<head, tail, dropped, consumer, drained>>
      /\ producer.at = "store"
      /\ \/ /\ producer.left > 1
            /\ producer' = [producer EXCEPT !.at = "room", !.head = p + 1,
                                            !.left = producer.left - 1]
         \/ producer' = [producer EXCEPT !.at = "publish", !.head = p + 1]
  BY DEF Store
<1>a. /\ head \in Nat /\ tail \in Nat /\ p \in Nat /\ producer.left \in Nat
      /\ producer \in Producer
      /\ Capacity \in Nat /\ Capacity > 0 /\ MaxBatch \in Nat
      /\ slot \in [0..Capacity - 1 -> Nat]
  BY DEF TapConstants, TapInv, TapTypes, Producer, Consumer
<1>b. Stored = p /\ Stored' = p + 1
  <2>1. producer'.head = p + 1 /\ producer'.at # "resting"
    BY <1>0, <1>a DEF Producer
  <2> QED
    BY <1>0, <2>1 DEF Stored
<1>c. /\ tail =< head /\ head =< p /\ p - tail =< Capacity - 1
      /\ p + producer.left =< head + MaxBatch
  BY <1>0, <1>b DEF TapInv, ProducerInv
<1>d. p % Capacity \in 0..Capacity - 1
  BY <1>a, SlotExists
<1> HIDE DEF p
<1>1. TapTypes'
  <2>1. producer' \in Producer
    <3>1. CASE /\ producer.left > 1
               /\ producer' = [producer EXCEPT !.at = "room", !.head = p + 1,
                                               !.left = producer.left - 1]
      <4>1. p + 1 \in Nat /\ producer.left - 1 \in Nat
        BY <1>a, <3>1
      <4> QED
        BY <1>a, <3>1, <4>1 DEF Producer
    <3>2. CASE producer' = [producer EXCEPT !.at = "publish", !.head = p + 1]
      <4>1. p + 1 \in Nat
        BY <1>a
      <4> QED
        BY <1>a, <3>2, <4>1 DEF Producer
    <3> QED
      BY <1>0, <3>1, <3>2
  <2>2. slot' \in [0..Capacity - 1 -> Nat]
    BY <1>0, <1>a, <1>d
  <2> QED
    BY <1>0, <2>1, <2>2 DEF TapInv, TapTypes
<1>2. ProducerInv'
  <2>1. CASE /\ producer.left > 1
             /\ producer' = [producer EXCEPT !.at = "room", !.head = p + 1,
                                             !.left = producer.left - 1]
    <3>1. /\ producer'.at = "room" /\ producer'.head = p + 1
          /\ producer'.left = producer.left - 1
      BY <1>a, <2>1 DEF Producer
    <3> QED
      BY <1>0, <1>a, <1>b, <1>c, <2>1, <3>1 DEF ProducerInv
  <2>2. CASE producer' = [producer EXCEPT !.at = "publish", !.head = p + 1]
    <3>1. producer'.at = "publish"
      BY <1>a, <2>2 DEF Producer
    <3> QED
      BY <1>0, <1>a, <1>b, <1>c, <3>1 DEF ProducerInv
  <2> QED
    BY <1>0, <2>1, <2>2
<1>3. SlotInv'
  <2> SUFFICES ASSUME NEW k \in tail..p PROVE slot'[k % Capacity] = k + 1
    BY <1>0, <1>a, <1>b DEF SlotInv
  <2>1. CASE k = p
    BY <1>0, <1>a, <1>d, <2>1
  <2>2. CASE k # p
    <3>1. k \in Nat /\ k < p /\ p - k < Capacity /\ k \in tail..Stored - 1
      BY <1>a, <1>b, <1>c, <2>2
    <3>2. k % Capacity # p % Capacity
      BY <1>a, <3>1, SlotsApart
    <3>3. slot[k % Capacity] = k + 1
      BY <3>1 DEF SlotInv, TapInv
    <3>4. k % Capacity \in 0..Capacity - 1
      BY <1>a, <3>1, SlotExists
    <3> QED
      BY <3>2, <3>3, <3>4, <1>0, <1>a
  <2> QED
    BY <2>1, <2>2
<1>4. ConsumerInv'
  BY <1>0 DEF TapInv, ConsumerInv
<1>5. HeardInv'
  BY <1>0 DEF TapInv, HeardInv, HeardInOrder
<1> QED
  BY <1>1, <1>2, <1>3, <1>4, <1>5 DEF TapInv

LEMMA PublishKeeps ==
  ASSUME TapConstants, TapInv, Publish PROVE TapInv'
<1>0. /\ UNCHANGED <<slot, tail, dropped, consumer, drained>>
      /\ head' >= head /\ Stored' = Stored
  BY DEF Publish, TapInv, TapTypes, Producer, Consumer, ProducerInv, Stored, Resting
<1>1. TapTypes'
  BY DEF TapConstants, Publish, TapInv, TapTypes, Producer, Consumer, ProducerInv, Resting
<1>2. ProducerInv'
  BY DEF TapConstants, Publish, TapInv, TapTypes, Producer, Consumer, ProducerInv, Stored, Resting
<1>3. SlotInv'
  BY <1>0 DEF TapInv, SlotInv
<1>4. ConsumerInv'
  BY <1>0, <1>1 DEF TapInv, TapTypes, Producer, Consumer, ConsumerInv
<1>5. HeardInv'
  BY <1>0 DEF TapInv, HeardInv, HeardInOrder
<1> QED
  BY <1>1, <1>2, <1>3, <1>4, <1>5 DEF TapInv

-----------------------------------------------------------------------------
(* The consumer.                                                           *)

LEMMA DrainBeginsKeeps ==
  ASSUME TapConstants, TapInv, DrainBegins PROVE TapInv'
<1>0. UNCHANGED <<slot, head, tail, dropped, producer, drained>>
  BY DEF DrainBegins
<1>1. TapTypes'
  <2>1. consumer' = [at |-> "tail", tail |-> 0, count |-> 0, copied |-> <<>>]
    BY DEF DrainBegins, Away
  <2>2. consumer' \in Consumer
    BY <2>1, EmptySeq DEF Consumer
  <2> QED
    BY <1>0, <2>2 DEF TapInv, TapTypes
<1>2. ProducerInv'
  BY <1>0 DEF TapInv, ProducerInv, Stored
<1>3. SlotInv'
  BY <1>0 DEF TapInv, SlotInv, Stored
<1>4. ConsumerInv'
  BY <1>0 DEF DrainBegins, TapInv, TapTypes, Producer, Consumer, ConsumerInv, ProducerInv, Stored, Away
<1>5. HeardInv'
  BY <1>0 DEF TapInv, HeardInv, HeardInOrder
<1> QED
  BY <1>1, <1>2, <1>3, <1>4, <1>5 DEF TapInv

LEMMA DrainReadsTailKeeps ==
  ASSUME TapConstants, TapInv, DrainReadsTail PROVE TapInv'
<1>0. UNCHANGED <<slot, head, tail, dropped, producer, drained>>
  BY DEF DrainReadsTail
<1>1. TapTypes'
  <2>1. consumer' = [at |-> "head", tail |-> tail, count |-> 0, copied |-> <<>>]
    BY DEF DrainReadsTail, Away
  <2>2. consumer' \in Consumer
    BY <2>1, EmptySeq DEF Consumer, TapInv, TapTypes
  <2> QED
    BY <1>0, <2>2 DEF TapInv, TapTypes
<1>2. ProducerInv'
  BY <1>0 DEF TapInv, ProducerInv, Stored
<1>3. SlotInv'
  BY <1>0 DEF TapInv, SlotInv, Stored
<1>4. ConsumerInv'
  BY <1>0 DEF DrainReadsTail, TapInv, TapTypes, Producer, Consumer, ConsumerInv, ProducerInv, Stored, Away
<1>5. HeardInv'
  BY <1>0 DEF TapInv, HeardInv, HeardInOrder
<1> QED
  BY <1>1, <1>2, <1>3, <1>4, <1>5 DEF TapInv

\* With the tail still where it was read there is no more than a capacity to
\* copy, and it ends at the published head.
LEMMA DrainReadsHeadKeeps ==
  ASSUME TapConstants, TapInv, DrainReadsHead PROVE TapInv'
<1>0. UNCHANGED <<slot, head, tail, dropped, producer, drained>>
  BY DEF DrainReadsHead
<1>1. TapTypes'
  <2>1. /\ head \in Nat /\ consumer.tail \in Nat /\ Capacity \in Nat
        /\ consumer \in Consumer
    BY DEF TapConstants, TapInv, TapTypes, Producer, Consumer
  <2> DEFINE n == head - consumer.tail
             m == IF n > Capacity \/ n < 0 THEN Capacity ELSE n
  <2>2. m \in Nat
    BY <2>1
  <2>3. consumer' = Away \/ consumer' = [consumer EXCEPT !.at = "copy", !.count = m]
    BY DEF DrainReadsHead
  <2> HIDE DEF m
  <2>4. Away \in Consumer
    BY EmptySeq DEF Away, Consumer
  <2>5. [consumer EXCEPT !.at = "copy", !.count = m] \in Consumer
    BY <2>1, <2>2 DEF Consumer
  <2> QED
    BY <1>0, <2>3, <2>4, <2>5 DEF TapInv, TapTypes
<1>2. ProducerInv'
  BY <1>0 DEF TapInv, ProducerInv, Stored
<1>3. SlotInv'
  BY <1>0 DEF TapInv, SlotInv, Stored
<1>4. ConsumerInv'
  <2> DEFINE n == head - consumer.tail
             m == IF n > Capacity \/ n < 0 THEN Capacity ELSE n
  <2>1. /\ consumer.at = "head" /\ consumer.tail \in Nat
        /\ head \in Nat /\ tail \in Nat /\ Capacity \in Nat
        /\ tail =< head /\ head - tail =< Capacity /\ consumer.tail =< tail
    BY DEF DrainReadsHead, TapConstants, TapInv, TapTypes, Producer, Consumer, ProducerInv,
           ConsumerInv, Stored
  <2>2. CASE n = 0
    BY <2>2 DEF DrainReadsHead, ConsumerInv, Away
  <2>3. CASE n # 0
    <3>1. consumer' = [consumer EXCEPT !.at = "copy", !.count = m]
      BY <2>3 DEF DrainReadsHead
    <3>2. /\ consumer'.at = "copy" /\ consumer'.count = m
          /\ consumer'.tail = consumer.tail
          /\ consumer'.copied = consumer.copied
      BY <3>1 DEF TapInv, TapTypes, Producer, Consumer
    <3>3. consumer.copied = <<>>
      BY <2>1 DEF TapInv, ConsumerInv
    <3>4. consumer.tail = tail => m = head - tail /\ m >= 0
      BY <2>1
    <3> HIDE DEF m
    <3> QED
      BY <1>0, <2>1, <3>2, <3>3, <3>4 DEF ConsumerInv
  <2> QED
    BY <2>2, <2>3
<1>5. HeardInv'
  BY <1>0 DEF TapInv, HeardInv, HeardInOrder
<1> QED
  BY <1>1, <1>2, <1>3, <1>4, <1>5 DEF TapInv

\* The slot read is that of a frame in the ring, if the tail has stood still.
LEMMA DrainCopiesKeeps ==
  ASSUME TapConstants, TapInv, DrainCopies PROVE TapInv'
<1>0. UNCHANGED <<slot, head, tail, dropped, producer, drained>>
  BY DEF DrainCopies
<1>1. TapTypes'
  <2> DEFINE j == (consumer.tail + Len(consumer.copied)) % Capacity
  <2>1. /\ consumer.tail \in Nat /\ Len(consumer.copied) \in Nat
        /\ Capacity \in Nat /\ Capacity > 0 /\ consumer.copied \in Seq(Nat)
        /\ slot \in [0..Capacity - 1 -> Nat]
    BY DEF TapConstants, TapInv, TapTypes, Producer, Consumer
  <2>2. j \in 0..Capacity - 1
    <3>1. consumer.tail + Len(consumer.copied) \in Nat
      BY <2>1
    <3> QED
      BY <2>1, <3>1, SlotExists
  <2>3. consumer' = [consumer EXCEPT !.copied = Append(consumer.copied, slot[j])]
    BY DEF DrainCopies
  <2> HIDE DEF j
  <2>4. Append(consumer.copied, slot[j]) \in Seq(Nat)
    BY <2>1, <2>2
  <2> QED
    BY <1>0, <2>3, <2>4 DEF TapInv, TapTypes, Producer, Consumer
<1>2. ProducerInv'
  BY <1>0 DEF TapInv, ProducerInv, Stored
<1>3. SlotInv'
  BY <1>0 DEF TapInv, SlotInv, Stored
<1>4. ConsumerInv'
  <2> DEFINE n == Len(consumer.copied)
             x == slot[(consumer.tail + n) % Capacity]
  <2>1. /\ consumer' = [consumer EXCEPT !.copied = Append(@, x)]
        /\ consumer.at = "copy" /\ n < consumer.count
    BY DEF DrainCopies
  <2>2. /\ consumer.copied \in Seq(Nat) /\ n \in Nat
        /\ consumer.count \in Nat /\ consumer.tail \in Nat /\ tail \in Nat
        /\ head \in Nat /\ Stored \in Nat /\ head =< Stored
    BY DEF TapConstants, TapInv, TapTypes, Producer, Consumer, ProducerInv, Stored
  <2>3. /\ consumer'.copied = Append(consumer.copied, x)
        /\ consumer'.tail = consumer.tail /\ consumer'.count = consumer.count
        /\ consumer'.at = "copy"
    BY <2>1 DEF TapInv, TapTypes, Producer, Consumer
  <2>4. consumer.tail =< tail
    BY <2>1 DEF TapInv, ConsumerInv
  <2>5. ASSUME consumer.tail = tail
        PROVE  /\ consumer.count =< head - tail
               /\ x = tail + n + 1
               /\ \A i \in 1..n : consumer.copied[i] = tail + i
    <3>1. /\ consumer.count =< head - tail
          /\ \A i \in 1..n : consumer.copied[i] = tail + i
      BY <2>1, <2>5 DEF TapInv, ConsumerInv
    <3>2. tail + n \in tail..Stored - 1
      BY <2>1, <2>2, <3>1
    <3> QED
      BY <2>5, <3>1, <3>2 DEF TapInv, SlotInv
  <2> HIDE DEF n, x
  <2>6. ASSUME consumer.tail = tail, NEW i \in 1..n + 1
        PROVE  Append(consumer.copied, x)[i] = tail + i
    <3>1. x \in Nat
      BY <2>2, <2>5, <2>6
    <3>2. /\ \A k \in 1..n : Append(consumer.copied, x)[k] = consumer.copied[k]
          /\ Append(consumer.copied, x)[n + 1] = x
      <4>1. n = Len(consumer.copied)
        BY DEF n
      <4>2. DOMAIN consumer.copied = 1..n
        BY <2>2, <4>1
      <4>3. /\ Append(consumer.copied, x)[n + 1] = x
            /\ \A k \in 1..n : Append(consumer.copied, x)[k] = consumer.copied[k]
        BY <2>2, <3>1, <4>1
      <4> QED
        BY <4>3
    <3>3. x = tail + n + 1 /\ \A k \in 1..n : consumer.copied[k] = tail + k
      BY <2>5, <2>6
    <3>4. CASE i = n + 1
      BY <2>2, <3>2, <3>3, <3>4
    <3>5. CASE i \in 1..n
      BY <2>2, <3>2, <3>3, <3>5
    <3>6. n \in Nat /\ i \in 1..n + 1
      BY <2>2, <2>6
    <3>7. i = n + 1 \/ i \in 1..n
      BY <3>6
    <3> QED
      BY <3>4, <3>5, <3>7
  <2>7. Len(Append(consumer.copied, x)) = n + 1
    BY <2>2 DEF n
  <2>8. head' = head /\ tail' = tail
    BY <1>0
  <2>9. ASSUME consumer'.tail = tail'
        PROVE  /\ consumer'.count =< head' - tail'
               /\ Len(consumer'.copied) =< consumer'.count
               /\ \A i \in 1..Len(consumer'.copied) : consumer'.copied[i] = tail' + i
    <3>1. consumer.tail = tail
      BY <2>3, <2>8, <2>9
    <3>2. consumer.count =< head - tail
      BY <2>5, <3>1
    <3>3. n + 1 =< consumer.count
      BY <2>1, <2>2
    <3>4. \A i \in 1..n + 1 : Append(consumer.copied, x)[i] = tail + i
      BY <2>6, <3>1
    <3> QED
      BY <2>3, <2>7, <2>8, <3>2, <3>3, <3>4
  <2>10. consumer'.tail =< tail'
    BY <2>3, <2>4, <2>8
  <2> QED
    BY <2>3, <2>9, <2>10 DEF ConsumerInv
<1>5. HeardInv'
  BY <1>0 DEF TapInv, HeardInv, HeardInOrder
<1> QED
  BY <1>1, <1>2, <1>3, <1>4, <1>5 DEF TapInv

LEMMA DrainAgainKeeps ==
  ASSUME TapConstants, TapInv, DrainAgain PROVE TapInv'
<1>0. UNCHANGED <<slot, head, tail, dropped, producer, drained>>
  BY DEF DrainAgain
<1>1. TapTypes'
  <2>1. consumer' = [at |-> "tail", tail |-> 0, count |-> 0, copied |-> <<>>]
    BY DEF DrainAgain, Away
  <2>2. consumer' \in Consumer
    BY <2>1, EmptySeq DEF Consumer
  <2> QED
    BY <1>0, <2>2 DEF TapInv, TapTypes
<1>2. ProducerInv'
  BY <1>0 DEF TapInv, ProducerInv, Stored
<1>3. SlotInv'
  BY <1>0 DEF TapInv, SlotInv, Stored
<1>4. ConsumerInv'
  BY <1>0 DEF DrainAgain, TapInv, TapTypes, Producer, Consumer, ConsumerInv, ProducerInv, Stored, Away
<1>5. HeardInv'
  BY <1>0 DEF TapInv, HeardInv, HeardInOrder
<1> QED
  BY <1>1, <1>2, <1>3, <1>4, <1>5 DEF TapInv

\* What was copied are the frames from the tail on, each behind the new tail
\* and none behind the old one.
LEMMA DrainKeeps ==
  ASSUME TapConstants, TapInv, Drain PROVE TapInv'
<1> DEFINE n == consumer.count
           new == consumer.copied
<1>0. /\ tail' = tail + n /\ drained' = drained \o new /\ consumer' = Away
      /\ UNCHANGED <<slot, head, dropped, producer>>
      /\ consumer.at = "copy" /\ consumer.tail = tail /\ Len(new) = n
  BY DEF Drain, Copied
<1>a. /\ n \in Nat /\ n =< head - tail /\ \A i \in 1..n : new[i] = tail + i
      /\ tail \in Nat /\ head \in Nat
      /\ drained \in Seq(Nat) /\ new \in Seq(Nat)
  BY <1>0 DEF TapInv, TapTypes, Producer, Consumer, ConsumerInv
<1> HIDE DEF n, new
<1>1. TapTypes'
  <2>1. drained' \in Seq(Nat)
    BY <1>0, <1>a
  <2> QED
    <3>1. consumer' \in Consumer
      BY <1>0, EmptySeq DEF Away, Consumer
    <3>2. tail' \in Nat
      BY <1>0, <1>a
    <3> QED
      BY <1>0, <1>a, <2>1, <3>1, <3>2 DEF TapInv, TapTypes
<1>b. Stored \in Nat /\ Stored' = Stored /\ producer.head \in Nat
  BY <1>0, <1>a DEF TapInv, TapTypes, Producer, Stored
<1>2. ProducerInv'
  <2>1. ProducerInv /\ Capacity \in Nat
    BY DEF TapInv, TapConstants
  <2>2. tail' =< head' /\ head' =< Stored' /\ Stored' - tail' =< Capacity
    BY <1>0, <1>a, <1>b, <2>1 DEF ProducerInv
  <2>3. producer'.at = "store" => producer'.head - tail' =< Capacity - 1
    BY <1>0, <1>a, <1>b, <2>1 DEF ProducerInv
  <2> QED
    BY <1>0, <2>1, <2>2, <2>3 DEF ProducerInv
<1>3. SlotInv'
  BY <1>0, <1>a, <1>b DEF TapInv, SlotInv
<1>4. ConsumerInv'
  BY <1>0 DEF ConsumerInv, Away
<1>5. HeardInv'
  <2> DEFINE m == Len(drained)
  <2>1. m \in Nat /\ Len(drained') = m + n /\ DOMAIN drained' = 1..m + n
    <3>1. Len(drained \o new) = Len(drained) + Len(new) /\ Len(drained) \in Nat
      BY <1>a
    <3>2. Len(drained') = m + n
      BY <1>0, <3>1
    <3>3. DOMAIN drained' = 1..Len(drained')
      BY <1>1 DEF TapTypes
    <3> QED
      BY <3>1, <3>2, <3>3
  <2>2. \A i \in 1..m : drained'[i] = drained[i]
    BY <1>0, <1>a
  <2>3. \A i \in m + 1..m + n : drained'[i] = tail + (i - m)
    BY <1>0, <1>a
  <2>4. \A i \in 1..m : drained[i] \in Nat /\ drained[i] =< tail
    BY <1>a DEF TapInv, HeardInv
  <2>5. \A i, j \in 1..m : i < j => drained[i] < drained[j]
    BY <1>a DEF TapInv, HeardInv, HeardInOrder
  <2> HIDE DEF m
  <2>6. \A i, j \in 1..m + n : i < j => drained'[i] < drained'[j]
    <3> SUFFICES ASSUME NEW i \in 1..m + n, NEW j \in 1..m + n, i < j
                 PROVE  drained'[i] < drained'[j]
      OBVIOUS
    <3>1. CASE j =< m
      BY <1>a, <2>1, <2>2, <2>5, <3>1
    <3>2. CASE i > m
      BY <1>a, <2>1, <2>3, <3>2
    <3>3. CASE i =< m /\ j > m
      <4>1. i \in 1..m /\ j \in m + 1..m + n /\ j - m >= 1
        BY <1>a, <2>1, <3>3
      <4>2. drained'[i] \in Nat /\ drained'[i] =< tail
        BY <2>2, <2>4, <4>1
      <4>3. drained'[j] = tail + (j - m) /\ j - m \in Nat
        BY <1>a, <2>1, <2>3, <4>1
      <4> QED
        BY <1>a, <4>1, <4>2, <4>3
    <3> QED
      BY <1>a, <2>1, <3>1, <3>2, <3>3
  <2>7. \A i \in 1..m + n : drained'[i] =< tail'
    BY <1>0, <1>a, <2>1, <2>2, <2>3, <2>4
  <2> QED
    BY <2>1, <2>6, <2>7 DEF HeardInv, HeardInOrder
<1> QED
  BY <1>1, <1>2, <1>3, <1>4, <1>5 DEF TapInv

-----------------------------------------------------------------------------

\* The tap's invariant is inductive: the frames in the ring are where they
\* belong whatever the two threads have done (audio_tap.rs, push and drain).
THEOREM TapInvariant == ASSUME TapConstants PROVE TapSpec => []TapInv
<1>1. TapInit => TapInv
  BY TapBegins
<1>2. TapInv /\ [Push \/ DrainBegins \/ DrainSteps \/ Drain]_tapVars => TapInv'
  <2> SUFFICES ASSUME TapInv, [Push \/ DrainBegins \/ DrainSteps \/ Drain]_tapVars
               PROVE  TapInv'
    OBVIOUS
  <2>1. CASE Push
    BY <2>1, PushBeginsKeeps, ReadTailKeeps, EvictKeeps, StoreKeeps, PublishKeeps
    DEF Push
  <2>2. CASE DrainBegins \/ Drain
    BY <2>2, DrainBeginsKeeps, DrainKeeps
  <2>3. CASE DrainSteps
    BY <2>3, DrainReadsTailKeeps, DrainReadsHeadKeeps, DrainCopiesKeeps,
       DrainAgainKeeps
    DEF DrainSteps
  <2>4. CASE UNCHANGED tapVars
    BY <2>4 DEF tapVars, TapInv, TapTypes, Producer, Consumer, ProducerInv, SlotInv, ConsumerInv,
                HeardInv, HeardInOrder, Stored
  <2> QED
    BY <2>1, <2>2, <2>3, <2>4
<1> QED
  BY <1>1, <1>2, PTL DEF TapSpec

\* The thread hears frames in the order they were pushed, none twice and none
\* half overwritten, whatever the ring's size (audio_tap.rs, the concurrency
\* contract).
THEOREM TapHeardInOrder == ASSUME TapConstants PROVE TapSpec => []HeardInOrder
<1>1. TapInv => HeardInOrder
  BY DEF TapInv, HeardInv
<1> QED
  BY <1>1, TapInvariant, PTL

\* thread.rs, drain_tap: whatever a take does with its units and packets, it
\* moves the tap by whole steps of a push and a drain.
THEOREM TakeUsesTap == MCSpec => TapSpec
<1>1. MCInit => TapInit
  BY DEF MCInit, Init
<1>2. [MCNext]_<<part, vars, streamVars, readerVars, soundVars>>
        => [Push \/ DrainBegins \/ DrainSteps \/ Drain]_tapVars
  <2>. SUFFICES ASSUME [MCNext]_<<part, vars, streamVars, readerVars, soundVars>>
                PROVE  [Push \/ DrainBegins \/ DrainSteps \/ Drain]_tapVars
    OBVIOUS
  <2>1. CASE Next
    BY <2>1 DEF Next, PushEarly, PushVideo, Poll, Stop, Draining, PushAudio, Finish
  <2>2. CASE UNCHANGED vars
    BY <2>2 DEF vars
  <2>. QED  BY <2>1, <2>2 DEF MCNext
<1>. QED  BY <1>1, <1>2, PTL DEF MCSpec, TapSpec

\* A take hears frames in the order they were pushed, none twice and none half
\* overwritten (audio_tap.rs, the concurrency contract; thread.rs, drain_tap).
THEOREM TakeHearsInOrder == MCSpec => []HeardInOrder
<1>1. TapConstants
  BY WriterConstants
<1>. QED  BY <1>1, TakeUsesTap, TapHeardInOrder, PTL

-----------------------------------------------------------------------------
(* Sums and turns.  A recursive function is what its equation says, because *)
(* there is one that satisfies it; and what holds at the start and from one *)
(* number to the next holds of all, because no number is the first it fails *)
(* for.                                                                     *)

LEMMA LeastNatural ==
  ASSUME NEW T, T \subseteq Nat, T # {}
  PROVE  \E x \in T : \A y \in T : x =< y
<1>. DEFINE R == OpToRel(<, Nat)
<1>1. IsWellFoundedOn(R, Nat)
  BY NatLessThanWellFounded, Zenon
<1>2. \A x, y \in Nat : y < x => <<y, x>> \in R
  BY Zenon DEF OpToRel
<1>. HIDE DEF R
<1>3. PICK x \in T : \A y \in T : <<y, x>> \notin R
  BY <1>1, WFMin, Zenon
<1>4. ASSUME NEW y \in T PROVE x =< y
  <2>1. x \in Nat /\ y \in Nat
    BY Zenon
  <2>2. ~(y < x)
    BY <1>2, <1>3, <2>1, Zenon
  <2>. QED  BY <2>1, <2>2
<1>. QED  BY <1>4, Zenon

LEMMA OfAllNaturals ==
  ASSUME NEW S, 0 \in S, \A n \in Nat : n \in S => n + 1 \in S
  PROVE  \A n \in Nat : n \in S
<1>. DEFINE T == {n \in Nat : n \notin S}
<1>. SUFFICES ASSUME T # {} PROVE FALSE
  BY Zenon
<1>1. PICK x \in T : \A y \in T : x =< y
  BY LeastNatural, Zenon
<1>2. x \in Nat /\ x \notin S /\ x # 0
  BY Zenon
<1>3. x - 1 \in Nat /\ x - 1 + 1 = x /\ ~(x =< x - 1)
  BY <1>2
<1>4. x - 1 \in S
  BY <1>1, <1>3, Zenon
<1>. QED  BY <1>2, <1>3, <1>4, Zenon

\* The beginnings of g's course: n turns of step from w.
Courses(W, step, w, n) ==
  {h \in [0..n -> W] : h[0] = w /\ \A i \in 0..n - 1 : h[i + 1] = step[h[i]]}

LEMMA CourseGoesOn ==
  ASSUME NEW W, NEW step \in [W -> W], NEW w, NEW n \in Nat, NEW h \in Courses(W, step, w, n)
  PROVE  \E k : k \in Courses(W, step, w, n + 1)
<1>. DEFINE k == [i \in 0..n + 1 |-> IF i = n + 1 THEN step[h[n]] ELSE h[i]]
<1>1. /\ h \in [0..n -> W] /\ h[0] = w
      /\ \A i \in 0..n - 1 : h[i + 1] = step[h[i]]
  BY DEF Courses
<1>2. step[h[n]] \in W
  BY <1>1
<1>3. k \in [0..n + 1 -> W] /\ k[0] = w
  BY <1>1, <1>2
<1>4. \A i \in 0..(n + 1) - 1 : k[i + 1] = step[k[i]]
  BY <1>1
<1>. HIDE DEF k
<1>. QED  BY <1>3, <1>4 DEF Courses

LEMMA CoursesAgree ==
  ASSUME NEW W, NEW step \in [W -> W], NEW w
  PROVE  \A i \in Nat : \A m, n \in Nat : i =< m /\ i =< n =>
           \A h \in Courses(W, step, w, m), k \in Courses(W, step, w, n) : h[i] = k[i]
<1>. DEFINE S == {i \in Nat : \A m, n \in Nat : i =< m /\ i =< n =>
           \A h \in Courses(W, step, w, m), k \in Courses(W, step, w, n) : h[i] = k[i]}
<1>1. 0 \in S
  BY DEF Courses
<1>2. ASSUME NEW i \in Nat, i \in S PROVE i + 1 \in S
  <2>. SUFFICES ASSUME NEW m \in Nat, NEW n \in Nat, i + 1 =< m, i + 1 =< n,
                       NEW h \in Courses(W, step, w, m), NEW k \in Courses(W, step, w, n)
                PROVE  h[i + 1] = k[i + 1]
    OBVIOUS
  <2>1. i =< m /\ i =< n /\ i \in 0..m - 1 /\ i \in 0..n - 1
    OBVIOUS
  <2>2. h[i] = k[i]
    BY <1>2, <2>1
  <2>. QED  BY <2>1, <2>2 DEF Courses
<1>. HIDE DEF S
<1>3. \A i \in Nat : i \in S
  BY <1>1, <1>2, OfAllNaturals
<1>. QED  BY <1>3 DEF S

Course(g, step, w) == g[0] = w /\ \A n \in Nat : g[n + 1] = step[g[n]]

LEMMA Iterated ==
  ASSUME NEW W, NEW step \in [W -> W], NEW w \in W
  PROVE  \E g \in [Nat -> W] : Course(g, step, w)
<1>. DEFINE S == {n \in Nat : \E h : h \in Courses(W, step, w, n)}
            course[n \in Nat] == CHOOSE h : h \in Courses(W, step, w, n)
            g == [n \in Nat |-> course[n][n]]
<1>1. 0 \in S
  <2>. DEFINE h == [i \in 0..0 |-> w]
  <2>1. h \in Courses(W, step, w, 0)
    BY DEF Courses
  <2>. QED  BY <2>1
<1>2. ASSUME NEW n \in Nat, n \in S PROVE n + 1 \in S
  BY <1>2, CourseGoesOn
<1>3. \A n \in Nat : course[n] \in Courses(W, step, w, n)
  <2>. HIDE DEF S
  <2>1. \A n \in Nat : n \in S
    BY <1>1, <1>2, OfAllNaturals
  <2>. QED  BY <2>1, Zenon DEF S
<1>. HIDE DEF course, S
<1>4. \A n \in Nat : course[n] \in [0..n -> W] /\ course[n][0] = w
  BY <1>3 DEF Courses
<1>5. g \in [Nat -> W] /\ g[0] = w
  BY <1>4
<1>6. ASSUME NEW n \in Nat PROVE g[n + 1] = step[g[n]]
  <2>1. course[n + 1][n] = course[n][n]
    BY <1>3, CoursesAgree
  <2>2. course[n + 1][n + 1] = step[course[n + 1][n]]
    <3>1. course[n + 1] \in Courses(W, step, w, n + 1) /\ n \in 0..(n + 1) - 1
      BY <1>3
    <3>. QED  BY <3>1 DEF Courses
  <2>. QED  BY <2>1, <2>2
<1>. QED  BY <1>5, <1>6 DEF Course

-----------------------------------------------------------------------------
(* Cutting fragments.                                                      *)

Buffers == [video : Seq(Sample), audio : Nat, ticks : Nat, packets : Nat,
            fragments : Seq(Fragment)]

\* The turns of try_emit from w.
Turns(g, w, finishing) ==
  /\ g[0] = w /\ \A n \in Nat : g[n + 1] = EmitNext(g[n], finishing)
  /\ TryEmit(w, finishing) = g[Len(w.video) + w.audio]

\* A turn of try_emit stays in a set that each turn stays in.
LEMMA TurnsStay ==
  ASSUME NEW W, NEW w \in W, NEW finishing, \A x \in W : EmitNext(x, finishing) \in W
  PROVE  \E g \in [Nat -> W] : Turns(g, w, finishing)
<1>. DEFINE Turn(e) == [turns \in Nat |->
                          IF turns = 0 THEN w ELSE EmitNext(e[turns - 1], finishing)]
            emitted == CHOOSE e : e = Turn(e)
<1>1. PICK step \in [W -> W] : \A x \in W : step[x] = EmitNext(x, finishing)
  <2>. DEFINE f == [x \in W |-> EmitNext(x, finishing)]
  <2>1. f \in [W -> W] /\ \A x \in W : f[x] = EmitNext(x, finishing)
    OBVIOUS
  <2>. QED  BY <2>1, Zenon
<1>2. PICK g \in [Nat -> W] : Course(g, step, w)
  BY <1>1, Iterated
<1>3. g = Turn(g)
  <2>1. ASSUME NEW n \in Nat PROVE g[n] = IF n = 0 THEN w ELSE EmitNext(g[n - 1], finishing)
    <3>1. CASE n = 0
      BY <1>2, <3>1 DEF Course
    <3>2. CASE n # 0
      <4>1. n - 1 \in Nat /\ n - 1 + 1 = n
        BY <3>2
      <4>2. g[n] = step[g[n - 1]] /\ g[n - 1] \in W
        BY <1>2, <4>1 DEF Course
      <4>3. g[n] = EmitNext(g[n - 1], finishing)
        BY <1>1, <4>2, Zenon
      <4>. QED  BY <3>2, <4>3
    <3>. QED  BY <3>1, <3>2
  <2>. QED  BY <2>1
<1>4. emitted = Turn(emitted)
  <2>. HIDE DEF Turn
  <2>. QED  BY <1>3, Zenon
<1>. HIDE DEF emitted
<1>5. /\ emitted = [n \in Nat |-> emitted[n]] /\ emitted[0] = w
      /\ \A n \in Nat : emitted[n + 1] = EmitNext(emitted[n], finishing)
  <2>1. emitted = [n \in Nat |-> emitted[n]] /\ emitted[0] = w
    BY <1>4
  <2>2. ASSUME NEW n \in Nat PROVE emitted[n + 1] = EmitNext(emitted[n], finishing)
    <3>1. n + 1 \in Nat /\ n + 1 # 0 /\ n + 1 - 1 = n
      OBVIOUS
    <3>2. emitted[n + 1] = Turn(emitted)[n + 1]
      BY <1>4, Zenon
    <3>. QED  BY <3>1, <3>2
  <2>. QED  BY <2>1, <2>2
<1>6. \A n \in Nat : emitted[n] \in W
  <2>. DEFINE S == {n \in Nat : emitted[n] \in W}
  <2>1. 0 \in S
    BY <1>5
  <2>2. ASSUME NEW n \in Nat, n \in S PROVE n + 1 \in S
    BY <1>5, <2>2
  <2>. HIDE DEF S
  <2>3. \A n \in Nat : n \in S
    BY <2>1, <2>2, OfAllNaturals
  <2>. QED  BY <2>3 DEF S
<1>7. TryEmit(w, finishing) = emitted[Len(w.video) + w.audio]
  BY Zenon DEF TryEmit, emitted, Turn
<1>8. emitted \in [Nat -> W] /\ Turns(emitted, w, finishing)
  BY <1>5, <1>6, <1>7 DEF Turns
<1>. QED  BY <1>8, Zenon

LEMMA TheConstants ==
  /\ FragmentTicks \in Nat /\ FragmentTicks > 0 /\ PacketTicks \in Nat /\ PacketTicks > 0
  /\ MaxVideo \in Nat /\ MaxVideo > 0 /\ MaxAudio \in Nat /\ TailChunk \in Nat /\ TailChunk > 0
  /\ MaxPreIdr \in Nat /\ MaxUnit \in Nat /\ Priming \in Nat
  /\ Gap \subseteq Nat
<1>1. {FragmentTicks, PacketTicks, MaxPreIdr, MaxVideo, MaxAudio, TailChunk} \subseteq Nat \ {0}
  BY WriterConstants
<1>2. Gap \subseteq Nat \ {0} /\ MaxUnit \in Nat /\ Priming \in Nat
  BY WriterConstants
<1>. QED  BY <1>1, <1>2

LEMMA LesserOf ==
  ASSUME NEW a \in Int, NEW b \in Int
  PROVE  Min({a, b}) = IF a =< b THEN a ELSE b
  BY DEF Min

LEMMA GreaterOf ==
  ASSUME NEW a \in Int, NEW b \in Int
  PROVE  Max({a, b}) = IF a >= b THEN a ELSE b
  BY DEF Max

\* Each sample starts where the one before it ends.
Chained(s) == \A i \in 1..Len(s) - 1 : s[i + 1].start = s[i].start + s[i].duration

LEMMA PartOfChain ==
  ASSUME NEW s \in Seq(Sample), Chained(s), NEW a \in Nat, NEW b \in Nat, a >= 1, b =< Len(s)
  PROVE  /\ SubSeq(s, a, b) \in Seq(Sample) /\ Chained(SubSeq(s, a, b))
         /\ Len(SubSeq(s, a, b)) = IF a =< b THEN b - a + 1 ELSE 0
         /\ \A i \in 1..Len(SubSeq(s, a, b)) : SubSeq(s, a, b)[i] = s[a + i - 1]
<1>. DEFINE t == SubSeq(s, a, b)
<1>1. Len(s) \in Nat
  OBVIOUS
<1>2. /\ t \in Seq(Sample)
      /\ Len(t) = IF a =< b THEN b - a + 1 ELSE 0
      /\ \A i \in 1..Len(t) : t[i] = s[a + i - 1]
  BY <1>1, SubSeqProperties
<1>3. ASSUME NEW i \in 1..Len(t) - 1 PROVE t[i + 1].start = t[i].start + t[i].duration
  <2>1. /\ a + i - 1 \in 1..Len(s) - 1 /\ i \in 1..Len(t) /\ i + 1 \in 1..Len(t)
        /\ a + (i + 1) - 1 = (a + i - 1) + 1
    BY <1>1, <1>2
  <2>2. t[i] = s[a + i - 1] /\ t[i + 1] = s[(a + i - 1) + 1]
    BY <1>2, <2>1
  <2>. QED  BY <2>1, <2>2 DEF Chained
<1>. HIDE DEF t
<1>4. Chained(t)
  BY <1>3 DEF Chained
<1>. QED  BY <1>2, <1>4 DEF t

LEMMA StartOfChain ==
  ASSUME NEW s \in Seq(Sample), Chained(s), NEW m \in Nat, m =< Len(s)
  PROVE  /\ SubSeq(s, 1, m) \in Seq(Sample) /\ Chained(SubSeq(s, 1, m))
         /\ Len(SubSeq(s, 1, m)) = m
         /\ \A i \in 1..m : SubSeq(s, 1, m)[i] = s[i]
<1>1. 1 \in Nat /\ 1 >= 1 /\ \A i \in 1..m : 1 + i - 1 = i
  OBVIOUS
<1>2. Len(SubSeq(s, 1, m)) = IF 1 =< m THEN m - 1 + 1 ELSE 0
  BY <1>1, PartOfChain
<1>3. Len(SubSeq(s, 1, m)) = m
  BY <1>2
<1>4. SubSeq(s, 1, m) \in Seq(Sample) /\ Chained(SubSeq(s, 1, m))
  BY <1>1, PartOfChain
<1>5. \A i \in 1..m : SubSeq(s, 1, m)[i] = s[1 + i - 1]
  BY <1>1, <1>3, PartOfChain
<1>. QED  BY <1>1, <1>3, <1>4, <1>5, Zenon

LEMMA RestOfChain ==
  ASSUME NEW s \in Seq(Sample), Chained(s), NEW m \in Nat, m =< Len(s)
  PROVE  /\ SubSeq(s, m + 1, Len(s)) \in Seq(Sample) /\ Chained(SubSeq(s, m + 1, Len(s)))
         /\ Len(SubSeq(s, m + 1, Len(s))) = Len(s) - m
         /\ \A i \in 1..Len(s) - m : SubSeq(s, m + 1, Len(s))[i] = s[m + i]
<1>1. /\ m + 1 \in Nat /\ m + 1 >= 1 /\ Len(s) \in Nat /\ Len(s) =< Len(s)
      /\ \A i \in 1..Len(s) - m : m + 1 + i - 1 = m + i
  OBVIOUS
<1>2. Len(SubSeq(s, m + 1, Len(s))) = IF m + 1 =< Len(s) THEN Len(s) - (m + 1) + 1 ELSE 0
  BY <1>1, PartOfChain
<1>3. Len(SubSeq(s, m + 1, Len(s))) = Len(s) - m
  BY <1>1, <1>2
<1>4. SubSeq(s, m + 1, Len(s)) \in Seq(Sample) /\ Chained(SubSeq(s, m + 1, Len(s)))
  BY <1>1, PartOfChain
<1>5. \A i \in 1..Len(s) - m : SubSeq(s, m + 1, Len(s))[i] = s[m + 1 + i - 1]
  BY <1>1, <1>3, PartOfChain
<1>. QED  BY <1>1, <1>3, <1>4, <1>5, Zenon

\* What a chain spans lies between its first start and its end.
LEMMA SpanOfChain ==
  ASSUME NEW s \in Seq(Sample), Chained(s)
  PROVE  /\ Span(s) \in Nat
         /\ s = <<>> => Span(s) = 0
         /\ s # <<>> => Span(s) = s[Len(s)].start + s[Len(s)].duration - s[1].start
<1>. DEFINE Sums(t) == [i \in 0..Len(s) |-> IF i = 0 THEN 0 ELSE t[i - 1] + s[i].duration]
            upTo == CHOOSE t : t = Sums(t)
            c == [i \in 0..Len(s) |->
                    IF i = 0 THEN 0 ELSE s[i].start + s[i].duration - s[1].start]
<1>1. /\ Len(s) \in Nat
      /\ \A i \in 1..Len(s) : s[i].start \in Nat /\ s[i].duration \in Nat
  <2>1. Len(s) \in Nat /\ \A i \in 1..Len(s) : s[i] \in Sample
    OBVIOUS
  <2>. QED  BY <2>1 DEF Sample
<1>2. c = Sums(c)
  <2>1. ASSUME NEW i \in 0..Len(s)
        PROVE  c[i] = IF i = 0 THEN 0 ELSE c[i - 1] + s[i].duration
    <3>1. CASE i = 0
      BY <3>1
    <3>2. CASE i = 1
      <4>1. c[0] = 0 /\ 0 \in 0..Len(s) /\ 1 \in 1..Len(s)
        BY <1>1, <3>2
      <4>. QED  BY <1>1, <3>2, <4>1
    <3>3. CASE i > 1
      <4>1. i - 1 \in 1..Len(s) - 1 /\ i \in 1..Len(s) /\ i - 1 \in 1..Len(s) /\ i - 1 + 1 = i
        BY <1>1, <3>3
      <4>2. s[i].start = s[i - 1].start + s[i - 1].duration
        BY <4>1 DEF Chained
      <4>. QED  BY <1>1, <4>1, <4>2
    <3>. QED  BY <1>1, <3>1, <3>2, <3>3
  <2>. QED  BY <2>1
<1>3. upTo = Sums(upTo)
  <2>. HIDE DEF Sums
  <2>. QED  BY <1>2, Zenon
<1>4. Span(s) = upTo[Len(s)]
  BY Zenon DEF Span, upTo, Sums
<1>. HIDE DEF upTo
<1>5. \A i \in Nat : i =< Len(s) => upTo[i] = c[i] /\ upTo[i] \in Nat
  <2>. DEFINE S == {i \in Nat : i =< Len(s) => upTo[i] = c[i] /\ upTo[i] \in Nat}
  <2>1. 0 \in S
    BY <1>1, <1>3
  <2>2. ASSUME NEW i \in Nat, i \in S PROVE i + 1 \in S
    <3>. SUFFICES ASSUME i + 1 =< Len(s) PROVE upTo[i + 1] = c[i + 1] /\ upTo[i + 1] \in Nat
      OBVIOUS
    <3>1. i =< Len(s) /\ i + 1 \in 0..Len(s) /\ i + 1 # 0 /\ i + 1 - 1 = i /\ i + 1 \in 1..Len(s)
      BY <1>1
    <3>2. upTo[i] = c[i] /\ upTo[i] \in Nat
      BY <2>2, <3>1
    <3>3. upTo[i + 1] = upTo[i] + s[i + 1].duration
      BY <1>3, <3>1
    <3>4. c[i + 1] = c[i] + s[i + 1].duration
      <4>. HIDE DEF c
      <4>1. c[i + 1] = Sums(c)[i + 1]
        BY <1>2, Zenon
      <4>. QED  BY <3>1, <4>1
    <3>. HIDE DEF c
    <3>. QED  BY <1>1, <3>1, <3>2, <3>3, <3>4
  <2>. HIDE DEF S
  <2>3. \A i \in Nat : i \in S
    BY <2>1, <2>2, OfAllNaturals
  <2>. QED  BY <2>3 DEF S
<1>6. Span(s) = c[Len(s)] /\ Span(s) \in Nat
  BY <1>1, <1>4, <1>5
<1>. QED  BY <1>1, <1>6

LEMMA StartOfStart ==
  ASSUME NEW T, NEW v \in Seq(T), NEW l \in Nat, NEW m \in Nat, m =< l, l =< Len(v)
  PROVE  SubSeq(SubSeq(v, 1, l), 1, m) = SubSeq(v, 1, m)
<1>1. PICK u \in Seq(T) : u = SubSeq(v, 1, l) /\ Len(u) = l /\ \A i \in 1..l : u[i] = v[i]
  <2>1. /\ SubSeq(v, 1, l) \in Seq(T) /\ Len(SubSeq(v, 1, l)) = l
        /\ \A i \in 1..l : SubSeq(v, 1, l)[i] = v[1 + i - 1]
    BY SubSeqProperties
  <2>2. ASSUME NEW i \in 1..l PROVE SubSeq(v, 1, l)[i] = v[i]
    <3>1. 1 + i - 1 = i
      OBVIOUS
    <3>. QED  BY <2>1, <3>1, Zenon
  <2>. QED  BY <2>1, <2>2, Zenon
<1>2. /\ SubSeq(u, 1, m) \in Seq(T) /\ Len(SubSeq(u, 1, m)) = m
      /\ \A i \in 1..m : SubSeq(u, 1, m)[i] = u[i]
  BY <1>1, SubSeqProperties
<1>3. /\ SubSeq(v, 1, m) \in Seq(T) /\ Len(SubSeq(v, 1, m)) = m
      /\ \A i \in 1..m : SubSeq(v, 1, m)[i] = v[i]
  BY SubSeqProperties
<1>. QED  BY <1>1, <1>2, <1>3, SeqEqual

\* A window takes a beginning of the buffered video: while streaming never the last
\* unit, at the finish the first unless it starts past the window.
LEMMA WindowIs ==
  ASSUME NEW w \in Buffers, NEW finishing \in BOOLEAN
  PROVE  \E m \in Nat :
           /\ m =< Len(w.video) /\ Window(w, finishing) = SubSeq(w.video, 1, m)
           /\ ~finishing /\ w.video # <<>> => m < Len(w.video)
           /\ /\ finishing /\ w.video # <<>> /\ w.video[1].start < w.ticks + FragmentTicks
              => m >= 1
<1>. DEFINE fixed == IF finishing \/ w.video = <<>> THEN w.video ELSE Front(w.video)
            Starts(s) == s.start < w.ticks + FragmentTicks
            late == {i \in DOMAIN fixed : ~Starts(fixed[i])}
<1>1. PICK v \in Seq(Sample) : v = w.video /\ Len(v) \in Nat
  BY DEF Buffers
<1>2. PICK l \in Nat :
        /\ l =< Len(v) /\ fixed = SubSeq(v, 1, l) /\ DOMAIN fixed = 1..l
        /\ \A i \in 1..l : fixed[i] = v[i]
        /\ ~finishing /\ v # <<>> => l < Len(v)
        /\ finishing => l = Len(v)
  <2>1. CASE finishing \/ v = <<>>
    <3>1. v = SubSeq(v, 1, Len(v)) /\ DOMAIN v = 1..Len(v)
      BY <1>1
    <3>. QED  BY <1>1, <2>1, <3>1
  <2>2. CASE ~finishing /\ v # <<>>
    <3>1. Len(v) - 1 \in Nat
      BY <1>1, <2>2
    <3>2. fixed = SubSeq(v, 1, Len(v) - 1)
      BY <1>1, <2>2 DEF Front
    <3>3. /\ DOMAIN SubSeq(v, 1, Len(v) - 1) = 1..Len(v) - 1
          /\ \A i \in 1..Len(v) - 1 : SubSeq(v, 1, Len(v) - 1)[i] = v[i]
      BY <1>1, <3>1
    <3>. QED  BY <1>1, <2>2, <3>1, <3>2, <3>3
  <2>. QED  BY <2>1, <2>2
<1>3. Window(w, finishing) = IF late = {} THEN fixed ELSE SubSeq(fixed, 1, Min(late) - 1)
  BY Zenon DEF Window
<1>a. late = {i \in 1..l : ~(v[i].start < w.ticks + FragmentTicks)}
  BY <1>2
<1>. HIDE DEF fixed, late
<1>4. CASE late = {}
  <2>1. Window(w, finishing) = SubSeq(v, 1, l)
    BY <1>2, <1>3, <1>4, Zenon
  <2>2. finishing /\ v # <<>> => l >= 1
    BY <1>1, <1>2
  <2>. QED  BY <1>1, <1>2, <2>1, <2>2
<1>5. CASE late # {}
  <2>1. late \subseteq Nat /\ late \subseteq 1..l
    BY <1>a
  <2>2. \E x \in late : \A y \in late : x =< y
    BY <1>5, <2>1, LeastNatural
  <2>3. Min(late) \in late
    BY <2>2, Zenon DEF Min
  <2>4. PICK m \in Nat : m = Min(late) - 1 /\ m < l /\ Min(late) = m + 1 /\ m + 1 \in 1..l
    <3>1. PICK x \in 1..l : x = Min(late)
      BY <2>1, <2>3
    <3>2. x - 1 \in Nat /\ x - 1 < l /\ x = x - 1 + 1
      BY <1>2
    <3>. QED  BY <3>1, <3>2
  <2>5. SubSeq(fixed, 1, m) = SubSeq(v, 1, m)
    BY <1>1, <1>2, <2>4, StartOfStart
  <2>6. Window(w, finishing) = SubSeq(v, 1, m)
    BY <1>3, <1>5, <2>4, <2>5, Zenon
  <2>7. v[1].start < w.ticks + FragmentTicks => m >= 1
    <3>1. CASE m = 0
      <4>1. 1 \in late
        BY <2>3, <2>4, <3>1
      <4>. QED  BY <1>a, <4>1
    <3>2. CASE m # 0
      BY <2>4, <3>2
    <3>. QED  BY <3>1, <3>2
  <2>8. m =< Len(v) /\ (~finishing /\ v # <<>> => m < Len(v))
    BY <1>1, <1>2, <2>4
  <2>. QED  BY <1>1, <2>6, <2>7, <2>8
<1>. QED  BY <1>4, <1>5

\* The packets that join are there, reach the video's end if any joins past what is
\* written, and are not more than that takes.
LEMMA JoiningIs ==
  ASSUME NEW w \in Buffers, NEW end \in Nat
  PROVE  /\ Joining(w, end) \in Nat /\ Joining(w, end) =< w.audio
         /\ w.packets * PacketTicks < end + PacketTicks
              => (w.packets + Joining(w, end)) * PacketTicks < end + PacketTicks
<1>. DEFINE c == CeilDiv(end, PacketTicks)
            least == Min({w.audio, c - w.packets})
<1>0. w.audio \in Nat /\ w.packets \in Nat /\ PacketTicks \in Nat /\ PacketTicks > 0
  BY TheConstants DEF Buffers
<1>1. c \in Nat /\ c * PacketTicks < end + PacketTicks
  <2>1. PICK n \in Nat : n = end + PacketTicks - 1
    BY <1>0
  <2>2. PICK q : q = n \div PacketTicks
    OBVIOUS
  <2>3. q \in Nat /\ q * PacketTicks =< n
    BY <1>0, <2>2
  <2>4. c = q
    BY <2>1, <2>2 DEF CeilDiv
  <2>. QED  BY <1>0, <2>1, <2>3, <2>4
<1>. HIDE DEF c
<1>2. least = IF w.audio =< c - w.packets THEN w.audio ELSE c - w.packets
  BY <1>0, <1>1, LesserOf
<1>3. least \in Int
  BY <1>0, <1>1, <1>2
<1>4. Joining(w, end) = Max({0, least})
  BY Zenon DEF Joining, c
<1>. HIDE DEF least
<1>5. Joining(w, end) = IF 0 >= least THEN 0 ELSE least
  BY <1>3, <1>4, GreaterOf
<1>6. Joining(w, end) \in Nat /\ Joining(w, end) =< w.audio
  BY <1>0, <1>1, <1>2, <1>5
<1>7. CASE Joining(w, end) = 0
  BY <1>0, <1>7
<1>8. CASE Joining(w, end) # 0
  <2>1. w.packets + Joining(w, end) =< c
    BY <1>0, <1>1, <1>2, <1>5, <1>8
  <2>2. PICK k \in Nat : k = w.packets + Joining(w, end)
    BY <1>0, <1>6
  <2>3. k * PacketTicks =< c * PacketTicks
    BY <1>0, <1>1, <2>1, <2>2
  <2>. QED  BY <1>0, <1>1, <1>6, <2>2, <2>3
<1>. QED  BY <1>6, <1>7, <1>8

\* The i-th fragment begins in both tracks where the one before it ended, and if it was
\* written before the finish its audio reaches the video's end.
LinksOn(fs, i) ==
  /\ i = 1 => fs[i].at = 0 /\ fs[i].from = 0
  /\ i > 1 => /\ fs[i].at = fs[i - 1].at + fs[i - 1].ticks
              /\ fs[i].from = fs[i - 1].from + fs[i - 1].packets
  /\ ~fs[i].tail =>
       /\ fs[i].at + fs[i].ticks =< (fs[i].from + fs[i].packets) * PacketTicks
       /\ (fs[i].from + fs[i].packets) * PacketTicks < fs[i].at + fs[i].ticks + PacketTicks

LastEnds(fs, t, p) ==
  /\ fs = <<>> => t = 0 /\ p = 0
  /\ fs # <<>> => /\ t = fs[Len(fs)].at + fs[Len(fs)].ticks
                  /\ p = fs[Len(fs)].from + fs[Len(fs)].packets

\* What is buffered is a chain, and what is written links on up to what is next.
Fits(w) ==
  /\ w \in Buffers /\ Chained(w.video)
  /\ \A i \in 1..Len(w.fragments) : LinksOn(w.fragments, i)
  /\ LastEnds(w.fragments, w.ticks, w.packets)

LEMMA FragmentLinks ==
  ASSUME NEW fs \in Seq(Fragment), \A i \in 1..Len(fs) : LinksOn(fs, i),
         NEW t, NEW p, LastEnds(fs, t, p), NEW f \in Fragment, f.at = t, f.from = p,
         ~f.tail => /\ f.at + f.ticks =< (f.from + f.packets) * PacketTicks
                    /\ (f.from + f.packets) * PacketTicks < f.at + f.ticks + PacketTicks
  PROVE  /\ Append(fs, f) \in Seq(Fragment)
         /\ \A i \in 1..Len(Append(fs, f)) : LinksOn(Append(fs, f), i)
         /\ LastEnds(Append(fs, f), f.at + f.ticks, f.from + f.packets)
<1>1. PICK gs \in Seq(Fragment) :
        /\ gs = Append(fs, f) /\ Len(gs) = Len(fs) + 1 /\ gs[Len(fs) + 1] = f
        /\ \A i \in 1..Len(fs) : gs[i] = fs[i]
  <2>. DEFINE gs == Append(fs, f)
  <2>1. gs \in Seq(Fragment) /\ Len(gs) = Len(fs) + 1 /\ gs[Len(fs) + 1] = f
    OBVIOUS
  <2>2. \A i \in 1..Len(fs) : gs[i] = fs[i]
    OBVIOUS
  <2>. QED  BY <2>1, <2>2, Zenon
<1>2. Len(fs) \in Nat
  OBVIOUS
<1>3. ASSUME NEW i \in 1..Len(gs) PROVE LinksOn(gs, i)
  <2>1. CASE i =< Len(fs)
    <3>1. gs[i] = fs[i] /\ (i > 1 => gs[i - 1] = fs[i - 1]) /\ LinksOn(fs, i)
      BY <1>1, <1>2, <2>1
    <3>. QED  BY <3>1 DEF LinksOn
  <2>2. CASE i = Len(fs) + 1
    <3>1. gs[i] = f
      BY <1>1, <2>2
    <3>2. CASE fs = <<>>
      <4>1. i = 1 /\ f.at = 0 /\ f.from = 0
        BY <2>2, <3>2 DEF LastEnds
      <4>. QED  BY <3>1, <4>1 DEF LinksOn
    <3>3. CASE fs # <<>>
      <4>1. Len(fs) \in 1..Len(fs) /\ i - 1 = Len(fs) /\ i > 1
        BY <1>2, <2>2, <3>3
      <4>2. gs[i - 1] = fs[Len(fs)]
        BY <1>1, <4>1
      <4>3. f.at = gs[i - 1].at + gs[i - 1].ticks /\ f.from = gs[i - 1].from + gs[i - 1].packets
        BY <3>3, <4>2 DEF LastEnds
      <4>. QED  BY <3>1, <4>1, <4>3 DEF LinksOn
    <3>. QED  BY <3>2, <3>3
  <2>. QED  BY <1>1, <1>2, <2>1, <2>2
<1>4. LastEnds(gs, f.at + f.ticks, f.from + f.packets)
  <2>1. gs # <<>> /\ gs[Len(gs)] = f
    BY <1>1, <1>2
  <2>. QED  BY <2>1 DEF LastEnds
<1>. QED  BY <1>1, <1>3, <1>4

\* Until the finish, n packets more reach the video's end by less than a packet.
Reaches(w, n, finishing, end) ==
  ~finishing => /\ end =< (w.packets + n) * PacketTicks
                /\ (w.packets + n) * PacketTicks < end + PacketTicks

\* x is w after a fragment of m units and n packets.
Took(w, x, m, n, end) ==
  /\ Fits(x) /\ x.video = SubSeq(w.video, m + 1, Len(w.video))
  /\ x.audio = w.audio - n /\ x.ticks = end /\ x.packets = w.packets + n

LEMMA WrittenFits ==
  ASSUME NEW w, Fits(w), NEW m \in Nat, m =< Len(w.video), NEW n \in Nat, n =< w.audio,
         NEW finishing \in BOOLEAN, NEW end, end = w.ticks + Span(SubSeq(w.video, 1, m)),
         Reaches(w, n, finishing, end),
         NEW x, x = Written(w, SubSeq(w.video, 1, m), n, finishing)
  PROVE  Took(w, x, m, n, end)
<1>1. PICK v \in Seq(Sample), fs \in Seq(Fragment) :
        /\ v = w.video /\ fs = w.fragments /\ Chained(v) /\ Len(v) \in Nat
        /\ w.audio \in Nat /\ w.ticks \in Nat /\ w.packets \in Nat
        /\ \A i \in 1..Len(fs) : LinksOn(fs, i)
        /\ LastEnds(fs, w.ticks, w.packets)
        /\ w \in Buffers
  BY DEF Fits, Buffers
<1>2. PICK s \in Seq(Sample) : s = SubSeq(v, 1, m) /\ Chained(s) /\ Len(s) = m
  BY <1>1, StartOfChain, Zenon
<1>3. Span(s) \in Nat /\ end \in Nat
  <2>1. Span(s) \in Nat
    BY <1>2, SpanOfChain, Zenon
  <2>2. end = w.ticks + Span(s)
    BY <1>1, <1>2, Zenon
  <2>. QED  BY <1>1, <2>1, <2>2
<1>4. PICK u \in Seq(Sample) : u = SubSeq(v, m + 1, Len(v)) /\ Chained(u)
  BY <1>1, RestOfChain, Zenon
<1>5. PICK f \in Fragment :
        f = [at |-> w.ticks, ticks |-> Span(s), from |-> w.packets, packets |-> n,
             tail |-> finishing]
  BY <1>1, <1>3 DEF Fragment
<1>6. x = [w EXCEPT !.video = SubSeq(@, Len(s) + 1, Len(@)), !.audio = @ - n,
                    !.ticks = @ + Span(s), !.packets = @ + n,
                    !.fragments = Append(@, f)]
  BY <1>1, <1>2, <1>5, Zenon DEF Written
<1>7. /\ x.video = u /\ x.audio = w.audio - n /\ x.ticks = end /\ x.packets = w.packets + n
      /\ x.fragments = Append(fs, f)
      /\ x = [video |-> u, audio |-> w.audio - n, ticks |-> end, packets |-> w.packets + n,
              fragments |-> Append(fs, f)]
  BY <1>1, <1>2, <1>4, <1>6 DEF Buffers
<1>8. ~f.tail => /\ f.at + f.ticks =< (f.from + f.packets) * PacketTicks
                 /\ (f.from + f.packets) * PacketTicks < f.at + f.ticks + PacketTicks
  BY <1>1, <1>2, <1>5 DEF Reaches
<1>9. /\ f.at = w.ticks /\ f.from = w.packets
      /\ f.at + f.ticks = end /\ f.from + f.packets = w.packets + n
  BY <1>1, <1>2, <1>5
<1>10. /\ Append(fs, f) \in Seq(Fragment)
       /\ \A i \in 1..Len(Append(fs, f)) : LinksOn(Append(fs, f), i)
       /\ LastEnds(Append(fs, f), end, w.packets + n)
  <2>1. /\ Append(fs, f) \in Seq(Fragment)
        /\ \A i \in 1..Len(Append(fs, f)) : LinksOn(Append(fs, f), i)
        /\ LastEnds(Append(fs, f), f.at + f.ticks, f.from + f.packets)
    BY <1>1, <1>8, <1>9, FragmentLinks
  <2>. QED  BY <1>9, <2>1
<1>11. x \in Buffers
  <2>1. w.audio - n \in Nat /\ w.packets + n \in Nat
    BY <1>1
  <2>. QED  BY <1>3, <1>7, <1>10, <2>1, Zenon DEF Buffers
<1>12. Fits(x)
  BY <1>4, <1>7, <1>10, <1>11 DEF Fits
<1>. QED  BY <1>1, <1>4, <1>7, <1>12 DEF Took

LEMMA SpanOfStart ==
  ASSUME NEW v \in Seq(Sample), Chained(v), NEW m \in Nat, 1 =< m, m =< Len(v)
  PROVE  /\ v[1].start \in Nat /\ v[m].start \in Nat /\ v[m].duration \in Nat
         /\ Span(SubSeq(v, 1, m)) = v[m].start + v[m].duration - v[1].start
         /\ m < Len(v) => Span(SubSeq(v, 1, m)) = v[m + 1].start - v[1].start
<1>1. PICK s \in Seq(Sample) :
        s = SubSeq(v, 1, m) /\ Chained(s) /\ Len(s) = m /\ \A i \in 1..m : s[i] = v[i]
  BY StartOfChain, Zenon
<1>2. s # <<>> /\ s[1] = v[1] /\ s[m] = v[m]
  BY <1>1
<1>3. Span(s) = s[m].start + s[m].duration - s[1].start
  BY <1>1, <1>2, SpanOfChain
<1>4. v[1].start \in Nat /\ v[m].start \in Nat /\ v[m].duration \in Nat
  <2>1. v[1] \in Sample /\ v[m] \in Sample
    OBVIOUS
  <2>. QED  BY <2>1 DEF Sample
<1>5. m < Len(v) => v[m + 1].start = v[m].start + v[m].duration
  <2>1. m < Len(v) => m \in 1..Len(v) - 1
    OBVIOUS
  <2>. QED  BY <2>1 DEF Chained
<1>6. Span(s) = v[m].start + v[m].duration - v[1].start
  BY <1>2, <1>3, Zenon
<1>7. ASSUME m < Len(v) PROVE Span(s) = v[m + 1].start - v[1].start
  <2>1. v[m].start + v[m].duration = v[m + 1].start
    BY <1>5, <1>7, Zenon
  <2>. QED  BY <1>4, <1>6, <2>1
<1>. QED  BY <1>1, <1>4, <1>6, <1>7, Zenon

InTime(w) == w.packets * PacketTicks < w.ticks + PacketTicks

\* x is w after a fragment of the first m units.
TookUnits(w, x, m) ==
  /\ m =< Len(w.video) /\ Fits(x) /\ x.audio =< w.audio
  /\ x.video = SubSeq(w.video, m + 1, Len(w.video))
  /\ x.ticks = w.ticks + Span(SubSeq(w.video, 1, m))

LEMMA AStreamingTurn ==
  ASSUME NEW w, Fits(w), InTime(w), NEW x, x = EmitNext(w, FALSE)
  PROVE  \/ x = w
         \/ \E m \in Nat : 1 =< m /\ m < Len(w.video) /\ TookUnits(w, x, m) /\ InTime(x)
<1>1. PICK v \in Seq(Sample) :
        /\ v = w.video /\ Chained(v) /\ Len(v) \in Nat /\ w \in Buffers
        /\ w.ticks \in Nat /\ w.packets \in Nat /\ w.audio \in Nat
  BY DEF Fits, Buffers
<1>2. PICK m \in Nat :
        /\ m =< Len(v) /\ Window(w, FALSE) = SubSeq(v, 1, m)
        /\ v # <<>> => m < Len(v)
  BY <1>1, WindowIs, Zenon
<1>3. PICK s : s = SubSeq(v, 1, m) /\ Window(w, FALSE) = s /\ Chained(s) /\ s \in Seq(Sample)
                  /\ Len(s) = m
  BY <1>1, <1>2, StartOfChain, Zenon
<1>4. PICK end \in Nat : end = w.ticks + Span(s)
  <2>1. Span(s) \in Nat
    BY <1>3, SpanOfChain, Zenon
  <2>. QED  BY <1>1, <2>1
<1>5. PICK n \in Nat :
        /\ n = Joining(w, end) /\ n =< w.audio
        /\ w.packets * PacketTicks < end + PacketTicks
              => (w.packets + n) * PacketTicks < end + PacketTicks
  BY <1>1, <1>4, JoiningIs, Zenon
<1>6. x = IF s # <<>> /\ end >= w.ticks + FragmentTicks
               /\ (w.packets + n) * PacketTicks >= end
          THEN Written(w, s, n, FALSE) ELSE w
  BY <1>3, <1>4, <1>5, Zenon DEF EmitNext
<1>7. CASE s # <<>> /\ end >= w.ticks + FragmentTicks /\ (w.packets + n) * PacketTicks >= end
  <2>1. PICK p \in Nat : p = (w.packets + n) * PacketTicks
    BY <1>1, TheConstants
  <2>2. PICK q \in Nat : q = w.packets * PacketTicks
    BY <1>1, TheConstants
  <2>3. end >= w.ticks /\ m >= 1
    BY <1>1, <1>3, <1>4, <1>7, TheConstants
  <2>4. q < w.ticks + PacketTicks
    BY <2>2, Zenon DEF InTime
  <2>5. end =< p /\ p < end + PacketTicks
    <3>1. q < end + PacketTicks
      BY <1>1, <2>3, <2>4, TheConstants
    <3>2. p < end + PacketTicks
      BY <1>5, <2>1, <2>2, <3>1, Zenon
    <3>. QED  BY <1>7, <2>1, <3>2
  <2>6. x = Written(w, SubSeq(w.video, 1, m), n, FALSE)
    BY <1>1, <1>3, <1>6, <1>7, Zenon
  <2>7. end = w.ticks + Span(SubSeq(w.video, 1, m))
    BY <1>1, <1>3, <1>4, Zenon
  <2>8. /\ Fits(x) /\ x.video = SubSeq(w.video, m + 1, Len(w.video))
        /\ x.audio = w.audio - n /\ x.ticks = end /\ x.packets = w.packets + n
    <3>1. PICK b \in BOOLEAN : b = FALSE
      OBVIOUS
    <3>2. m =< Len(w.video) /\ m \in Nat /\ n \in Nat /\ n =< w.audio
      BY <1>1, <1>2, <1>5
    <3>3. Reaches(w, n, b, end)
      BY <2>1, <2>5, Zenon DEF Reaches
    <3>4. x = Written(w, SubSeq(w.video, 1, m), n, b)
      BY <2>6, <3>1
    <3>5. Took(w, x, m, n, end)
      BY <2>7, <3>2, <3>3, <3>4, WrittenFits, Zenon
    <3>. QED  BY <3>5, Zenon DEF Took
  <2>9. x.audio =< w.audio
    <3>1. \A a, b \in Nat : a - b =< a
      OBVIOUS
    <3>. QED  BY <1>1, <2>8, <3>1, Zenon
  <2>10. InTime(x)
    BY <2>1, <2>5, <2>8, Zenon DEF InTime
  <2>11. v # <<>>
    BY <1>1, <1>2, <2>3
  <2>12. m < Len(w.video) /\ m =< Len(w.video)
    BY <1>1, <1>2, <2>11
  <2>. QED  BY <2>3, <2>7, <2>8, <2>9, <2>10, <2>12, Zenon DEF TookUnits
<1>. QED  BY <1>6, <1>7

\* What is left to write: each turn at the finish that writes makes it less.
Left(w) == Len(w.video) + w.audio

LEMMA AFinishingTurn ==
  ASSUME NEW w, Fits(w), NEW x, x = EmitNext(w, TRUE)
  PROVE  \/ /\ x = w /\ w.audio = 0
            /\ w.video # <<>> => ~(w.video[1].start < w.ticks + FragmentTicks)
         \/ Left(x) < Left(w) /\ \E m \in Nat : TookUnits(w, x, m)
<1>1. PICK v \in Seq(Sample) :
        /\ v = w.video /\ Chained(v) /\ Len(v) \in Nat /\ w \in Buffers
        /\ w.ticks \in Nat /\ w.packets \in Nat /\ w.audio \in Nat
  BY DEF Fits, Buffers
<1>2. PICK m \in Nat :
        /\ m =< Len(v) /\ Window(w, TRUE) = SubSeq(v, 1, m)
        /\ v # <<>> /\ v[1].start < w.ticks + FragmentTicks => m >= 1
  BY <1>1, WindowIs, Zenon
<1>3. PICK s : s = SubSeq(v, 1, m) /\ Window(w, TRUE) = s /\ Chained(s) /\ s \in Seq(Sample)
                  /\ Len(s) = m
  BY <1>1, <1>2, StartOfChain, Zenon
<1>4. PICK end \in Nat : end = w.ticks + Span(s)
  <2>1. Span(s) \in Nat
    BY <1>3, SpanOfChain, Zenon
  <2>. QED  BY <1>1, <2>1
<1>5. PICK n \in Nat : n = Joining(w, end) /\ n =< w.audio
  BY <1>1, <1>4, JoiningIs, Zenon
<1>6. x = IF s # <<>> THEN Written(w, s, n, TRUE)
          ELSE IF w.audio > 0 THEN Written(w, <<>>, Min({w.audio, TailChunk}), TRUE) ELSE w
  BY <1>3, <1>4, <1>5, Zenon DEF EmitNext
<1>7. ASSUME NEW k \in Nat, k =< Len(v), NEW j \in Nat, j =< w.audio, k + j > 0,
             x = Written(w, SubSeq(w.video, 1, k), j, TRUE)
      PROVE  Left(x) < Left(w) /\ \E i \in Nat : TookUnits(w, x, i)
  <2>1. PICK e : e = w.ticks + Span(SubSeq(w.video, 1, k))
    OBVIOUS
  <2>2. /\ Fits(x) /\ x.video = SubSeq(w.video, k + 1, Len(w.video))
        /\ x.audio = w.audio - j /\ x.ticks = e
    <3>1. PICK b \in BOOLEAN : b = TRUE
      OBVIOUS
    <3>2. Reaches(w, j, b, e)
      BY <3>1, Zenon DEF Reaches
    <3>3. k =< Len(w.video)
      BY <1>1, <1>7
    <3>4. x = Written(w, SubSeq(w.video, 1, k), j, b)
      BY <1>7, <3>1
    <3>5. Took(w, x, k, j, e)
      BY <1>7, <2>1, <3>2, <3>3, <3>4, WrittenFits, Zenon
    <3>. QED  BY <3>5, Zenon DEF Took
  <2>3. x.audio =< w.audio
    <3>1. \A a, b \in Nat : a - b =< a
      OBVIOUS
    <3>. QED  BY <1>1, <1>7, <2>2, <3>1, Zenon
  <2>4. Len(x.video) = Len(v) - k
    <3>1. Len(SubSeq(v, k + 1, Len(v))) = Len(v) - k
      BY <1>1, <1>7, RestOfChain
    <3>. QED  BY <1>1, <2>2, <3>1
  <2>5. Left(x) < Left(w)
    <3>1. Left(x) = (Len(v) - k) + (w.audio - j) /\ Left(w) = Len(v) + w.audio
      BY <1>1, <2>2, <2>4, Zenon DEF Left
    <3>2. (Len(v) - k) + (w.audio - j) < Len(v) + w.audio
      BY <1>1, <1>7
    <3>. QED  BY <3>1, <3>2
  <2>6. TookUnits(w, x, k)
    <3>1. k =< Len(w.video)
      BY <1>1, <1>7
    <3>. QED  BY <2>1, <2>2, <2>3, <3>1, Zenon DEF TookUnits
  <2>. QED  BY <2>5, <2>6
<1>8. CASE s # <<>>
  <2>1. m + n > 0
    BY <1>3, <1>8
  <2>2. x = Written(w, SubSeq(w.video, 1, m), n, TRUE)
    BY <1>1, <1>3, <1>6, <1>8, Zenon
  <2>3. Left(x) < Left(w) /\ \E i \in Nat : TookUnits(w, x, i)
    BY <1>2, <1>5, <1>7, <2>1, <2>2
  <2>. QED  BY <2>3, Zenon
<1>9. CASE s = <<>> /\ w.audio > 0
  <2>1. PICK j \in Nat : j = Min({w.audio, TailChunk}) /\ j =< w.audio /\ j > 0
    <3>1. Min({w.audio, TailChunk}) = IF w.audio =< TailChunk THEN w.audio ELSE TailChunk
      BY <1>1, TheConstants, LesserOf
    <3>. QED  BY <1>1, <1>9, <3>1, TheConstants
  <2>2. SubSeq(w.video, 1, 0) = <<>>
    BY <1>1
  <2>3. x = Written(w, SubSeq(w.video, 1, 0), j, TRUE)
    BY <1>6, <1>9, <2>1, <2>2, Zenon
  <2>4. Left(x) < Left(w) /\ \E i \in Nat : TookUnits(w, x, i)
    <3>1. 0 \in Nat /\ 0 =< Len(v) /\ 0 + j > 0
      BY <1>1, <2>1
    <3>. QED  BY <1>7, <2>1, <2>3, <3>1
  <2>. QED  BY <2>4, Zenon
<1>10. CASE s = <<>> /\ ~(w.audio > 0)
  <2>1. x = w
    BY <1>6, <1>10, Zenon
  <2>a. w.audio = 0 /\ m = 0
    BY <1>1, <1>3, <1>10
  <2>2. v # <<>> => ~(v[1].start < w.ticks + FragmentTicks)
    BY <1>2, <2>a
  <2>. QED  BY <1>1, <2>1, <2>2, <2>a, Zenon
<1>. QED  BY <1>8, <1>9, <1>10

HasHeader(ph) == ph \in {"open", "stopping"}

\* The writer's record while it is given units, the newest at p: it holds that one, and
\* while none was shed what is written ends where the oldest it holds starts.
Streaming(p, ph, shed) ==
  {w \in Buffers :
     /\ Fits(w) /\ InTime(w)
     /\ HasHeader(ph) =>
          /\ w.video # <<>> /\ w.video[Len(w.video)].start = p
          /\ shed = 0 => w.video[1].start = w.ticks
     /\ ~HasHeader(ph) => w.video = <<>> /\ w.ticks = 0}

\* The writer's record at the finish.
Finishing(p, shed) ==
  {w \in Buffers :
     /\ Fits(w)
     /\ shed = 0 /\ w.video = <<>> => w.ticks >= p
     /\ shed = 0 /\ w.video # <<>> => /\ w.video[1].start = w.ticks
                                   /\ w.video[Len(w.video)].start = p}

LEMMA TookFromChain ==
  ASSUME NEW w, Fits(w), NEW x, NEW m \in Nat, 1 =< m, TookUnits(w, x, m)
  PROVE  /\ x \in Buffers /\ Fits(x) /\ Len(x.video) = Len(w.video) - m
         /\ w.video[1].start = w.ticks /\ m < Len(w.video) =>
              x.video # <<>> /\ x.video[1].start = x.ticks
         /\ m < Len(w.video) =>
              x.video # <<>> /\ x.video[Len(x.video)].start = w.video[Len(w.video)].start
         /\ w.video[1].start = w.ticks /\ m = Len(w.video) =>
              x.video = <<>> /\ x.ticks >= w.video[Len(w.video)].start
<1>1. PICK v \in Seq(Sample) :
        /\ v = w.video /\ Chained(v) /\ Len(v) \in Nat /\ w.ticks \in Nat
        /\ m =< Len(v) /\ Fits(x) /\ x \in Buffers
        /\ x.video = SubSeq(v, m + 1, Len(v)) /\ x.ticks = w.ticks + Span(SubSeq(v, 1, m))
  BY DEF Fits, Buffers, TookUnits
<1>2. PICK u \in Seq(Sample) :
        u = SubSeq(v, m + 1, Len(v)) /\ Len(u) = Len(v) - m
          /\ \A i \in 1..Len(v) - m : u[i] = v[m + i]
  BY <1>1, RestOfChain, Zenon
<1>3. /\ v[1].start \in Nat /\ v[m].start \in Nat /\ v[m].duration \in Nat
      /\ Span(SubSeq(v, 1, m)) = v[m].start + v[m].duration - v[1].start
      /\ m < Len(v) => Span(SubSeq(v, 1, m)) = v[m + 1].start - v[1].start
  BY <1>1, SpanOfStart
<1>4. CASE m < Len(v)
  <2>1. 1 \in 1..Len(v) - m /\ Len(v) - m \in 1..Len(v) - m /\ m + (Len(v) - m) = Len(v)
    BY <1>1, <1>4
  <2>2. u # <<>> /\ u[1] = v[m + 1] /\ u[Len(u)] = v[Len(v)]
    <3>1. u[1] = v[m + 1]
      BY <1>2, <2>1, Zenon
    <3>2. u[Len(u)] = v[Len(v)]
      <4>1. PICK k \in 1..Len(v) - m : k = Len(v) - m /\ Len(u) = k /\ m + k = Len(v)
        BY <1>2, <2>1
      <4>2. u[k] = v[m + k]
        BY <1>2, Zenon
      <4>. QED  BY <4>1, <4>2
    <3>3. u # <<>>
      <4>1. Len(u) > 0
        BY <1>1, <1>2, <1>4
      <4>. QED  BY <4>1
    <3>. QED  BY <3>1, <3>2, <3>3
  <2>3. v[m + 1].start \in Nat
    <3>1. m + 1 \in 1..Len(v)
      BY <1>1, <1>4
    <3>2. v[m + 1] \in Sample
      BY <3>1
    <3>. QED  BY <3>2 DEF Sample
  <2>4. ASSUME v[1].start = w.ticks PROVE x.ticks = v[m + 1].start
    <3>1. x.ticks = w.ticks + (v[m + 1].start - w.ticks)
      BY <1>1, <1>3, <1>4, <2>4, Zenon
    <3>2. \A a, c \in Nat : a + (c - a) = c
      OBVIOUS
    <3>. QED  BY <1>1, <2>3, <3>1, <3>2, Zenon
  <2>5. ~(m = Len(v))
    BY <1>4
  <2>. QED  BY <1>1, <1>2, <2>2, <2>4, <2>5, Zenon
<1>5. CASE m = Len(v)
  <2>1. u = <<>> /\ ~(m < Len(v))
    BY <1>1, <1>2, <1>5
  <2>2. ASSUME v[1].start = w.ticks PROVE x.ticks >= v[m].start
    <3>1. x.ticks = w.ticks + (v[m].start + v[m].duration - w.ticks)
      BY <1>1, <1>3, <2>2, Zenon
    <3>2. \A a, c, d \in Nat : a + (c + d - a) >= c
      OBVIOUS
    <3>. QED  BY <1>1, <1>3, <3>1, <3>2, Zenon
  <2>. QED  BY <1>1, <1>2, <1>5, <2>1, <2>2, Zenon
<1>6. m < Len(v) \/ m = Len(v)
  BY <1>1
<1>. QED  BY <1>4, <1>5, <1>6, Zenon

LEMMA StreamingTurn ==
  ASSUME NEW p, NEW ph, NEW shed, NEW w \in Streaming(p, ph, shed)
  PROVE  EmitNext(w, FALSE) \in Streaming(p, ph, shed)
<1>1. /\ w \in Buffers /\ Fits(w) /\ InTime(w)
      /\ HasHeader(ph) =>
           /\ w.video # <<>> /\ w.video[Len(w.video)].start = p
           /\ shed = 0 => w.video[1].start = w.ticks
      /\ ~HasHeader(ph) => w.video = <<>> /\ w.ticks = 0
  BY Zenon DEF Streaming
<1>2. PICK x : x = EmitNext(w, FALSE)
  OBVIOUS
<1>3. CASE x = w
  BY <1>2, <1>3, Zenon
<1>4. CASE \E m \in Nat : 1 =< m /\ m < Len(w.video) /\ TookUnits(w, x, m) /\ InTime(x)
  <2>1. PICK m \in Nat : 1 =< m /\ m < Len(w.video) /\ TookUnits(w, x, m) /\ InTime(x)
    BY <1>4
  <2>2. HasHeader(ph)
    <3>1. w.video # <<>>
      BY <2>1
    <3>. QED  BY <1>1, <3>1, Zenon
  <2>3. /\ x \in Buffers /\ Fits(x) /\ x.video # <<>>
        /\ x.video[Len(x.video)].start = w.video[Len(w.video)].start
        /\ w.video[1].start = w.ticks => x.video[1].start = x.ticks
    BY <1>1, <2>1, TookFromChain
  <2>4. x \in Streaming(p, ph, shed)
    BY <1>1, <2>1, <2>2, <2>3, Zenon DEF Streaming
  <2>. QED  BY <1>2, <2>4, Zenon
<1>. QED  BY <1>1, <1>2, <1>3, <1>4, AStreamingTurn, Zenon

LEMMA FinishingTurn ==
  ASSUME NEW p, NEW shed, NEW w \in Finishing(p, shed)
  PROVE  /\ EmitNext(w, TRUE) \in Finishing(p, shed)
         /\ \/ EmitNext(w, TRUE) = w /\ w.audio = 0 /\ (shed = 0 => w.video = <<>>)
            \/ Left(EmitNext(w, TRUE)) < Left(w)
<1>1. /\ w \in Buffers /\ Fits(w)
      /\ shed = 0 /\ w.video = <<>> => w.ticks >= p
      /\ shed = 0 /\ w.video # <<>> => /\ w.video[1].start = w.ticks
                                    /\ w.video[Len(w.video)].start = p
  BY Zenon DEF Finishing
<1>2. PICK x : x = EmitNext(w, TRUE)
  OBVIOUS
<1>3. CASE /\ x = w /\ w.audio = 0
           /\ w.video # <<>> => ~(w.video[1].start < w.ticks + FragmentTicks)
  <2>1. ASSUME shed = 0, w.video # <<>> PROVE FALSE
    <3>1. w.ticks < w.ticks + FragmentTicks
      BY <1>1, TheConstants DEF Buffers
    <3>. QED  BY <1>1, <1>3, <2>1, <3>1, Zenon
  <2>. QED  BY <1>2, <1>3, <2>1, Zenon
<1>4. CASE Left(x) < Left(w) /\ \E m \in Nat : TookUnits(w, x, m)
  <2>1. PICK m \in Nat : TookUnits(w, x, m)
    BY <1>4
  <2>2. x \in Finishing(p, shed)
    <3>1. Len(w.video) \in Nat /\ m =< Len(w.video) /\ w.video \in Seq(Sample)
      BY <1>1, <2>1 DEF Buffers, TookUnits
    <3>2. CASE m = 0
      <4>1. SubSeq(w.video, 1, m) = <<>> /\ SubSeq(w.video, m + 1, Len(w.video)) = w.video
        BY <3>1, <3>2
      <4>2. Span(SubSeq(w.video, 1, m)) = 0
        <5>1. Chained(SubSeq(w.video, 1, m)) /\ SubSeq(w.video, 1, m) \in Seq(Sample)
          BY <1>1, <3>1, StartOfChain, Zenon DEF Fits
        <5>. QED  BY <4>1, <5>1, SpanOfChain, Zenon
      <4>3. x.video = w.video /\ x.ticks = w.ticks + 0 /\ Fits(x) /\ x \in Buffers
        BY <2>1, <4>1, <4>2, Zenon DEF TookUnits, Fits
      <4>4. x.ticks = w.ticks
        BY <1>1, <4>3 DEF Buffers
      <4>. QED  BY <1>1, <4>3, <4>4, Zenon DEF Finishing
    <3>3. CASE m # 0
      <4>1. 1 =< m /\ (m < Len(w.video) \/ m = Len(w.video)) /\ w.video # <<>>
        BY <3>1, <3>3
      <4>2. /\ x \in Buffers /\ Fits(x)
            /\ w.video[1].start = w.ticks /\ m < Len(w.video) =>
                 x.video # <<>> /\ x.video[1].start = x.ticks
            /\ m < Len(w.video) =>
                 x.video # <<>> /\ x.video[Len(x.video)].start = w.video[Len(w.video)].start
            /\ w.video[1].start = w.ticks /\ m = Len(w.video) =>
                 x.video = <<>> /\ x.ticks >= w.video[Len(w.video)].start
        BY <1>1, <2>1, <4>1, TookFromChain, Zenon
      <4>. QED  BY <1>1, <4>1, <4>2, Zenon DEF Finishing
    <3>. QED  BY <3>2, <3>3
  <2>. QED  BY <1>2, <1>4, <2>2, Zenon
<1>. QED  BY <1>1, <1>2, <1>3, <1>4, AFinishingTurn, Zenon

LEMMA StreamingStays ==
  ASSUME NEW p, NEW ph, NEW shed, NEW w \in Streaming(p, ph, shed)
  PROVE  TryEmit(w, FALSE) \in Streaming(p, ph, shed)
<1>1. PICK W : W = Streaming(p, ph, shed)
  OBVIOUS
<1>2. \A x \in W : EmitNext(x, FALSE) \in W
  BY <1>1, StreamingTurn, Zenon
<1>3. PICK g \in [Nat -> W] : Turns(g, w, FALSE)
  BY <1>1, <1>2, TurnsStay, Zenon
<1>4. Len(w.video) + w.audio \in Nat
  <2>1. w.video \in Seq(Sample) /\ w.audio \in Nat
    BY DEF Streaming, Buffers
  <2>. QED  BY <2>1
<1>5. TryEmit(w, FALSE) = g[Len(w.video) + w.audio]
  BY <1>3, Zenon DEF Turns
<1>. QED  BY <1>1, <1>4, <1>5

LEMMA FinishingEnds ==
  ASSUME NEW p, NEW shed, NEW w \in Finishing(p, shed)
  PROVE  /\ TryEmit(w, TRUE) \in Finishing(p, shed)
         /\ TryEmit(w, TRUE).audio = 0
         /\ shed = 0 => TryEmit(w, TRUE).video = <<>>
<1>1. PICK W : W = Finishing(p, shed)
  OBVIOUS
<1>2. \A x \in W : EmitNext(x, TRUE) \in W
  BY <1>1, FinishingTurn, Zenon
<1>3. \A x \in W : \/ EmitNext(x, TRUE) = x /\ x.audio = 0 /\ (shed = 0 => x.video = <<>>)
                   \/ Left(EmitNext(x, TRUE)) < Left(x)
  BY <1>1, FinishingTurn, Zenon
<1>4. \A x \in W : Left(x) \in Nat
  <2>1. ASSUME NEW x \in W PROVE Left(x) \in Nat
    <3>1. x.video \in Seq(Sample) /\ x.audio \in Nat
      BY <1>1 DEF Finishing, Buffers
    <3>. QED  BY <3>1 DEF Left
  <2>. QED  BY <2>1
<1>5. PICK g \in [Nat -> W] : Turns(g, w, TRUE)
  BY <1>1, <1>2, TurnsStay, Zenon
<1>6. /\ g[0] = w /\ \A n \in Nat : g[n + 1] = EmitNext(g[n], TRUE)
      /\ TryEmit(w, TRUE) = g[Left(w)]
  BY <1>5, Zenon DEF Turns, Left
<1>7. \A n \in Nat : g[n] \in W
  OBVIOUS
<1>8. \A n \in Nat : EmitNext(g[n], TRUE) = g[n] \/ Left(g[n]) + n =< Left(w)
  <2>. DEFINE S == {n \in Nat : EmitNext(g[n], TRUE) = g[n] \/ Left(g[n]) + n =< Left(w)}
  <2>1. 0 \in S
    <3>1. Left(w) + 0 =< Left(w)
      <4>1. Left(w) \in Nat
        BY <1>1, <1>4, Zenon
      <4>. QED  BY <4>1
    <3>. QED  BY <1>6, <3>1
  <2>2. ASSUME NEW n \in Nat, n \in S PROVE n + 1 \in S
    <3>a. n + 1 \in Nat
      OBVIOUS
    <3>1. n + 1 \in Nat /\ g[n] \in W /\ g[n + 1] \in W /\ g[n + 1] = EmitNext(g[n], TRUE)
      BY <1>6, <1>7, <3>a, Zenon
    <3>2. CASE EmitNext(g[n], TRUE) = g[n]
      <4>1. EmitNext(g[n + 1], TRUE) = g[n + 1]
        BY <3>1, <3>2, Zenon
      <4>. QED  BY <3>1, <4>1
    <3>3. CASE EmitNext(g[n], TRUE) # g[n]
      <4>1. Left(g[n + 1]) < Left(g[n])
        BY <1>3, <3>1, <3>3, Zenon
      <4>2. Left(g[n]) + n =< Left(w)
        BY <2>2, <3>3
      <4>3. Left(g[n + 1]) \in Nat /\ Left(g[n]) \in Nat /\ Left(w) \in Nat
        BY <1>1, <1>4, <3>1, Zenon
      <4>4. Left(g[n + 1]) + (n + 1) =< Left(w)
        BY <4>1, <4>2, <4>3
      <4>. QED  BY <3>1, <4>4
    <3>. QED  BY <3>2, <3>3
  <2>. HIDE DEF S
  <2>3. \A n \in Nat : n \in S
    BY <2>1, <2>2, OfAllNaturals
  <2>. QED  BY <2>3 DEF S
<1>9. PICK x \in W : x = TryEmit(w, TRUE) /\ (EmitNext(x, TRUE) = x \/ Left(x) + Left(w) =< Left(w))
  <2>1. Left(w) \in Nat
    BY <1>1, <1>4, Zenon
  <2>. QED  BY <1>6, <1>7, <1>8, <2>1, Zenon
<1>10. CASE EmitNext(x, TRUE) = x
  <2>1. ~(Left(x) < Left(x))
    BY <1>4
  <2>2. x.audio = 0 /\ (shed = 0 => x.video = <<>>)
    BY <1>3, <1>10, <2>1, Zenon
  <2>. QED  BY <1>1, <1>9, <2>2, Zenon
<1>11. CASE Left(x) + Left(w) =< Left(w)
  <2>1. Left(x) \in Nat /\ Left(w) \in Nat
    BY <1>1, <1>4, Zenon
  <2>2. Left(x) = 0
    BY <1>11, <2>1
  <2>3. x.video \in Seq(Sample) /\ x.audio \in Nat
    BY <1>1 DEF Finishing, Buffers
  <2>4. x.audio = 0 /\ x.video = <<>>
    BY <2>2, <2>3 DEF Left
  <2>. QED  BY <1>1, <1>9, <2>4, Zenon
<1>. QED  BY <1>9, <1>10, <1>11

\* The file is what the writer's record makes it; at rest it is as the last turn of
\* try_emit left it.
FileInv ==
  /\ pts \in Nat /\ lostVideo \in Nat /\ priming \in Nat
  /\ phase \in {"none", "early", "open", "stopping", "finished", "failed"}
  /\ phase # "finished" => Writer \in Streaming(pts, phase, lostVideo)
  /\ phase = "finished" =>
       /\ Writer \in Finishing(pts, lostVideo)
       /\ audio = 0 /\ (lostVideo = 0 => video = <<>>)
       /\ consumer.at = "away"

\* e is v, its newest unit now of duration d; what starts when is as it was.
Lasting(v, e, d) ==
  /\ e \in Seq(Sample) /\ Chained(e) /\ Len(e) = Len(v)
  /\ e[1].start = v[1].start
  /\ e[Len(v)].start = v[Len(v)].start /\ e[Len(v)].duration = d

LEMMA LastLasts ==
  ASSUME NEW v \in Seq(Sample), Chained(v), v # <<>>, NEW d \in Nat,
         NEW e, e = [v EXCEPT ![Len(v)].duration = d]
  PROVE  Lasting(v, e, d)
<1>1. Len(v) \in Nat /\ Len(v) >= 1 /\ DOMAIN v = 1..Len(v)
  OBVIOUS
<1>2. PICK n : n = Len(v)
  OBVIOUS
<1>3. \A i \in 1..n : v[i] \in Sample
  BY <1>2
<1>4. PICK s \in Sample : s = [v[n] EXCEPT !.duration = d] /\ s.start = v[n].start /\ s.duration = d
  <2>1. PICK r \in Sample : r = v[n]
    BY <1>1, <1>2, <1>3
  <2>2. [r EXCEPT !.duration = d] \in Sample
    BY DEF Sample
  <2>3. [r EXCEPT !.duration = d].start = r.start /\ [r EXCEPT !.duration = d].duration = d
    BY DEF Sample
  <2>. QED  BY <2>1, <2>2, <2>3, Zenon
<1>5. e = [v EXCEPT ![n] = s]
  BY <1>2, <1>4, Zenon
<1>6. /\ e \in Seq(Sample) /\ Len(e) = n /\ e[n] = s
      /\ \A i \in 1..n : i # n => e[i] = v[i]
  BY <1>1, <1>2, <1>5
<1>7. \A i \in 1..n : e[i].start = v[i].start
  BY <1>4, <1>6, Zenon
<1>8. Chained(e)
  <2>1. ASSUME NEW i \in 1..n - 1 PROVE e[i + 1].start = e[i].start + e[i].duration
    <3>1. i \in 1..n /\ i + 1 \in 1..n /\ i # n
      BY <1>1, <1>2
    <3>2. v[i + 1].start = v[i].start + v[i].duration
      BY <1>2 DEF Chained
    <3>3. e[i] = v[i] /\ e[i + 1].start = v[i + 1].start
      BY <1>6, <1>7, <3>1, Zenon
    <3>. QED  BY <3>2, <3>3, Zenon
  <2>. QED  BY <1>6, <2>1 DEF Chained
<1>9. 1 \in 1..n /\ n \in 1..n
  BY <1>1, <1>2
<1>. QED  BY <1>2, <1>4, <1>6, <1>7, <1>8, <1>9, Zenon DEF Lasting

LEMMA ChainGrows ==
  ASSUME NEW e \in Seq(Sample), Chained(e), NEW u \in Sample,
         e # <<>> => u.start = e[Len(e)].start + e[Len(e)].duration
  PROVE  /\ Append(e, u) \in Seq(Sample) /\ Chained(Append(e, u))
         /\ Append(e, u) # <<>> /\ Append(e, u)[Len(Append(e, u))] = u
         /\ Append(e, u)[1] = IF e = <<>> THEN u ELSE e[1]
<1>1. PICK t \in Seq(Sample) :
        /\ t = Append(e, u) /\ Len(t) = Len(e) + 1 /\ t[Len(e) + 1] = u
        /\ \A i \in 1..Len(e) : t[i] = e[i]
  <2>. DEFINE t == Append(e, u)
  <2>1. t \in Seq(Sample) /\ Len(t) = Len(e) + 1 /\ t[Len(e) + 1] = u
    OBVIOUS
  <2>2. \A i \in 1..Len(e) : t[i] = e[i]
    OBVIOUS
  <2>. QED  BY <2>1, <2>2, Zenon
<1>2. Len(e) \in Nat
  OBVIOUS
<1>3. ASSUME NEW i \in 1..Len(e) PROVE t[i + 1].start = t[i].start + t[i].duration
  <2>1. CASE i = Len(e)
    <3>1. e # <<>>
      BY <1>2, <2>1
    <3>2. t[i + 1] = u /\ t[i] = e[Len(e)]
      BY <1>1, <2>1
    <3>. QED  BY <3>1, <3>2
  <2>2. CASE i # Len(e)
    <3>1. i \in 1..Len(e) - 1 /\ i + 1 \in 1..Len(e)
      BY <1>2, <2>2
    <3>2. t[i + 1] = e[i + 1] /\ t[i] = e[i]
      BY <1>1, <3>1
    <3>. QED  BY <3>1, <3>2 DEF Chained
  <2>. QED  BY <2>1, <2>2
<1>4. Chained(t)
  <2>1. Len(t) - 1 = Len(e)
    BY <1>1, <1>2
  <2>. QED  BY <1>3, <2>1 DEF Chained
<1>5. t # <<>> /\ t[Len(t)] = u
  BY <1>1, <1>2
<1>6. t[1] = IF e = <<>> THEN u ELSE e[1]
  <2>1. CASE e = <<>>
    BY <1>1, <2>1
  <2>2. CASE e # <<>>
    <3>1. 1 \in 1..Len(e)
      BY <1>2, <2>2
    <3>. QED  BY <1>1, <2>2, <3>1
  <2>. QED  BY <2>1, <2>2
<1>. QED  BY <1>1, <1>4, <1>5, <1>6

\* The buffers may be others, as long as the video is a chain.
LEMMA OtherBuffers ==
  ASSUME NEW w, Fits(w), NEW v \in Seq(Sample), Chained(v), NEW a \in Nat,
         NEW x, x = [video |-> v, audio |-> a, ticks |-> w.ticks, packets |-> w.packets,
                     fragments |-> w.fragments]
  PROVE  /\ x \in Buffers /\ Fits(x) /\ (InTime(w) => InTime(x))
         /\ x.video = v /\ x.audio = a /\ x.ticks = w.ticks
<1>1. /\ x.video = v /\ x.audio = a /\ x.ticks = w.ticks /\ x.packets = w.packets
      /\ x.fragments = w.fragments
  OBVIOUS
<1>2. x \in Buffers
  BY Zenon DEF Fits, Buffers
<1>3. Fits(x)
  BY <1>1, <1>2, Zenon DEF Fits
<1>4. InTime(w) => InTime(x)
  BY <1>1, Zenon DEF InTime
<1>. QED  BY <1>1, <1>2, <1>3, <1>4

\* enforce_buffer_caps takes the oldest units, and counts them.
LEMMA KeepKeeps ==
  ASSUME NEW p, NEW ph, NEW w, lostVideo \in Nat, w \in Streaming(p, ph, lostVideo), Keep(w)
  PROVE  lostVideo' \in Nat /\ Writer' \in Streaming(p, ph, lostVideo')
<1>1. PICK v \in Seq(Sample), l \in Nat :
        v = w.video /\ l = Len(v) /\ Chained(v) /\ w.audio \in Nat /\ Fits(w) /\ InTime(w)
  BY DEF Streaming, Fits, Buffers
<1>2. PICK excess \in Nat :
        /\ excess = Max({0, Len(v) - MaxVideo})
        /\ excess =< l /\ (l > 0 => excess < l)
  <2>1. l - MaxVideo \in Int
    BY <1>1, TheConstants
  <2>2. Max({0, l - MaxVideo}) = IF 0 >= l - MaxVideo THEN 0 ELSE l - MaxVideo
    BY <2>1, GreaterOf
  <2>. QED  BY <1>1, <2>2, TheConstants
<1>3. PICK u \in Seq(Sample) :
        /\ u = SubSeq(v, excess + 1, Len(v)) /\ Chained(u) /\ Len(u) = l - excess
        /\ \A i \in 1..l - excess : u[i] = v[excess + i]
  <2>1. excess =< Len(v)
    BY <1>1, <1>2
  <2>2. PICK u \in Seq(Sample) :
          /\ u = SubSeq(v, excess + 1, Len(v)) /\ Chained(u) /\ Len(u) = Len(v) - excess
          /\ \A i \in 1..Len(v) - excess : u[i] = v[excess + i]
    BY <1>1, <2>1, RestOfChain, Zenon
  <2>3. Len(v) = l
    BY <1>1
  <2>. QED  BY <2>2, <2>3, Zenon
<1>4. PICK a \in Nat : a = Min({w.audio, MaxAudio})
  BY <1>1, TheConstants, LesserOf
<1>5. PICK x : x = Writer'
  OBVIOUS
<1>6. /\ x = [video |-> u, audio |-> a, ticks |-> w.ticks, packets |-> w.packets,
              fragments |-> w.fragments]
      /\ lostVideo' = lostVideo + excess
  BY <1>1, <1>2, <1>3, <1>4, <1>5, Zenon DEF Keep, Writer
<1>7. /\ x \in Buffers /\ Fits(x) /\ InTime(x) /\ x.video = u /\ x.ticks = w.ticks
  <2>1. Fits(w) /\ Chained(u) /\ InTime(w)
    BY <1>1, <1>3, Zenon
  <2>. QED  BY <1>6, <2>1, OtherBuffers
<1>8. lostVideo' \in Nat /\ (lostVideo' = 0 => lostVideo = 0 /\ excess = 0)
  BY <1>2, <1>6
<1>9. CASE HasHeader(ph)
  <2>1. v # <<>> /\ v[l].start = p /\ (lostVideo = 0 => v[1].start = w.ticks)
    BY <1>1, <1>9, Zenon DEF Streaming
  <2>2. l > 0
    BY <1>1, <2>1
  <2>3. u # <<>>
    <3>1. Len(u) > 0
      BY <1>1, <1>2, <1>3, <2>2
    <3>. QED  BY <3>1
  <2>4. u[Len(u)] = v[l]
    <3>1. PICK k \in 1..l - excess : k = l - excess /\ Len(u) = k /\ excess + k = l
      <4>1. l - excess \in 1..l - excess /\ excess + (l - excess) = l
        BY <1>2, <2>2
      <4>. QED  BY <1>3, <4>1, Zenon
    <3>2. u[k] = v[excess + k]
      BY <1>3, Zenon
    <3>. QED  BY <3>1, <3>2, Zenon
  <2>5. excess = 0 => u[1] = v[1]
    <3>1. excess = 0 => 1 \in 1..l - excess /\ excess + 1 = 1
      BY <1>1, <2>2
    <3>. QED  BY <1>3, <3>1, Zenon
  <2>6. x \in Streaming(p, ph, lostVideo')
    BY <1>7, <1>8, <1>9, <2>1, <2>3, <2>4, <2>5, Zenon DEF Streaming
  <2>. QED  BY <1>5, <1>8, <2>6, Zenon
<1>10. CASE ~HasHeader(ph)
  <2>1. v = <<>> /\ w.ticks = 0
    BY <1>1, <1>10, Zenon DEF Streaming
  <2>2. Len(u) = 0
    BY <1>1, <1>2, <1>3, <2>1
  <2>3. u = <<>>
    BY <2>2
  <2>4. x \in Streaming(p, ph, lostVideo')
    BY <1>7, <1>10, <2>1, <2>3, Zenon DEF Streaming
  <2>. QED  BY <1>5, <1>8, <2>4, Zenon
<1>. QED  BY <1>9, <1>10

LEMMA FileBegins == ASSUME Init PROVE FileInv
<1>1. PICK x : x = Writer
  OBVIOUS
<1>2. x = [video |-> <<>>, audio |-> 0, ticks |-> 0, packets |-> 0, fragments |-> <<>>]
  BY <1>1, Zenon DEF Init, Writer
<1>3. x.video = <<>> /\ x.audio = 0 /\ x.ticks = 0 /\ x.packets = 0 /\ x.fragments = <<>>
  BY <1>2
<1>4. /\ <<>> \in Seq(Sample) /\ <<>> \in Seq(Fragment) /\ 0 \in Nat /\ Len(<<>>) = 0
  OBVIOUS
<1>5. x \in Buffers
  BY <1>2, <1>4, Zenon DEF Buffers
<1>6. Chained(x.video)
  BY <1>3 DEF Chained
<1>7. \A i \in 1..Len(x.fragments) : LinksOn(x.fragments, i)
  <2>1. 1..Len(x.fragments) = {}
    BY <1>3
  <2>. QED  BY <2>1
<1>8. LastEnds(x.fragments, x.ticks, x.packets)
  BY <1>3 DEF LastEnds
<1>9. InTime(x)
  BY <1>3, TheConstants DEF InTime
<1>10. x \in Streaming(0, "none", 0)
  BY <1>3, <1>5, <1>6, <1>7, <1>8, <1>9 DEF Streaming, Fits, HasHeader
<1>11. Writer \in Streaming(pts, phase, lostVideo)
  BY <1>1, <1>10, Zenon DEF Init
<1>. QED  BY <1>11, TheConstants DEF Init, FileInv

\* With the same phase as far as the header goes, a record that stays is still right.
LEMMA SameHeader ==
  ASSUME NEW p, NEW a, NEW b, NEW l, HasHeader(a) <=> HasHeader(b), NEW w \in Streaming(p, a, l)
  PROVE  w \in Streaming(p, b, l)
  BY Zenon DEF Streaming

\* The writer stands still.
FileStands == UNCHANGED <<pts, video, lostVideo, audio, priming, ticks, packets, fragments>>

LEMMA StandingKeeps ==
  ASSUME FileInv, FileStands, phase # "finished", phase' # "finished",
         phase' \in {"none", "early", "open", "stopping", "failed"},
         HasHeader(phase) <=> HasHeader(phase')
  PROVE  FileInv'
<1>1. Writer' = Writer /\ pts' = pts /\ lostVideo' = lostVideo /\ priming' = priming
  BY Zenon DEF FileStands, Writer
<1>2. PICK w : w = Writer
  OBVIOUS
<1>3. w \in Streaming(pts, phase, lostVideo)
  BY <1>2, Zenon DEF FileInv
<1>4. PICK a, b : a = phase /\ b = phase'
  OBVIOUS
<1>5. w \in Streaming(pts, b, lostVideo)
  BY <1>3, <1>4, SameHeader
<1>6. Writer' \in Streaming(pts', phase', lostVideo')
  BY <1>1, <1>2, <1>4, <1>5, Zenon
<1>. QED  BY <1>1, <1>6 DEF FileInv

LEMMA FileAlone ==
  ASSUME FileInv, UNCHANGED writerVars, consumer.at = "away" => consumer'.at = "away"
  PROVE  FileInv'
<1>1. /\ pts' = pts /\ lostVideo' = lostVideo /\ priming' = priming /\ phase' = phase
      /\ Writer' = Writer /\ audio' = audio /\ video' = video
  BY Zenon DEF writerVars, Writer
<1>. QED  BY <1>1, Zenon DEF FileInv

LEMMA PushEarlyKeeps == ASSUME FileInv, PushEarly PROVE FileInv'
<1>1. /\ FileStands /\ phase # "finished" /\ phase' # "finished"
      /\ phase' \in {"early", "failed"} /\ ~HasHeader(phase) /\ ~HasHeader(phase')
  BY DEF PushEarly, FileStands, HasHeader
<1>. QED  BY <1>1, StandingKeeps

LEMMA StopKeeps == ASSUME FileInv, Stop PROVE FileInv'
<1>1. /\ FileStands /\ phase # "finished" /\ phase' = "stopping"
      /\ HasHeader(phase) /\ HasHeader(phase')
  BY DEF Stop, FileStands, HasHeader
<1>. QED  BY <1>1, StandingKeeps

LEMMA PollKeeps == ASSUME FileInv, Poll PROVE FileInv'
<1>1. /\ FileStands /\ phase # "finished" /\ phase' = phase
      /\ phase \in {"early", "open"}
  BY DEF Poll, FileStands, writerVars
<1>. QED  BY <1>1, StandingKeeps

LEMMA PushVideoKeeps == ASSUME FileInv, PushVideo PROVE FileInv'
<1>1. PICK gap \in Gap :
        /\ pts' = IF phase # "open" THEN 0 ELSE pts + gap
        /\ Keep(TryEmit([Writer EXCEPT !.video =
             Append(IF video = <<>> THEN video ELSE [video EXCEPT ![Len(video)].duration = gap],
                    [start |-> pts', duration |-> Unknown])], FALSE))
  BY Zenon DEF PushVideo
<1>2. /\ phase \in {"none", "early", "open"} /\ phase' = "open" /\ priming' = priming
      /\ HasHeader(phase') /\ (HasHeader(phase) <=> phase = "open")
  BY DEF PushVideo, HasHeader
<1>3. gap \in Nat
  BY TheConstants
<1>4. PICK w : w = Writer
  OBVIOUS
<1>5. w \in Streaming(pts, phase, lostVideo) /\ pts \in Nat /\ lostVideo \in Nat /\ priming \in Nat
  BY <1>2, <1>4 DEF FileInv
<1>6. PICK v \in Seq(Sample) :
        /\ v = video /\ w.video = v /\ Chained(v) /\ Fits(w) /\ InTime(w) /\ w \in Buffers
        /\ w.audio \in Nat /\ w.ticks \in Nat
  BY <1>4, <1>5 DEF Streaming, Fits, Buffers, Writer
<1>7. /\ phase = "open" => /\ v # <<>> /\ v[Len(v)].start = pts
                           /\ lostVideo = 0 => v[1].start = w.ticks
      /\ phase # "open" => v = <<>> /\ w.ticks = 0
  BY <1>2, <1>5, <1>6, Zenon DEF Streaming
<1>8. PICK p \in Nat : p = pts' /\ p = IF phase # "open" THEN 0 ELSE pts + gap
  <2>1. pts' = IF phase # "open" THEN 0 ELSE pts + gap
    BY <1>1, Zenon
  <2>2. pts + gap \in Nat
    BY <1>3, <1>5
  <2>3. pts' \in Nat
    BY <2>1, <2>2
  <2>. QED  BY <2>1, <2>3, Zenon
<1>9. PICK u \in Sample : u = [start |-> p, duration |-> Unknown] /\ u.start = p
  <2>1. [start |-> p, duration |-> Unknown] \in Sample
    BY DEF Sample, Unknown
  <2>2. [start |-> p, duration |-> Unknown].start = p
    OBVIOUS
  <2>. QED  BY <2>1, <2>2, Zenon
<1>10. PICK e \in Seq(Sample) :
         /\ e = IF v = <<>> THEN v ELSE [v EXCEPT ![Len(v)].duration = gap]
         /\ Chained(e) /\ (e = <<>> <=> v = <<>>)
         /\ v # <<>> => /\ e[1].start = v[1].start /\ e[Len(e)].start = v[Len(v)].start
                        /\ e[Len(e)].duration = gap
  <2>1. CASE v = <<>>
    BY <1>6, <2>1, Zenon
  <2>2. CASE v # <<>>
    <3>1. PICK e : e = [v EXCEPT ![Len(v)].duration = gap]
      OBVIOUS
    <3>2. /\ e \in Seq(Sample) /\ Chained(e) /\ Len(e) = Len(v)
          /\ e[1].start = v[1].start
          /\ e[Len(v)].start = v[Len(v)].start /\ e[Len(v)].duration = gap
      <4>1. Chained(v)
        BY <1>6, Zenon
      <4>2. Lasting(v, e, gap)
        BY <1>3, <2>2, <3>1, <4>1, LastLasts, Zenon
      <4>. QED  BY <4>2, Zenon DEF Lasting
    <3>3. e # <<>>
      <4>1. Len(v) > 0
        BY <2>2
      <4>. QED  BY <3>2, <4>1
    <3>. QED  BY <2>2, <3>1, <3>2, <3>3, Zenon
  <2>. QED  BY <2>1, <2>2
<1>11. PICK t \in Seq(Sample) :
         /\ t = Append(e, u) /\ Chained(t) /\ t # <<>> /\ t[Len(t)] = u
         /\ t[1] = IF e = <<>> THEN u ELSE e[1]
  <2>1. ASSUME e # <<>> PROVE u.start = e[Len(e)].start + e[Len(e)].duration
    <3>1. phase = "open"
      BY <1>7, <1>10, <2>1, Zenon
    <3>2. u.start = pts + gap
      BY <1>8, <1>9, <3>1, Zenon
    <3>3. e[Len(e)].start = pts /\ e[Len(e)].duration = gap
      BY <1>7, <1>10, <3>1, Zenon
    <3>. QED  BY <3>2, <3>3, Zenon
  <2>2. Chained(e)
    BY <1>10, Zenon
  <2>. QED  BY <2>1, <2>2, ChainGrows
<1>12. PICK x : x = [Writer EXCEPT !.video = t]
  OBVIOUS
<1>13. x = [video |-> t, audio |-> w.audio, ticks |-> w.ticks, packets |-> w.packets,
            fragments |-> w.fragments]
  BY <1>4, <1>12 DEF Writer
<1>14. x \in Buffers /\ Fits(x) /\ InTime(x) /\ x.video = t /\ x.ticks = w.ticks
  <2>1. Fits(w) /\ Chained(t) /\ InTime(w) /\ w.audio \in Nat
    BY <1>6, <1>11, Zenon
  <2>. QED  BY <1>13, <2>1, OtherBuffers
<1>15. lostVideo = 0 => t[1].start = w.ticks
  BY <1>7, <1>8, <1>9, <1>10, <1>11
<1>16. x \in Streaming(p, "open", lostVideo)
  BY <1>9, <1>11, <1>14, <1>15 DEF Streaming, HasHeader
<1>17. PICK y : y = TryEmit(x, FALSE)
  OBVIOUS
<1>18. PICK l : l = lostVideo
  OBVIOUS
<1>19. y \in Streaming(p, "open", lostVideo)
  BY <1>16, <1>17, <1>18, StreamingStays, Zenon
<1>20. Keep(y)
  BY <1>1, <1>6, <1>8, <1>9, <1>10, <1>11, <1>12, <1>17, Zenon
<1>21. lostVideo' \in Nat /\ Writer' \in Streaming(p, "open", lostVideo')
  BY <1>5, <1>19, <1>20, KeepKeeps, Zenon
<1>. QED  BY <1>2, <1>5, <1>8, <1>21 DEF FileInv

LEMMA PushAudioKeeps ==
  ASSUME FileInv, PushAudio, consumer.count \in Nat PROVE FileInv'
<1>1. PICK skip : skip = Min({priming, consumer.count})
  OBVIOUS
<1>2. /\ priming' = priming - skip
      /\ Keep(TryEmit([Writer EXCEPT !.audio = @ + consumer.count - skip], FALSE))
      /\ UNCHANGED <<phase, preIdr, pts, units>>
  BY <1>1, Zenon DEF PushAudio
<1>3. phase # "finished"
  BY DEF PushAudio, Drain, Copied, FileInv
<1>4. PICK w, l : w = Writer /\ l = lostVideo
  OBVIOUS
<1>5. /\ w \in Streaming(pts, phase, l) /\ pts \in Nat /\ lostVideo \in Nat /\ priming \in Nat
      /\ phase \in {"none", "early", "open", "stopping", "failed"}
  BY <1>3, <1>4 DEF FileInv
<1>6. PICK v \in Seq(Sample) :
        /\ w.video = v /\ Chained(v) /\ Fits(w) /\ InTime(w) /\ w \in Buffers
        /\ w.audio \in Nat /\ w.ticks \in Nat
  BY <1>5 DEF Streaming, Fits, Buffers
<1>7. skip \in Nat /\ skip =< priming /\ skip =< consumer.count
  BY <1>1, <1>5, LesserOf
<1>8. PICK a \in Nat : a = w.audio + consumer.count - skip
  BY <1>6, <1>7
<1>9. PICK x : x = [Writer EXCEPT !.audio = @ + consumer.count - skip]
  OBVIOUS
<1>10. x = [video |-> v, audio |-> a, ticks |-> w.ticks, packets |-> w.packets,
            fragments |-> w.fragments]
  BY <1>4, <1>6, <1>8, <1>9 DEF Writer
<1>11. x \in Buffers /\ Fits(x) /\ InTime(x) /\ x.video = v /\ x.ticks = w.ticks
  BY <1>6, <1>10, OtherBuffers
<1>12. PICK p, ph : p = pts /\ ph = phase
  OBVIOUS
<1>13. x \in Streaming(p, ph, l)
  BY <1>5, <1>6, <1>11, <1>12, Zenon DEF Streaming
<1>14. PICK y : y = TryEmit(x, FALSE)
  OBVIOUS
<1>15. y \in Streaming(p, ph, l)
  BY <1>13, <1>14, StreamingStays, Zenon
<1>16. Keep(y)
  BY <1>2, <1>9, <1>14, Zenon
<1>17. lostVideo' \in Nat /\ Writer' \in Streaming(p, ph, lostVideo')
  BY <1>4, <1>5, <1>15, <1>16, KeepKeeps, Zenon
<1>18. Writer' \in Streaming(pts', phase', lostVideo')
  BY <1>2, <1>12, <1>17, Zenon
<1>19. priming' \in Nat
  BY <1>2, <1>5, <1>7
<1>. QED  BY <1>2, <1>5, <1>17, <1>18, <1>19 DEF FileInv

\* The finish empties the buffers, and if no unit was shed the file reaches the newest.
LEMMA FinishKeeps == ASSUME FileInv, Finish PROVE FileInv'
<1>. DEFINE newest == Len(video)
            lasting == IF newest > 1 THEN video[newest - 1].duration ELSE 1
            ended == IF video = <<>> THEN video
                     ELSE [video EXCEPT ![newest].duration = lasting]
<1>1. PICK flushed \in 0..1 :
        LET w == TryEmit([Writer EXCEPT !.video = ended,
                            !.audio = @ + Max({0, flushed - priming})], TRUE)
        IN /\ video' = w.video /\ audio' = w.audio
           /\ ticks' = w.ticks /\ packets' = w.packets
           /\ fragments' = w.fragments
  BY Zenon DEF Finish
<1>2. /\ phase = "stopping" /\ phase' = "finished" /\ consumer'.at = "away"
      /\ UNCHANGED <<pts, lostVideo, priming>>
  BY DEF Finish, tapVars
<1>3. PICK w, l, p : w = Writer /\ l = lostVideo /\ p = pts
  OBVIOUS
<1>4. w \in Streaming(p, phase, l) /\ pts \in Nat /\ lostVideo \in Nat /\ priming \in Nat
  BY <1>2, <1>3 DEF FileInv
<1>5. PICK v \in Seq(Sample) :
        /\ v = video /\ w.video = v /\ Chained(v) /\ Fits(w) /\ w \in Buffers
        /\ w.audio \in Nat /\ w.ticks \in Nat /\ Len(v) \in Nat
  BY <1>3, <1>4 DEF Streaming, Fits, Buffers, Writer
<1>6. HasHeader(phase)
  BY <1>2 DEF HasHeader
<1>7. v # <<>> /\ v[Len(v)].start = p /\ (l = 0 => v[1].start = w.ticks)
  BY <1>4, <1>5, <1>6, Zenon DEF Streaming
<1>8. PICK d \in Nat : d = lasting
  <2>1. CASE newest > 1
    <3>1. newest - 1 \in 1..Len(v)
      BY <1>5, <2>1
    <3>2. v[newest - 1] \in Sample
      BY <3>1
    <3>. QED  BY <1>5, <2>1, <3>2 DEF Sample
  <2>2. CASE ~(newest > 1)
    BY <2>2
  <2>. QED  BY <2>1, <2>2
<1>9. PICK e \in Seq(Sample) :
        /\ e = ended /\ Chained(e) /\ e # <<>>
        /\ e[1].start = v[1].start /\ e[Len(e)].start = v[Len(v)].start
  <2>1. PICK e : e = [v EXCEPT ![Len(v)].duration = d]
    OBVIOUS
  <2>2. /\ e \in Seq(Sample) /\ Chained(e) /\ Len(e) = Len(v)
        /\ e[1].start = v[1].start
        /\ e[Len(v)].start = v[Len(v)].start /\ e[Len(v)].duration = d
    <3>1. Chained(v) /\ v # <<>>
      BY <1>5, <1>7, Zenon
    <3>2. Lasting(v, e, d)
      BY <2>1, <3>1, LastLasts, Zenon
    <3>. QED  BY <3>2, Zenon DEF Lasting
  <2>3. e # <<>>
    <3>1. Len(v) > 0
      BY <1>7
    <3>. QED  BY <2>2, <3>1
  <2>4. e = ended
    BY <1>5, <1>7, <1>8, <2>1, Zenon
  <2>. QED  BY <2>2, <2>3, <2>4, Zenon
<1>10. PICK a \in Nat : a = w.audio + Max({0, flushed - priming})
  <2>1. flushed - priming \in Int
    BY <1>4
  <2>2. Max({0, flushed - priming}) \in Nat
    BY <2>1, GreaterOf
  <2>. QED  BY <1>5, <2>2
<1>11. PICK x : x = [Writer EXCEPT !.video = e, !.audio = @ + Max({0, flushed - priming})]
  OBVIOUS
<1>12. x = [video |-> e, audio |-> a, ticks |-> w.ticks, packets |-> w.packets,
            fragments |-> w.fragments]
  BY <1>3, <1>10, <1>11 DEF Writer
<1>13. x \in Buffers /\ Fits(x) /\ x.video = e /\ x.ticks = w.ticks
  <2>1. Fits(w) /\ Chained(e)
    BY <1>5, <1>9, Zenon
  <2>. QED  BY <1>12, <2>1, OtherBuffers
<1>14. x \in Finishing(p, l)
  BY <1>7, <1>9, <1>13, Zenon DEF Finishing
<1>15. PICK y : y = TryEmit(x, TRUE)
  OBVIOUS
<1>16. y \in Finishing(p, l) /\ y.audio = 0 /\ (l = 0 => y.video = <<>>)
  BY <1>14, <1>15, FinishingEnds, Zenon
<1>17. /\ video' = y.video /\ audio' = y.audio /\ ticks' = y.ticks /\ packets' = y.packets
       /\ fragments' = y.fragments
  BY <1>1, <1>9, <1>11, <1>15, Zenon
<1>18. Writer' = y
  <2>1. y \in Buffers
    BY <1>16, Zenon DEF Finishing
  <2>2. y = [video |-> y.video, audio |-> y.audio, ticks |-> y.ticks, packets |-> y.packets,
             fragments |-> y.fragments]
    BY <2>1 DEF Buffers
  <2>. QED  BY <1>17, <2>2, Zenon DEF Writer
<1>19. Writer' \in Finishing(pts', lostVideo') /\ audio' = 0 /\ (lostVideo' = 0 => video' = <<>>)
  BY <1>2, <1>3, <1>16, <1>17, <1>18, Zenon
<1>20. pts' \in Nat /\ lostVideo' \in Nat /\ priming' \in Nat
  BY <1>2, <1>4
<1>. QED  BY <1>2, <1>19, <1>20 DEF FileInv

LEMMA FileStep == ASSUME consumer.count \in Nat, FileInv, Next PROVE FileInv'
<1>1. CASE Push /\ UNCHANGED writerVars
  <2>1. consumer' = consumer
    BY <1>1 DEF Push, PushBegins, ReadTail, Evict, Store, Publish
  <2>. QED  BY <1>1, <2>1, FileAlone
<1>2. CASE Draining
  <2>1. consumer.at # "away" /\ UNCHANGED writerVars
    BY <1>2 DEF Draining, DrainSteps, DrainReadsTail, DrainReadsHead, DrainCopies, DrainAgain,
                Copied
  <2>. QED  BY <2>1, FileAlone
<1>3. CASE PushAudio
  BY <1>3, PushAudioKeeps
<1>. QED  BY <1>1, <1>2, <1>3, PushEarlyKeeps, PushVideoKeeps, PollKeeps, StopKeeps, FinishKeeps
     DEF Next

-----------------------------------------------------------------------------

\* What is in the file and what is to come join without a gap, whatever was shed and
\* however the tap was drained (writer.rs; thread.rs, drain_tap).
THEOREM TakeFileInvariant == MCSpec => []FileInv
<1>1. MCInit => FileInv
  BY FileBegins DEF MCInit
<1>2. /\ consumer.count \in Nat /\ FileInv
      /\ [MCNext]_<<part, vars, streamVars, readerVars, soundVars>>
      => FileInv'
  <2>. SUFFICES ASSUME consumer.count \in Nat, FileInv,
                       [MCNext]_<<part, vars, streamVars, readerVars, soundVars>>
                PROVE  FileInv'
    OBVIOUS
  <2>1. CASE Next
    BY <2>1, FileStep
  <2>2. CASE UNCHANGED vars
    <3>1. UNCHANGED writerVars /\ consumer' = consumer
      BY <2>2 DEF vars, tapVars
    <3>. QED  BY <3>1, FileAlone
  <2>. QED  BY <2>1, <2>2 DEF MCNext
<1>3. MCSpec => [](consumer.count \in Nat)
  <2>1. TapConstants
    BY WriterConstants
  <2>2. TapInv => consumer.count \in Nat
    BY DEF TapInv, TapTypes, Consumer
  <2>. QED  BY <2>1, <2>2, TakeUsesTap, TapInvariant, PTL
<1>. QED  BY <1>1, <1>2, <1>3, PTL DEF MCSpec

\* Each fragment begins in both tracks where the one before it ended, and until the
\* finish its audio reaches its video's end (writer.rs, try_emit and emit_fragment).
THEOREM TracksStayInStep == MCSpec => []TracksInStep
<1>1. FileInv => TracksInStep
  <2>. SUFFICES ASSUME FileInv PROVE TracksInStep
    OBVIOUS
  <2>1. PICK w : w = Writer
    OBVIOUS
  <2>2. Fits(w)
    BY <2>1, Zenon DEF FileInv, Streaming, Finishing
  <2>3. PICK fs \in Seq(Fragment) :
          fs = fragments /\ \A i \in 1..Len(fs) : LinksOn(fs, i)
    BY <2>1, <2>2 DEF Fits, Buffers, Writer
  <2>4. DOMAIN fragments = 1..Len(fs)
    BY <2>3
  <2>. SUFFICES ASSUME NEW i \in DOMAIN fragments
       PROVE  LET f == fragments[i]
                  end == f.at + f.ticks
              IN /\ i = 1 => f.at = 0 /\ f.from = 0
                 /\ i > 1 => LET e == fragments[i - 1]
                             IN f.at = e.at + e.ticks /\ f.from = e.from + e.packets
                 /\ ~f.tail =>
                      (f.from + f.packets) * PacketTicks \in end .. end + PacketTicks - 1
    BY Zenon DEF TracksInStep
  <2>5. LinksOn(fs, i) /\ fs[i] \in Fragment
    BY <2>3, <2>4
  <2>6. PICK f \in Fragment : f = fs[i]
    BY <2>5
  <2>7. PICK n \in Nat : n = (f.from + f.packets) * PacketTicks
    BY TheConstants DEF Fragment
  <2>8. f.at + f.ticks \in Nat /\ PacketTicks \in Nat
    BY TheConstants DEF Fragment
  <2>9. ASSUME ~f.tail PROVE n \in f.at + f.ticks .. f.at + f.ticks + PacketTicks - 1
    <3>1. f.at + f.ticks =< n /\ n < f.at + f.ticks + PacketTicks
      BY <2>5, <2>6, <2>7, <2>9, Zenon DEF LinksOn
    <3>. QED  BY <2>8, <3>1
  <2>10. f = fragments[i] /\ fs = fragments
    BY <2>3, <2>6
  <2>. QED  BY <2>5, <2>6, <2>7, <2>9, <2>10, Zenon DEF LinksOn
<1>. QED  BY <1>1, TakeFileInvariant, PTL

\* A finished take of which no video was shed holds every unit and packet
\* (writer.rs, finish).
THEOREM AFinishedTakeIsWhole == MCSpec => []FinishedIsWhole
<1>1. FileInv => FinishedIsWhole
  <2>. SUFFICES ASSUME FileInv, phase = "finished"
       PROVE  audio = 0 /\ (lostVideo = 0 => video = <<>> /\ ticks >= pts)
    BY DEF FinishedIsWhole
  <2>1. Writer \in Finishing(pts, lostVideo) /\ audio = 0 /\ (lostVideo = 0 => video = <<>>)
    BY DEF FileInv
  <2>2. Writer.video = video /\ Writer.ticks = ticks
    BY DEF Writer
  <2>3. lostVideo = 0 /\ Writer.video = <<>> => Writer.ticks >= pts
    BY <2>1, Zenon DEF Finishing
  <2>. QED  BY <2>1, <2>2, <2>3, Zenon
<1>. QED  BY <1>1, TakeFileInvariant, PTL

-----------------------------------------------------------------------------
(* A live stream.                                                          *)

Streams == Stream!Stream
Frame == [n : Nat, frame : Nat]
StreamOrNone == {0} \cup Streams

ClockTyped ==
  /\ clock \in [shows : Nat, frame : Nat \cup {-1}] /\ idle \in Nat /\ ticked \in Nat
  /\ tick \in [at : {"due", "named", "live", "draws"}, frame : Frame, to : StreamOrNone]
SessionTyped ==
  /\ live \in BOOLEAN /\ streaming \in StreamOrNone /\ opened \in 0..MaxStreams
  /\ closing \in [at : {"free", "opened", "thread", "transport"},
                  stream : StreamOrNone, show : BOOLEAN]
  /\ skips \in Nat /\ told \subseteq Streams
  /\ transport \in [Streams -> {"none", "up", "told", "down"}]
ThreadTyped ==
  /\ thread \in [Streams -> [at : {"none", "opening", "top", "frame", "done"},
                             encoder : BOOLEAN, frame : Frame, header : BOOLEAN]]
  /\ queue \in [Streams -> Seq(Frame)] /\ base \in [Streams -> Nat \cup {-1}]
  /\ pending \in [Streams -> SUBSET Frame]
  /\ offered \in [Streams -> SUBSET Frame] /\ lost \in [Streams -> SUBSET Frame]
  /\ stamps \in [Streams -> Seq([frame : Frame, at : Int])]
StreamTyped == ClockTyped /\ SessionTyped /\ ThreadTyped

\* A session has a stream from its start to its stop, and no stream is told to
\* stop before; a stream that is not opened has nothing.
SessionInv ==
  /\ streaming =< opened /\ tick.to =< opened /\ streaming \notin told
  /\ closing.at = "free" => (live <=> streaming # 0)
  /\ closing.at = "opened" => streaming # 0 /\ ~live
  /\ closing.at \in {"thread", "transport"} => streaming = 0
  /\ \A s \in Streams :
       /\ thread[s].at = "done" => s \in told
       /\ s > opened => thread[s].at = "none" /\ offered[s] = {} /\ s \notin told

\* A tick's frame is the newest, and is with the loop until it is handed over.
TickInv ==
  /\ tick.at # "due" => tick.frame.n = ticked
  /\ (tick.at = "draws") <=> (tick.to # 0)
  /\ \A s \in Streams : IsFiniteSet(offered[s]) /\ \A f \in offered[s] :
       /\ f.n =< ticked /\ (tick.at \in {"named", "live"} => f.n < ticked)
       /\ \A g \in offered[s] : f.n = g.n => f = g

Ahead(F, G) == \A f \in F, g \in G : f.n < g.n

\* The frames offered to a stream, by where they are: with the loop, queued, in
\* hand, held back, published and counted.  They overtake nothing on the way.
Flow(o, q, h, p, u, l, all, kept) ==
  /\ o \cup q \cup h \cup p \cup u \cup l \subseteq all
  /\ kept => all \subseteq o \cup q \cup h \cup p \cup u \cup l
  /\ l \cap (o \cup q \cup h \cup p \cup u) = {}
  /\ Ahead(u, p \cup h \cup q \cup o) /\ Ahead(p, h \cup q \cup o)
  /\ Ahead(h, q \cup o) /\ Ahead(q, o)

Queued(s) == {queue[s][i] : i \in DOMAIN queue[s]}

Rising(q) == \A i, j \in DOMAIN q : i < j => q[i].n < q[j].n
StampsRise(s) ==
  \A i, j \in DOMAIN stamps[s] : i < j => stamps[s][i].frame.n < stamps[s][j].frame.n

FlowInv(s) ==
  /\ Flow(Stream!Offering(s), Queued(s), Stream!InHand(s), pending[s],
          Stream!Published(s), lost[s], offered[s], s \notin told)
  /\ Rising(queue[s]) /\ StampsRise(s)

SkipInv == streaming # 0 => skips >= Cardinality(lost[streaming])

SessionsInv ==
  /\ StreamTyped /\ SessionInv /\ TickInv /\ SkipInv /\ \A s \in Streams : FlowInv(s)

-----------------------------------------------------------------------------
(* Time.                                                                   *)

IsFirst(s, f) == \A g \in offered[s] : f.n =< g.n

\* A stream's frames but its first are of one run of the clock.
ClockInv ==
  streaming # 0 =>
    /\ Stream!Running
    /\ \A f \in offered[streaming] :
         \/ IsFirst(streaming, f)
         \/ /\ f.frame < clock.frame
            /\ tick.at \in {"named", "live"} => f.frame < tick.frame.frame
    /\ tick.at \in {"named", "live"} /\ offered[streaming] # {} =>
         tick.frame.frame < clock.frame

\* Time begins with the first frame that is encoded, and nothing before it is.
TimeInv(s) ==
  /\ \A f, g \in offered[s] : f.n < g.n => f.frame < g.frame \/ IsFirst(s, f)
  /\ base[s] = -1 => pending[s] = {} /\ stamps[s] = <<>>
  /\ base[s] # -1 =>
       /\ offered[s] # {}
       /\ \A f \in Stream!Offering(s) \cup Queued(s) \cup Stream!InHand(s) : ~IsFirst(s, f)
  /\ \A f \in pending[s] \cup Stream!Published(s) :
       base[s] =< f.frame /\ (IsFirst(s, f) => base[s] = f.frame)
  /\ \A i \in DOMAIN stamps[s] : stamps[s][i].at = stamps[s][i].frame.frame - base[s]

TimesInv == SessionsInv /\ ClockInv /\ \A s \in Streams : TimeInv(s)

-----------------------------------------------------------------------------
(* Sets and sequences of frames.                                           *)

LEMMA SameCount == \A F : Stream!Cardinality(F) = Cardinality(F)
  BY DEF Stream!Cardinality, Cardinality

\* The frames of a set can be put in the order of their ticks.
Sortable(F) == F \subseteq Frame /\ IsFiniteSet(F) /\ \A f, g \in F : f.n = g.n => f = g
SortedBy(F, q) == q \in [1..Cardinality(F) -> F] /\ Rising(q)

LEMMA SortExtends ==
  ASSUME NEW F, Sortable(F), F # {},
         \A G : Sortable(G) /\ Cardinality(G) < Cardinality(F) => \E q : SortedBy(G, q)
  PROVE  \E q : SortedBy(F, q)
<1>. DEFINE N == {f.n : f \in F}
<1>1. F \subseteq Frame /\ IsFiniteSet(F) /\ \A f, g \in F : f.n = g.n => f = g
  BY DEF Sortable
<1>2. N \subseteq Nat /\ N # {}
  BY <1>1 DEF Frame
<1>3. PICK x \in N : \A y \in N : x =< y
  BY <1>2, LeastNatural
<1>4. PICK f \in F : f.n = x
  BY <1>3
<1>. DEFINE G == F \ {f}
            c == Cardinality(F)
<1>5. IsFiniteSet(G) /\ Cardinality(G) = c - 1 /\ c \in Nat /\ Cardinality(G) \in Nat
  BY <1>1, <1>4, FS_RemoveElement, FS_CardinalityType
<1>6. Sortable(G)
  BY <1>1, <1>5 DEF Sortable
<1>7. PICK q : SortedBy(G, q)
  BY <1>5, <1>6
<1>8. \A g \in G : g \in F /\ f.n < g.n
  <2>1. ASSUME NEW g \in G PROVE f.n < g.n
    <3>1. f.n =< g.n /\ f.n # g.n /\ f.n \in Nat /\ g.n \in Nat
      BY <1>1, <1>3, <1>4 DEF Frame
    <3>. QED  BY <3>1
  <2>. QED  BY <2>1
<1>. DEFINE r == [i \in 1..c |-> IF i = 1 THEN f ELSE q[i - 1]]
<1>9. q \in [1..c - 1 -> G] /\ \A i, j \in 1..c - 1 : i < j => q[i].n < q[j].n
  BY <1>5, <1>7 DEF SortedBy, Rising
<1>. HIDE DEF c, G
<1>10. r \in [1..c -> F]
  <2>1. ASSUME NEW i \in 1..c PROVE r[i] \in F
    <3>1. CASE i = 1
      BY <1>4, <3>1
    <3>2. CASE i # 1
      <4>1. i - 1 \in 1..c - 1
        BY <1>5, <3>2
      <4>. QED  BY <1>8, <1>9, <3>2, <4>1
    <3>. QED  BY <3>1, <3>2
  <2>. QED  BY <2>1
<1>11. ASSUME NEW i \in 1..c, NEW j \in 1..c, i < j
       PROVE  r[i].n < r[j].n
  <2>1. j # 1 /\ j - 1 \in 1..c - 1 /\ r[j] = q[j - 1]
    BY <1>5, <1>11
  <2>2. CASE i = 1
    BY <1>8, <1>9, <2>1, <2>2
  <2>3. CASE i # 1
    <3>1. i - 1 \in 1..c - 1 /\ r[i] = q[i - 1] /\ i - 1 < j - 1
      BY <1>5, <1>11, <2>3
    <3>. QED  BY <1>9, <2>1, <3>1
  <2>. QED  BY <2>2, <2>3
<1>12. SortedBy(F, r)
  <2>1. DOMAIN r = 1..c
    OBVIOUS
  <2>2. Rising(r)
    BY <1>11, <2>1 DEF Rising
  <2>. QED  BY <1>10, <2>2 DEF SortedBy, c
<1>. QED  BY <1>12

LEMMA SortedExists == ASSUME NEW F, Sortable(F) PROVE \E q : SortedBy(F, q)
<1>. DEFINE T == {k \in Nat : \E G : Sortable(G) /\ Cardinality(G) = k
                                   /\ ~\E q : SortedBy(G, q)}
<1>1. SUFFICES ASSUME ~\E q : SortedBy(F, q)
               PROVE  FALSE
  OBVIOUS
<1>2. Cardinality(F) \in T
  <2>1. Cardinality(F) \in Nat
    BY FS_CardinalityType DEF Sortable
  <2>. QED  BY <1>1, <2>1
<1>3. PICK k \in T : \A y \in T : k =< y
  <2>1. T \subseteq Nat /\ T # {}
    BY <1>2
  <2>. HIDE DEF T
  <2>. QED  BY <2>1, LeastNatural
<1>4. PICK G : Sortable(G) /\ Cardinality(G) = k /\ ~\E q : SortedBy(G, q)
  BY <1>3
<1>5. \A H : Sortable(H) /\ Cardinality(H) < Cardinality(G) => \E q : SortedBy(H, q)
  <2>. SUFFICES ASSUME NEW H, Sortable(H), Cardinality(H) < Cardinality(G),
                       ~\E q : SortedBy(H, q)
                PROVE  FALSE
    OBVIOUS
  <2>1. Cardinality(H) \in Nat
    BY FS_CardinalityType DEF Sortable
  <2>2. Cardinality(H) \in T
    BY <2>1
  <2>3. k =< Cardinality(H) /\ k \in Nat
    BY <1>3, <2>2
  <2>. QED  BY <1>4, <2>1, <2>3
<1>6. CASE G = {}
  <2>1. Cardinality(G) = 0
    BY <1>6, FS_EmptySet
  <2>2. SortedBy(G, [i \in {} |-> i])
    <3>1. 1..Cardinality(G) = {}
      BY <2>1
    <3>. QED  BY <3>1 DEF SortedBy, Rising
  <2>. QED  BY <1>4, <2>2
<1>7. CASE G # {}
  BY <1>4, <1>5, <1>7, SortExtends
<1>. QED  BY <1>6, <1>7

\* The units of a publication are in the order of their ticks, and all of them.
LEMMA ByTickSorts ==
  ASSUME NEW F, Sortable(F)
  PROVE  /\ Stream!ByTick(F) \in [1..Cardinality(F) -> F] /\ Cardinality(F) \in Nat
         /\ Rising(Stream!ByTick(F))
         /\ F = {Stream!ByTick(F)[i] : i \in 1..Cardinality(F)}
<1>1. PICK c : c = Cardinality(F) /\ c = Stream!Cardinality(F)
  BY SameCount
<1>2. c \in Nat /\ IsFiniteSet(F) /\ F \subseteq Frame
  BY <1>1, FS_CardinalityType DEF Sortable
<1>3. \E q \in [1..c -> F] : \A i, j \in DOMAIN q : i < j => q[i].n < q[j].n
  BY <1>1, SortedExists DEF SortedBy, Rising
<1>4. PICK q : /\ q = Stream!ByTick(F) /\ q \in [1..c -> F]
               /\ \A i, j \in DOMAIN q : i < j => q[i].n < q[j].n
  BY <1>1, <1>3, Zenon DEF Stream!ByTick
<1>5. q \in Injection(1..c, F)
  <2>1. ASSUME NEW i \in 1..c, NEW j \in 1..c, q[i] = q[j]
        PROVE  i = j
    <3>1. q[i].n \in Nat /\ q[i].n = q[j].n
      BY <1>2, <1>4, <2>1 DEF Frame
    <3>. QED  BY <1>2, <1>4, <3>1
  <2>. QED  BY <1>4, <2>1 DEF Injection, IsInjective
<1>6. Cardinality(1..c) = c
  BY <1>2, FS_Interval
<1>7. q \in Surjection(1..c, F)
  BY <1>1, <1>2, <1>5, <1>6, FS_Injection
<1>8. F = {q[i] : i \in 1..c}
  BY <1>4, <1>7 DEF Surjection
<1>9. Rising(q)
  BY <1>4 DEF Rising
<1>. QED  BY <1>1, <1>2, <1>4, <1>8, <1>9

-----------------------------------------------------------------------------
(* Frames move along.                                                      *)

Whole(o, q, h, p, u, l, all) ==
  o \subseteq Frame /\ q \subseteq Frame /\ h \subseteq Frame /\ p \subseteq Frame
  /\ u \subseteq Frame /\ l \subseteq Frame /\ all \subseteq Frame

\* The loop's frame is counted, queued, or gone with the thread.
LEMMA LoopLoses ==
  ASSUME NEW o, NEW q, NEW h, NEW p, NEW u, NEW l, NEW all, NEW kept,
         Whole(o, q, h, p, u, l, all), Flow(o, q, h, p, u, l, all, kept)
  PROVE  Flow({}, q, h, p, u, l \cup o, all, kept)
<1>1. (l \cup o) \cap ({} \cup q \cup h \cup p \cup u) = {}
  <2>1. l \cap (q \cup h \cup p \cup u) = {}
    BY Zenon DEF Flow
  <2>2. ASSUME NEW f \in o PROVE f \notin q \cup h \cup p \cup u
    BY <2>2 DEF Whole, Frame, Flow, Ahead
  <2>. QED  BY <2>1, <2>2
<1>. QED  BY <1>1 DEF Flow, Ahead

LEMMA LoopQueues ==
  ASSUME NEW o, NEW q, NEW h, NEW p, NEW u, NEW l, NEW all, NEW kept,
         Flow(o, q, h, p, u, l, all, kept)
  PROVE  Flow({}, q \cup o, h, p, u, l, all, kept)
  BY DEF Flow, Ahead

LEMMA LoopForgets ==
  ASSUME NEW o, NEW q, NEW h, NEW p, NEW u, NEW l, NEW all,
         Flow(o, q, h, p, u, l, all, FALSE)
  PROVE  Flow({}, q, h, p, u, l, all, FALSE)
  BY DEF Flow, Ahead

\* A new frame is behind every other.
LEMMA LoopOffers ==
  ASSUME NEW q, NEW h, NEW p, NEW u, NEW l, NEW all, NEW kept, NEW f \in Frame,
         Whole({}, q, h, p, u, l, all), Flow({}, q, h, p, u, l, all, kept),
         \A g \in all : g.n < f.n
  PROVE  Flow({f}, q, h, p, u, l, all \cup {f}, kept)
<1>1. q \cup h \cup p \cup u \cup l \subseteq all
  BY DEF Flow
<1>2. f \notin all
  BY DEF Frame
<1>. QED  BY <1>1, <1>2 DEF Flow, Ahead

LEMMA ThreadTakes ==
  ASSUME NEW o, NEW q, NEW t, NEW p, NEW u, NEW l, NEW all, NEW kept, NEW f,
         Flow(o, {f} \cup t, {}, p, u, l, all, kept), \A g \in t : f.n < g.n
  PROVE  Flow(o, t, {f}, p, u, l, all, kept)
  BY DEF Flow, Ahead

LEMMA ThreadDrops ==
  ASSUME NEW o, NEW q, NEW h, NEW p, NEW u, NEW l, NEW all, NEW kept,
         Whole(o, q, h, p, u, l, all), Flow(o, q, h, p, u, l, all, kept)
  PROVE  Flow(o, q, {}, p, u, l \cup h, all, kept)
<1>1. (l \cup h) \cap (o \cup q \cup {} \cup p \cup u) = {}
  <2>1. l \cap (o \cup q \cup p \cup u) = {}
    BY Zenon DEF Flow
  <2>2. ASSUME NEW f \in h PROVE f \notin o \cup q \cup p \cup u
    BY <2>2 DEF Whole, Frame, Flow, Ahead
  <2>. QED  BY <2>1, <2>2
<1>. QED  BY <1>1 DEF Flow, Ahead

LEMMA ThreadHolds ==
  ASSUME NEW o, NEW q, NEW h, NEW p, NEW u, NEW l, NEW all, NEW kept,
         Flow(o, q, h, p, u, l, all, kept)
  PROVE  Flow(o, q, {}, p \cup h, u, l, all, kept)
  BY DEF Flow, Ahead

LEMMA ThreadPublishes ==
  ASSUME NEW o, NEW q, NEW h, NEW p, NEW u, NEW l, NEW all, NEW kept, NEW taken,
         taken \subseteq p \cup h,
         Whole(o, q, h, p, u, l, all), Flow(o, q, h, p, u, l, all, kept)
  PROVE  Flow(o, q, {}, {}, u \cup taken, l \cup ((p \cup h) \ taken), all, kept)
<1>. DEFINE shed == (p \cup h) \ taken
<1>1. (l \cup shed) \cap (o \cup q \cup {} \cup {} \cup (u \cup taken)) = {}
  <2>1. l \cap (o \cup q \cup u \cup taken) = {}
    BY DEF Flow
  <2>2. ASSUME NEW f \in shed PROVE f \notin o \cup q \cup u
    BY <2>2 DEF Whole, Frame, Flow, Ahead
  <2>. QED  BY <2>1, <2>2
<1>2. o \cup q \cup u \cup taken \cup l \cup shed = o \cup q \cup h \cup p \cup u \cup l
  OBVIOUS
<1>3. Ahead(u \cup taken, q \cup o)
  BY DEF Flow, Ahead
<1>. QED  BY <1>1, <1>2, <1>3 DEF Flow, Ahead

LEMMA ThreadLeaves ==
  ASSUME NEW o, NEW q, NEW h, NEW p, NEW u, NEW l, NEW all,
         Flow(o, q, h, p, u, l, all, FALSE)
  PROVE  Flow(o, {}, h, p, u, l, all, FALSE)
  BY DEF Flow, Ahead

\* A stream told to stop answers for no frame any more.
LEMMA FlowLess ==
  ASSUME NEW o, NEW q, NEW h, NEW p, NEW u, NEW l, NEW all,
         NEW kept \in BOOLEAN, NEW less \in BOOLEAN, less => kept,
         Flow(o, q, h, p, u, l, all, kept)
  PROVE  Flow(o, q, h, p, u, l, all, less)
  BY DEF Flow

-----------------------------------------------------------------------------
(* Streams that stand still.                                               *)

LEMMA StreamBounds ==
  /\ MaxStreams \in Nat /\ MaxTicks \in Nat /\ MaxShows \in Nat
  /\ ChannelBound \in Nat /\ ResyncsLive \in BOOLEAN
  /\ Streams \subseteq Nat \ {0} /\ Streams = 1..MaxStreams
BY StreamConstants DEF Stream!StreamSessionConstants, Streams, Stream!Stream

LEMMA FramesOf ==
  ASSUME StreamTyped, NEW s \in Streams
  PROVE  Whole(Stream!Offering(s), Queued(s), Stream!InHand(s), pending[s],
               Stream!Published(s), lost[s], offered[s])
<1>1. Stream!Offering(s) \subseteq Frame
  BY DEF Stream!Offering, StreamTyped, ClockTyped
<1>2. Queued(s) \subseteq Frame
  <2>1. queue[s] \in Seq(Frame)
    BY DEF StreamTyped, ThreadTyped
  <2>. QED  BY <2>1, ElementOfSeq, LenProperties DEF Queued
<1>3. Stream!InHand(s) \subseteq Frame
  BY DEF Stream!InHand, StreamTyped, ThreadTyped
<1>4. Stream!Published(s) \subseteq Frame
  <2>1. stamps[s] \in Seq([frame : Frame, at : Int])
    BY DEF StreamTyped, ThreadTyped
  <2>2. \A i \in DOMAIN stamps[s] : stamps[s][i] \in [frame : Frame, at : Int]
    BY <2>1, ElementOfSeq, LenProperties
  <2>. QED  BY <2>2 DEF Stream!Published
<1>5. pending[s] \subseteq Frame /\ lost[s] \subseteq Frame /\ offered[s] \subseteq Frame
  BY DEF StreamTyped, ThreadTyped
<1>. QED  BY <1>1, <1>2, <1>3, <1>4, <1>5 DEF Whole

\* A step that leaves a stream's frames where they are.
LEMMA FlowStands ==
  ASSUME NEW s \in Streams, FlowInv(s), told \subseteq told',
         Stream!Offering(s)' = Stream!Offering(s), Stream!InHand(s)' = Stream!InHand(s),
         queue'[s] = queue[s], pending'[s] = pending[s], stamps'[s] = stamps[s],
         lost'[s] = lost[s], offered'[s] = offered[s]
  PROVE  FlowInv(s)'
<1>1. Queued(s)' = Queued(s) /\ Stream!Published(s)' = Stream!Published(s)
  BY DEF Queued, Stream!Published
<1>2. PICK k, e \in BOOLEAN : k = (s \notin told) /\ e = (s \notin told') /\ (e => k)
  OBVIOUS
<1>3. Flow(Stream!Offering(s), Queued(s), Stream!InHand(s), pending[s],
           Stream!Published(s), lost[s], offered[s], k)
  BY <1>2 DEF FlowInv
<1>4. Flow(Stream!Offering(s), Queued(s), Stream!InHand(s), pending[s],
           Stream!Published(s), lost[s], offered[s], e)
  BY <1>2, <1>3, FlowLess, Zenon
<1>5. Flow(Stream!Offering(s), Queued(s), Stream!InHand(s), pending[s],
           Stream!Published(s), lost[s], offered[s], s \notin told)'
  BY <1>1, <1>2, <1>4, Zenon
<1>6. Rising(queue[s])' /\ StampsRise(s)'
  <2>1. Rising(queue[s]) /\ StampsRise(s)
    BY DEF FlowInv
  <2>. QED  BY <2>1 DEF Rising, StampsRise
<1>. QED  BY <1>5, <1>6 DEF FlowInv

\* A directive moves no frame.
LEMMA DirectiveStands ==
  ASSUME SessionsInv, told \subseteq told',
         UNCHANGED <<tick, ticked, queue, pending, stamps, offered, lost>>,
         \A s \in Streams : Stream!InHand(s)' = Stream!InHand(s)
  PROVE  TickInv' /\ \A s \in Streams : FlowInv(s)'
<1>1. TickInv'
  BY DEF SessionsInv, TickInv
<1>2. ASSUME NEW s \in Streams PROVE FlowInv(s)'
  <2>1. Stream!Offering(s)' = Stream!Offering(s)
    BY DEF Stream!Offering
  <2>. QED  BY <2>1, FlowStands DEF SessionsInv
<1>. QED  BY <1>1, <1>2

LEMMA LossesFinite ==
  ASSUME TickInv, NEW s \in Streams, FlowInv(s)
  PROVE  IsFiniteSet(lost[s]) /\ Cardinality(lost[s]) \in Nat
<1>1. IsFiniteSet(offered[s])
  BY DEF TickInv
<1>2. lost[s] \subseteq offered[s]
  BY DEF FlowInv, Flow
<1>. QED  BY <1>1, <1>2, FS_Subset, FS_CardinalityType

\* What is counted is counted, whoever's it is.
LEMMA LossCounted ==
  ASSUME NEW s \in Streams, SessionsInv, NEW F, IsFiniteSet(F),
         streaming' = streaming, lost' = [lost EXCEPT ![s] = @ \cup F],
         NEW n \in Nat, n >= Cardinality(F), skips' = skips + n
  PROVE  SkipInv'
<1>. SUFFICES ASSUME streaming # 0
              PROVE  skips' >= Cardinality(lost'[streaming])
  BY DEF SkipInv
<1>1. streaming \in Streams /\ skips \in Nat /\ lost \in [Streams -> SUBSET Frame]
  BY DEF SessionsInv, StreamTyped, SessionTyped, ThreadTyped, StreamOrNone
<1>2. IsFiniteSet(lost[streaming]) /\ Cardinality(lost[streaming]) \in Nat
  BY <1>1, LossesFinite DEF SessionsInv
<1>3. skips >= Cardinality(lost[streaming])
  BY DEF SessionsInv, SkipInv
<1>4. Cardinality(F) \in Nat
  BY FS_CardinalityType
<1>5. CASE streaming # s
  <2>1. lost'[streaming] = lost[streaming]
    BY <1>1, <1>5
  <2>. QED  BY <1>1, <1>2, <1>3, <2>1
<1>6. CASE streaming = s
  <2>. DEFINE L == lost[s]
  <2>1. lost'[streaming] = L \cup F
    BY <1>1, <1>6
  <2>2. /\ IsFiniteSet(L \cup F) /\ IsFiniteSet(L \cap F)
        /\ Cardinality(L \cup F) = Cardinality(L) + Cardinality(F) - Cardinality(L \cap F)
    BY <1>2, <1>6, FS_Union, FS_Intersection
  <2>3. Cardinality(L \cap F) \in Nat /\ Cardinality(L \cup F) \in Nat
    BY <2>2, FS_CardinalityType
  <2>. HIDE DEF L
  <2>4. Cardinality(L) \in Nat /\ skips >= Cardinality(L)
    BY <1>2, <1>3, <1>6 DEF L
  <2>5. PICK a, b, c, d \in Nat :
          /\ a = Cardinality(L) /\ b = Cardinality(F) /\ c = Cardinality(L \cap F)
          /\ d = Cardinality(L \cup F) /\ d = a + b - c
    BY <1>4, <2>2, <2>3, <2>4
  <2>6. n >= b /\ skips >= a /\ skips' >= d
    BY <1>1, <2>4, <2>5
  <2>. QED  BY <2>1, <2>5, <2>6
<1>. QED  BY <1>5, <1>6

-----------------------------------------------------------------------------
(* The directives.                                                         *)

LEMMA ClockDirectiveKeeps ==
  ASSUME SessionsInv, clock' \in [shows : Nat, frame : Nat \cup {-1}],
         UNCHANGED <<idle, ticked, tick, live, streaming, opened, closing, skips,
                     thread, told, transport, queue, base, pending, stamps,
                     offered, lost>>
  PROVE  SessionsInv'
<1>1. StreamTyped'
  BY DEF SessionsInv, StreamTyped, ClockTyped, SessionTyped, ThreadTyped
<1>2. SessionInv' /\ SkipInv'
  BY DEF SessionsInv, SessionInv, SkipInv
<1>3. \A s \in Streams : Stream!InHand(s)' = Stream!InHand(s)
  BY DEF Stream!InHand
<1>4. TickInv' /\ \A s \in Streams : FlowInv(s)'
  BY <1>3, DirectiveStands
<1>. QED  BY <1>1, <1>2, <1>4 DEF SessionsInv

LEMMA ShowStartKeeps == ASSUME SessionsInv, Stream!ShowStart PROVE SessionsInv'
<1>1. clock' \in [shows : Nat, frame : Nat \cup {-1}]
  BY DEF SessionsInv, StreamTyped, ClockTyped, Stream!ShowStart, Stream!ClockStarts
<1>2. UNCHANGED <<idle, ticked, tick, live, streaming, opened, closing, skips,
                  thread, told, transport, queue, base, pending, stamps, offered, lost>>
  BY DEF Stream!ShowStart, Stream!directiveVars, Stream!streamVars, Stream!history
<1>. QED  BY <1>1, <1>2, ClockDirectiveKeeps

LEMMA ResyncKeeps == ASSUME SessionsInv, Stream!Resync PROVE SessionsInv'
<1>1. clock' \in [shows : Nat, frame : Nat \cup {-1}]
  BY DEF SessionsInv, StreamTyped, ClockTyped, Stream!Resync, Stream!ClockStarts
<1>2. UNCHANGED <<idle, ticked, tick, live, streaming, opened, closing, skips,
                  thread, told, transport, queue, base, pending, stamps, offered, lost>>
  BY DEF Stream!Resync, Stream!directiveVars, Stream!streamVars, Stream!history
<1>. QED  BY <1>1, <1>2, ClockDirectiveKeeps

LEMMA StreamStartKeeps == ASSUME SessionsInv, Stream!StreamStart PROVE SessionsInv'
<1>. DEFINE new == opened + 1
<1>1. /\ streaming = 0 /\ opened \in 0..MaxStreams /\ opened < MaxStreams
      /\ new \in Streams /\ new \in StreamOrNone /\ tick.to =< opened
  BY StreamBounds
  DEF SessionsInv, StreamTyped, SessionTyped, SessionInv, StreamOrNone,
      Stream!StreamStart, Stream!Free
<1>2. /\ live' = live /\ live = FALSE /\ opened' = new /\ streaming' = new /\ skips' = 0
      /\ closing' = [at |-> "opened", stream |-> 0, show |-> FALSE]
      /\ told' = told /\ thread' = [thread EXCEPT ![new].at = "opening"]
      /\ transport' = [transport EXCEPT ![new] = "up"]
      /\ UNCHANGED <<clock, idle, ticked, tick, queue, base, pending, stamps, offered, lost>>
  BY DEF Stream!StreamStart, Stream!Opened, Stream!clockVars, Stream!history,
         Stream!Resting, Stream!Nobody, SessionsInv, StreamTyped, SessionTyped
<1>3. /\ thread[new].at = "none" /\ offered[new] = {} /\ new \notin told
      /\ lost[new] = {}
  <2>1. new > opened
    BY <1>1
  <2>2. thread[new].at = "none" /\ offered[new] = {} /\ new \notin told
    BY <1>1, <2>1 DEF SessionsInv, SessionInv
  <2>3. lost[new] \subseteq offered[new]
    BY <1>1 DEF SessionsInv, FlowInv, Flow
  <2>. QED  BY <2>2, <2>3
<1>. HIDE DEF new
<1>4. StreamTyped'
  <2>1. ClockTyped'
    BY <1>2 DEF SessionsInv, StreamTyped, ClockTyped
  <2>2. SessionTyped'
    <3>1. new \in 0..MaxStreams
      BY <1>1, StreamBounds
    <3>2. /\ transport' \in [Streams -> {"none", "up", "told", "down"}]
          /\ closing' \in [at : {"free", "opened", "thread", "transport"},
                           stream : StreamOrNone, show : BOOLEAN]
      BY <1>2 DEF SessionsInv, StreamTyped, SessionTyped, StreamOrNone
    <3>. QED  BY <1>1, <1>2, <3>1, <3>2 DEF SessionsInv, StreamTyped, SessionTyped
  <2>3. ThreadTyped'
    BY <1>2 DEF SessionsInv, StreamTyped, ThreadTyped
  <2>. QED  BY <2>1, <2>2, <2>3 DEF StreamTyped
<1>5. \A s \in Streams : /\ s # new => thread'[s] = thread[s]
                         /\ thread'[new].at = "opening"
  BY <1>1, <1>2 DEF SessionsInv, StreamTyped, ThreadTyped
<1>6. SessionInv'
  <2>1. ASSUME NEW s \in Streams
        PROVE  /\ thread'[s].at = "done" => s \in told'
               /\ s > opened' => thread'[s].at = "none" /\ offered'[s] = {} /\ s \notin told'
    <3>1. CASE s = new
      <4>1. thread'[s].at = "opening" /\ opened' = s
        BY <1>2, <1>5, <3>1
      <4>2. ~(s > opened')
        BY <4>1, StreamBounds
      <4>. QED  BY <4>1, <4>2
    <3>2. CASE s # new
      <4>1. s > new => s > opened
        BY <1>1, StreamBounds DEF new
      <4>. QED  BY <1>2, <1>5, <3>2, <4>1 DEF SessionsInv, SessionInv
    <3>. QED  BY <3>1, <3>2
  <2>2. new # 0 /\ streaming' =< opened' /\ tick'.to =< opened'
    <3>1. new \in Nat \ {0} /\ new = opened + 1 /\ opened \in Nat /\ tick.to \in Nat
      BY <1>1, StreamBounds DEF new, SessionsInv, StreamTyped, ClockTyped, StreamOrNone
    <3>. QED  BY <1>1, <1>2, <3>1
  <2>. QED  BY <1>2, <1>3, <2>1, <2>2 DEF SessionInv
<1>7. SkipInv'
  <2>1. lost'[new] = {} /\ Cardinality({}) = 0
    BY <1>2, <1>3, FS_EmptySet
  <2>. QED  BY <1>2, <2>1 DEF SkipInv
<1>8. \A s \in Streams : Stream!InHand(s)' = Stream!InHand(s)
  BY <1>3, <1>5 DEF Stream!InHand
<1>9. TickInv' /\ \A s \in Streams : FlowInv(s)'
  BY <1>2, <1>8, DirectiveStands
<1>. QED  BY <1>4, <1>6, <1>7, <1>9 DEF SessionsInv

LEMMA GoesLiveKeeps == ASSUME SessionsInv, Stream!GoesLive PROVE SessionsInv'
<1>1. /\ closing.at = "opened" /\ live' = TRUE
      /\ closing' = [at |-> "free", stream |-> 0, show |-> FALSE]
      /\ UNCHANGED <<clock, idle, ticked, tick, streaming, opened, skips, thread, told,
                     transport, queue, base, pending, stamps, offered, lost>>
  BY DEF Stream!GoesLive, Stream!Resting, Stream!Nobody, Stream!clockVars,
         Stream!streamVars, Stream!history
<1>2. StreamTyped'
  BY <1>1 DEF SessionsInv, StreamTyped, ClockTyped, SessionTyped, ThreadTyped, StreamOrNone
<1>3. SessionInv' /\ SkipInv'
  BY <1>1 DEF SessionsInv, SessionInv, SkipInv
<1>4. \A s \in Streams : Stream!InHand(s)' = Stream!InHand(s)
  BY <1>1 DEF Stream!InHand
<1>5. TickInv' /\ \A s \in Streams : FlowInv(s)'
  BY <1>1, <1>4, DirectiveStands
<1>. QED  BY <1>2, <1>3, <1>5 DEF SessionsInv

\* The session is taken, by a stop that waits or by one that does not.
LEMMA SessionTaken ==
  ASSUME SessionsInv, streaming # 0, closing.at = "free",
         closing' \in [at : {"free", "thread"}, stream : StreamOrNone, show : BOOLEAN],
         live' \in BOOLEAN, closing'.at = "free" => ~live',
         streaming' = 0, told' = told \cup {streaming},
         clock' \in [shows : Nat, frame : Nat \cup {-1}],
         transport' \in [Streams -> {"none", "up", "told", "down"}],
         UNCHANGED <<idle, ticked, tick, opened, skips, thread, queue, base, pending,
                     stamps, offered, lost>>
  PROVE  SessionsInv'
<1>1. streaming \in Streams /\ streaming =< opened /\ opened \in Nat
  BY StreamBounds
  DEF SessionsInv, StreamTyped, SessionTyped, SessionInv, StreamOrNone
<1>2. StreamTyped'
  <2>1. ClockTyped' /\ ThreadTyped'
    BY DEF SessionsInv, StreamTyped, ClockTyped, ThreadTyped
  <2>2. SessionTyped'
    BY <1>1 DEF SessionsInv, StreamTyped, SessionTyped, StreamOrNone
  <2>. QED  BY <2>1, <2>2 DEF StreamTyped
<1>3. SessionInv'
  <2>1. 0 \notin told' /\ 0 =< opened
    <3>1. told \subseteq Streams
      BY DEF SessionsInv, StreamTyped, SessionTyped
    <3>. QED  BY <1>1, <3>1, StreamBounds
  <2>2. ASSUME NEW s \in Streams
        PROVE  /\ thread'[s].at = "done" => s \in told'
               /\ s > opened' => thread'[s].at = "none" /\ offered'[s] = {} /\ s \notin told'
    <3>1. s > opened => s # streaming
      BY <1>1, StreamBounds
    <3>. QED  BY <3>1 DEF SessionsInv, SessionInv
  <2>3. tick'.to =< opened'
    BY DEF SessionsInv, SessionInv
  <2>. QED  BY <2>1, <2>2, <2>3 DEF SessionInv
<1>4. SkipInv'
  BY DEF SkipInv
<1>5. \A s \in Streams : Stream!InHand(s)' = Stream!InHand(s)
  BY DEF Stream!InHand
<1>6. TickInv' /\ \A s \in Streams : FlowInv(s)'
  BY <1>5, DirectiveStands
<1>. QED  BY <1>2, <1>3, <1>4, <1>6 DEF SessionsInv

LEMMA StopsKeeps ==
  ASSUME SessionsInv, NEW show \in BOOLEAN, Stream!Stops(show) PROVE SessionsInv'
<1>1. /\ closing.at = "free" /\ live /\ live' = live
      /\ closing' = [at |-> "thread", stream |-> streaming, show |-> show]
      /\ streaming' = 0 /\ told' = told \cup {streaming}
      /\ UNCHANGED <<clock, transport, idle, ticked, tick, opened, skips, thread, queue,
                     base, pending, stamps, offered, lost>>
  BY DEF Stream!Stops, Stream!Free, Stream!Nobody, Stream!clockVars, Stream!threads,
         Stream!history
<1>2. streaming # 0
  BY <1>1 DEF SessionsInv, SessionInv
<1>3. /\ closing' \in [at : {"free", "thread"}, stream : StreamOrNone, show : BOOLEAN]
      /\ closing'.at = "thread" /\ live' \in BOOLEAN
  BY <1>1 DEF SessionsInv, StreamTyped, SessionTyped
<1>4. /\ clock' \in [shows : Nat, frame : Nat \cup {-1}]
      /\ transport' \in [Streams -> {"none", "up", "told", "down"}]
  BY <1>1 DEF SessionsInv, StreamTyped, SessionTyped, ClockTyped
<1>5. closing'.at = "free" => ~live'
  BY <1>3
<1>. QED  BY <1>1, <1>2, <1>3, <1>4, <1>5, SessionTaken

LEMMA ThreadAwaitedKeeps == ASSUME SessionsInv, Stream!ThreadAwaited PROVE SessionsInv'
<1>1. /\ closing.at = "thread" /\ closing' = [closing EXCEPT !.at = "transport"]
      /\ transport' = [transport EXCEPT ![closing.stream] = IF @ = "up" THEN "told" ELSE @]
      /\ UNCHANGED <<clock, idle, ticked, tick, live, streaming, opened, skips, thread,
                     told, queue, base, pending, stamps, offered, lost>>
  BY DEF Stream!ThreadAwaited, Stream!clockVars, Stream!threads, Stream!history
<1>2. StreamTyped'
  <2>1. ClockTyped' /\ ThreadTyped'
    BY <1>1 DEF SessionsInv, StreamTyped, ClockTyped, ThreadTyped
  <2>2. /\ transport' \in [Streams -> {"none", "up", "told", "down"}]
        /\ closing' \in [at : {"free", "opened", "thread", "transport"},
                         stream : StreamOrNone, show : BOOLEAN]
    BY <1>1 DEF SessionsInv, StreamTyped, SessionTyped
  <2>3. SessionTyped'
    BY <1>1, <2>2 DEF SessionsInv, StreamTyped, SessionTyped
  <2>. QED  BY <2>1, <2>3 DEF StreamTyped
<1>3. SessionInv' /\ SkipInv'
  <2>1. closing'.at = "transport"
    BY <1>1 DEF SessionsInv, StreamTyped, SessionTyped
  <2>. QED  BY <1>1, <2>1 DEF SessionsInv, SessionInv, SkipInv
<1>4. \A s \in Streams : Stream!InHand(s)' = Stream!InHand(s)
  BY <1>1 DEF Stream!InHand
<1>5. TickInv' /\ \A s \in Streams : FlowInv(s)'
  BY <1>1, <1>4, DirectiveStands
<1>. QED  BY <1>2, <1>3, <1>5 DEF SessionsInv

LEMMA StopEndsKeeps == ASSUME SessionsInv, Stream!StopEnds PROVE SessionsInv'
<1>1. /\ closing.at = "transport" /\ live' = FALSE
      /\ closing' = [at |-> "free", stream |-> 0, show |-> FALSE]
      /\ clock' = IF closing.show THEN [clock EXCEPT !.frame = -1] ELSE clock
      /\ UNCHANGED <<idle, ticked, tick, streaming, opened, skips, thread, told,
                     transport, queue, base, pending, stamps, offered, lost>>
  BY DEF Stream!StopEnds, Stream!Resting, Stream!Nobody, Stream!streamVars, Stream!history
<1>2. StreamTyped'
  BY <1>1 DEF SessionsInv, StreamTyped, ClockTyped, SessionTyped, ThreadTyped, StreamOrNone
<1>3. SessionInv' /\ SkipInv'
  BY <1>1 DEF SessionsInv, SessionInv, SkipInv
<1>4. \A s \in Streams : Stream!InHand(s)' = Stream!InHand(s)
  BY <1>1 DEF Stream!InHand
<1>5. TickInv' /\ \A s \in Streams : FlowInv(s)'
  BY <1>1, <1>4, DirectiveStands
<1>. QED  BY <1>2, <1>3, <1>5 DEF SessionsInv

LEMMA ShowStopForcedKeeps == ASSUME SessionsInv, Stream!ShowStopForced PROVE SessionsInv'
<1>1. /\ closing.at = "free" /\ clock' = [clock EXCEPT !.frame = -1]
      /\ UNCHANGED <<idle, ticked, tick, opened, closing, skips, thread, queue, base,
                     pending, stamps, offered, lost>>
  BY DEF Stream!ShowStopForced, Stream!Free, Stream!threads, Stream!history
<1>2. clock' \in [shows : Nat, frame : Nat \cup {-1}]
  BY <1>1 DEF SessionsInv, StreamTyped, ClockTyped
<1>3. CASE ~live /\ UNCHANGED <<told, transport, streaming, live>>
  BY <1>1, <1>2, <1>3, ClockDirectiveKeeps
<1>4. CASE live /\ Stream!Abandon(streaming) /\ streaming' = 0 /\ live' = FALSE
  <2>1. streaming # 0
    BY <1>1, <1>4 DEF SessionsInv, SessionInv
  <2>2. /\ told' = told \cup {streaming}
        /\ transport' \in [Streams -> {"none", "up", "told", "down"}]
    BY <1>4 DEF Stream!Abandon, SessionsInv, StreamTyped, SessionTyped
  <2>3. closing' \in [at : {"free", "thread"}, stream : StreamOrNone, show : BOOLEAN]
    BY <1>1 DEF SessionsInv, StreamTyped, SessionTyped
  <2>4. live' \in BOOLEAN /\ ~live'
    BY <1>4
  <2>. QED  BY <1>1, <1>2, <1>4, <2>1, <2>2, <2>3, <2>4, SessionTaken
<1>. QED
  BY <1>3, <1>4 DEF Stream!ShowStopForced, Stream!Nobody

-----------------------------------------------------------------------------
(* The render loop.                                                        *)

LEMMA TickBeginsKeeps == ASSUME SessionsInv, Stream!TickBegins PROVE SessionsInv'
<1>. DEFINE named == IF Stream!Running THEN clock.frame ELSE idle + 1
            new == [n |-> ticked + 1, frame |-> named]
<1>1. /\ tick.at = "due" /\ ticked' = ticked + 1
      /\ tick' = [at |-> "named", to |-> 0, frame |-> new]
      /\ UNCHANGED <<live, streaming, opened, closing, skips, thread, told, transport,
                     queue, base, pending, stamps, offered, lost>>
  BY DEF Stream!TickBegins, Stream!directiveVars, Stream!streamVars, Stream!history,
         Stream!Nobody
<1>2. clock \in [shows : Nat, frame : Nat \cup {-1}] /\ idle \in Nat /\ ticked \in Nat
  BY DEF SessionsInv, StreamTyped, ClockTyped
<1>3. clock' \in [shows : Nat, frame : Nat \cup {-1}] /\ idle' \in Nat
  <2>1. CASE Stream!Running
    <3>1. clock' = [clock EXCEPT !.frame = @ + 1] /\ idle' = idle
      BY <2>1 DEF Stream!TickBegins
    <3>. QED  BY <1>2, <2>1, <3>1 DEF Stream!Running
  <2>2. CASE ~Stream!Running
    BY <1>2, <2>2 DEF Stream!TickBegins
  <2>. QED  BY <2>1, <2>2
<1>4. named \in Nat
  BY <1>2 DEF Stream!Running
<1>. HIDE DEF named
<1>5. new \in Frame /\ new.n = ticked'
  BY <1>1, <1>2, <1>4 DEF Frame
<1>. HIDE DEF new
<1>6. StreamTyped'
  <2>1. ClockTyped'
    BY <1>1, <1>2, <1>3, <1>5 DEF ClockTyped, StreamOrNone
  <2>2. SessionTyped' /\ ThreadTyped'
    BY <1>1 DEF SessionsInv, StreamTyped, SessionTyped, ThreadTyped
  <2>. QED  BY <2>1, <2>2 DEF StreamTyped
<1>7. SessionInv' /\ SkipInv'
  <2>1. opened >= 0
    BY DEF SessionsInv, StreamTyped, SessionTyped
  <2>. QED  BY <1>1, <2>1 DEF SessionsInv, SessionInv, SkipInv
<1>8. TickInv'
  <2>1. ASSUME NEW s \in Streams, NEW f \in offered[s] PROVE f.n =< ticked' /\ f.n < ticked'
    <3>1. f \in Frame /\ f.n =< ticked
      BY DEF SessionsInv, TickInv, StreamTyped, ThreadTyped
    <3>. QED  BY <1>1, <1>2, <3>1 DEF Frame
  <2>2. \A s \in Streams : IsFiniteSet(offered[s])
                           /\ \A f, g \in offered[s] : f.n = g.n => f = g
    BY DEF SessionsInv, TickInv
  <2>. QED  BY <1>1, <1>5, <2>1, <2>2 DEF TickInv
<1>9. ASSUME NEW s \in Streams PROVE FlowInv(s)'
  <2>1. Stream!Offering(s)' = Stream!Offering(s)
    <3>1. s # 0 /\ tick.to = 0
      BY <1>1, StreamBounds DEF SessionsInv, TickInv
    <3>. QED  BY <1>1, <3>1 DEF Stream!Offering
  <2>2. Stream!InHand(s)' = Stream!InHand(s)
    BY <1>1 DEF Stream!InHand
  <2>. QED  BY <1>1, <2>1, <2>2, FlowStands DEF SessionsInv
<1>. QED  BY <1>6, <1>7, <1>8, <1>9 DEF SessionsInv

\* The loop goes on with a frame that is not a stream's, or not any more.
LEMMA LoopGoesOn ==
  ASSUME SessionsInv, NEW a \in {"due", "live"}, tick.to = 0, a = "live" => tick.at = "named",
         tick' = [tick EXCEPT !.at = a, !.to = 0],
         UNCHANGED <<clock, idle, ticked, live, streaming, opened, closing, skips, thread,
                     told, transport, queue, base, pending, stamps, offered, lost>>
  PROVE  SessionsInv'
<1>1. tick'.at = a /\ tick'.to = 0 /\ tick'.frame = tick.frame
  BY DEF SessionsInv, StreamTyped, ClockTyped
<1>2. StreamTyped'
  <2>1. ClockTyped'
    BY DEF SessionsInv, StreamTyped, ClockTyped, StreamOrNone
  <2>2. SessionTyped' /\ ThreadTyped'
    BY DEF SessionsInv, StreamTyped, SessionTyped, ThreadTyped
  <2>. QED  BY <2>1, <2>2 DEF StreamTyped
<1>3. SessionInv' /\ SkipInv'
  <2>1. opened >= 0
    BY DEF SessionsInv, StreamTyped, SessionTyped
  <2>. QED  BY <1>1, <2>1 DEF SessionsInv, SessionInv, SkipInv
<1>4. TickInv'
  BY <1>1 DEF SessionsInv, TickInv
<1>5. ASSUME NEW s \in Streams PROVE FlowInv(s)'
  <2>1. Stream!Offering(s)' = Stream!Offering(s)
    BY <1>1, StreamBounds DEF Stream!Offering
  <2>2. Stream!InHand(s)' = Stream!InHand(s)
    BY DEF Stream!InHand
  <2>. QED  BY <2>1, <2>2, FlowStands DEF SessionsInv
<1>. QED  BY <1>2, <1>3, <1>4, <1>5 DEF SessionsInv

LEMMA ReadsStateKeeps == ASSUME SessionsInv, Stream!ReadsState PROVE SessionsInv'
<1>1. PICK a \in {"due", "live"} : a = IF live THEN "live" ELSE "due"
  OBVIOUS
<1>2. tick.at = "named" /\ tick' = [tick EXCEPT !.at = a]
  BY <1>1 DEF Stream!ReadsState
<1>3. tick.to = 0
  BY <1>2 DEF SessionsInv, TickInv
<1>4. tick' = [tick EXCEPT !.at = a, !.to = 0]
  BY <1>2, <1>3 DEF SessionsInv, StreamTyped, ClockTyped
<1>5. UNCHANGED <<clock, idle, ticked, live, streaming, opened, closing, skips, thread,
                  told, transport, queue, base, pending, stamps, offered, lost>>
  BY DEF Stream!ReadsState, Stream!clockVars, Stream!directiveVars, Stream!streamVars,
         Stream!history
<1>. QED  BY <1>2, <1>3, <1>4, <1>5, LoopGoesOn

LEMMA TakesSenderKeeps == ASSUME SessionsInv, Stream!TakesSender PROVE SessionsInv'
<1>1. /\ tick.at = "live"
      /\ tick' = [tick EXCEPT !.at = IF streaming = 0 THEN "due" ELSE "draws",
                              !.to = streaming]
      /\ offered' = IF streaming = 0 THEN offered
                    ELSE [offered EXCEPT ![streaming] = @ \cup {tick.frame}]
      /\ UNCHANGED <<clock, idle, ticked, live, streaming, opened, closing, skips, thread,
                     told, transport, queue, base, pending, stamps, lost>>
  BY DEF Stream!TakesSender, Stream!Nobody, Stream!clockVars, Stream!directiveVars,
         Stream!streamVars
<1>2. tick.to = 0
  BY <1>1 DEF SessionsInv, TickInv
<1>3. CASE streaming = 0
  BY <1>1, <1>2, <1>3, LoopGoesOn
<1>4. CASE streaming # 0
  <2>1. /\ streaming \in Streams /\ streaming \notin told /\ streaming =< opened
        /\ tick.frame \in Frame /\ tick.frame.n = ticked /\ ticked \in Nat
        /\ offered \in [Streams -> SUBSET Frame]
    BY <1>1, <1>4
    DEF SessionsInv, StreamTyped, ClockTyped, SessionTyped, ThreadTyped, SessionInv,
        TickInv, StreamOrNone
  <2>2. tick'.at = "draws" /\ tick'.to = streaming /\ tick'.frame = tick.frame
    BY <1>1, <1>4 DEF SessionsInv, StreamTyped, ClockTyped
  <2>3. /\ offered'[streaming] = offered[streaming] \cup {tick.frame}
        /\ \A s \in Streams : s # streaming => offered'[s] = offered[s]
    BY <1>1, <1>4, <2>1
  <2>4. \A s \in Streams : \A f \in offered[s] : f \in Frame /\ f.n < ticked
    BY <1>1, <2>1 DEF SessionsInv, TickInv
  <2>5. StreamTyped'
    <3>1. ClockTyped'
      BY <1>1, <1>4, <2>1 DEF SessionsInv, StreamTyped, ClockTyped, StreamOrNone
    <3>2. SessionTyped' /\ ThreadTyped'
      BY <1>1, <1>4, <2>1 DEF SessionsInv, StreamTyped, SessionTyped, ThreadTyped
    <3>. QED  BY <3>1, <3>2 DEF StreamTyped
  <2>6. SessionInv' /\ SkipInv'
    <3>1. ASSUME NEW s \in Streams, s > opened PROVE offered'[s] = {}
      <4>1. opened \in Nat
        BY StreamBounds DEF SessionsInv, StreamTyped, SessionTyped
      <4>2. s # streaming
        BY <2>1, <3>1, <4>1, StreamBounds
      <4>. QED  BY <2>3, <3>1, <4>2 DEF SessionsInv, SessionInv
    <3>. QED  BY <1>1, <2>1, <2>2, <3>1 DEF SessionsInv, SessionInv, SkipInv
  <2>7. TickInv'
    <3>1. ASSUME NEW s \in Streams
          PROVE  /\ IsFiniteSet(offered'[s])
                 /\ \A f \in offered'[s] : f.n =< ticked
                 /\ \A f, g \in offered'[s] : f.n = g.n => f = g
      <4>1. IsFiniteSet(offered[s]) /\ \A f, g \in offered[s] : f.n = g.n => f = g
        BY DEF SessionsInv, TickInv
      <4>2. CASE s = streaming
        <5>1. IsFiniteSet(offered'[s])
          BY <2>3, <4>1, <4>2, FS_AddElement
        <5>. QED  BY <2>1, <2>3, <2>4, <4>1, <4>2, <5>1 DEF Frame
      <4>3. CASE s # streaming
        BY <2>1, <2>3, <2>4, <4>1, <4>3 DEF Frame
      <4>. QED  BY <4>2, <4>3
    <3>. QED  BY <1>1, <1>4, <2>1, <2>2, <3>1 DEF TickInv
  <2>8. ASSUME NEW s \in Streams PROVE FlowInv(s)'
    <3>1. /\ Stream!InHand(s)' = Stream!InHand(s) /\ Stream!Published(s)' = Stream!Published(s)
          /\ Queued(s)' = Queued(s) /\ Stream!Offering(s) = {}
      BY <1>1, <1>2, StreamBounds DEF Stream!InHand, Stream!Published, Queued, Stream!Offering
    <3>2. CASE s # streaming
      <4>1. Stream!Offering(s)' = Stream!Offering(s)
        BY <2>2, <3>1, <3>2 DEF Stream!Offering
      <4>. QED  BY <1>1, <2>3, <3>1, <3>2, <4>1, FlowStands DEF SessionsInv
    <3>3. CASE s = streaming
      <4>1. Stream!Offering(s)' = {tick.frame}
        BY <2>2, <3>3 DEF Stream!Offering
      <4>2. PICK kept \in BOOLEAN : kept = (s \notin told) /\ kept = (s \notin told')
        BY <1>1
      <4>3. Flow({}, Queued(s), Stream!InHand(s), pending[s], Stream!Published(s), lost[s],
                 offered[s], kept)
        BY <3>1, <4>2 DEF SessionsInv, FlowInv
      <4>4. Whole({}, Queued(s), Stream!InHand(s), pending[s], Stream!Published(s), lost[s],
                  offered[s])
        BY <3>1, FramesOf DEF SessionsInv
      <4>5. \A g \in offered[s] : g.n < tick.frame.n
        BY <2>1, <2>4
      <4>6. Flow({tick.frame}, Queued(s), Stream!InHand(s), pending[s], Stream!Published(s),
                 lost[s], offered[s] \cup {tick.frame}, kept)
        BY <2>1, <4>3, <4>4, <4>5, LoopOffers
      <4>7. Flow(Stream!Offering(s), Queued(s), Stream!InHand(s), pending[s],
                 Stream!Published(s), lost[s], offered[s], s \notin told)'
        BY <1>1, <2>3, <3>1, <3>3, <4>1, <4>2, <4>6
      <4>8. Rising(queue[s])' /\ StampsRise(s)'
        <5>1. Rising(queue[s]) /\ StampsRise(s)
          BY DEF SessionsInv, FlowInv
        <5>. QED  BY <1>1, <5>1 DEF Rising, StampsRise
      <4>. QED  BY <4>7, <4>8 DEF FlowInv
    <3>. QED  BY <3>2, <3>3
  <2>. QED  BY <2>5, <2>6, <2>7, <2>8 DEF SessionsInv
<1>. QED  BY <1>3, <1>4

\* The loop is rid of its frame; what became of it is the stream's affair.
LEMMA LoopRests ==
  ASSUME SessionsInv, NEW s \in Streams, s = tick.to,
         tick' = [tick EXCEPT !.at = "due", !.to = 0],
         UNCHANGED <<clock, idle, ticked, live, streaming, opened, closing, thread, told,
                     transport, base, pending, stamps, offered>>,
         skips' \in Nat, SkipInv', FlowInv(s)',
         queue' \in [Streams -> Seq(Frame)], lost' \in [Streams -> SUBSET Frame],
         \A r \in Streams : r # s => queue'[r] = queue[r] /\ lost'[r] = lost[r]
  PROVE  SessionsInv'
<1>1. tick'.at = "due" /\ tick'.to = 0 /\ tick'.frame = tick.frame
  BY DEF SessionsInv, StreamTyped, ClockTyped
<1>2. StreamTyped'
  <2>1. ClockTyped'
    BY DEF SessionsInv, StreamTyped, ClockTyped, StreamOrNone
  <2>2. SessionTyped' /\ ThreadTyped'
    BY DEF SessionsInv, StreamTyped, SessionTyped, ThreadTyped
  <2>. QED  BY <2>1, <2>2 DEF StreamTyped
<1>3. SessionInv'
  <2>1. opened >= 0
    BY DEF SessionsInv, StreamTyped, SessionTyped
  <2>. QED  BY <1>1, <2>1 DEF SessionsInv, SessionInv
<1>4. TickInv'
  BY <1>1 DEF SessionsInv, TickInv
<1>5. ASSUME NEW r \in Streams PROVE FlowInv(r)'
  <2>1. CASE r # s
    <3>1. Stream!Offering(r)' = Stream!Offering(r)
      BY <1>1, <2>1, StreamBounds DEF Stream!Offering
    <3>2. Stream!InHand(r)' = Stream!InHand(r)
      BY DEF Stream!InHand
    <3>. QED  BY <2>1, <3>1, <3>2, FlowStands DEF SessionsInv
  <2>2. CASE r = s
    BY <2>2
  <2>. QED  BY <2>1, <2>2
<1>. QED  BY <1>2, <1>3, <1>4, <1>5 DEF SessionsInv

LEMMA HandsOverKeeps == ASSUME SessionsInv, Stream!HandsOver PROVE SessionsInv'
<1>0. PICK s, f : s = tick.to /\ f = tick.frame
  OBVIOUS
<1>1. /\ tick.at = "draws" /\ tick' = [tick EXCEPT !.at = "due", !.to = 0]
      /\ UNCHANGED <<clock, idle, ticked, live, streaming, opened, closing, thread, told,
                     transport, base, pending, stamps, offered>>
  BY DEF Stream!HandsOver, Stream!Nobody, Stream!clockVars, Stream!directiveVars
<1>2. s \in Streams /\ f \in Frame
  <2>1. s # 0
    BY <1>0, <1>1 DEF SessionsInv, TickInv
  <2>. QED  BY <1>0, <2>1 DEF SessionsInv, StreamTyped, ClockTyped, StreamOrNone
<1>3. /\ Stream!Offering(s) = {f} /\ Stream!Offering(s)' = {}
      /\ Stream!InHand(s)' = Stream!InHand(s) /\ Stream!Published(s)' = Stream!Published(s)
  <2>1. tick'.to # s
    BY <1>1, <1>2, StreamBounds DEF SessionsInv, StreamTyped, ClockTyped
  <2>. QED  BY <1>0, <1>1, <2>1 DEF Stream!Offering, Stream!InHand, Stream!Published
<1>4. /\ skips \in Nat /\ queue \in [Streams -> Seq(Frame)] /\ queue[s] \in Seq(Frame)
      /\ lost \in [Streams -> SUBSET Frame]
  BY <1>2 DEF SessionsInv, StreamTyped, SessionTyped, ThreadTyped
<1>5. PICK kept \in BOOLEAN : kept = (s \notin told) /\ kept = (s \notin told)'
  BY <1>1
<1>6. /\ Whole({f}, Queued(s), Stream!InHand(s), pending[s], Stream!Published(s), lost[s],
               offered[s])
      /\ Flow({f}, Queued(s), Stream!InHand(s), pending[s], Stream!Published(s), lost[s],
              offered[s], kept)
      /\ Rising(queue[s]) /\ StampsRise(s)
  <2>1. Whole({f}, Queued(s), Stream!InHand(s), pending[s], Stream!Published(s), lost[s],
              offered[s])
    BY <1>2, <1>3, FramesOf DEF SessionsInv
  <2>. QED  BY <1>2, <1>3, <1>5, <2>1 DEF SessionsInv, FlowInv
<1>7. StampsRise(s)'
  BY <1>1, <1>6 DEF StampsRise
<1>8. CASE Stream!Counted(s, {f}, 1) /\ UNCHANGED queue
  <2>1. skips' = skips + 1 /\ lost' = [lost EXCEPT ![s] = @ \cup {f}] /\ queue' = queue
    BY <1>8 DEF Stream!Counted
  <2>2. IsFiniteSet({f}) /\ Cardinality({f}) = 1
    BY FS_Singleton
  <2>3. 1 \in Nat /\ 1 >= Cardinality({f}) /\ streaming' = streaming
    BY <1>1, <2>2
  <2>4. SkipInv'
    BY <1>2, <2>1, <2>2, <2>3, LossCounted
  <2>5. FlowInv(s)'
    <3>1. Queued(s)' = Queued(s) /\ lost'[s] = lost[s] \cup {f}
      BY <1>2, <1>4, <2>1 DEF Queued
    <3>2. Flow({}, Queued(s), Stream!InHand(s), pending[s], Stream!Published(s),
               lost[s] \cup {f}, offered[s], kept)
      BY <1>6, LoopLoses
    <3>3. Flow(Stream!Offering(s), Queued(s), Stream!InHand(s), pending[s],
               Stream!Published(s), lost[s], offered[s], s \notin told)'
      BY <1>1, <1>3, <1>5, <3>1, <3>2
    <3>4. Rising(queue[s])'
      BY <1>6, <2>1 DEF Rising
    <3>. QED  BY <1>7, <3>3, <3>4 DEF FlowInv
  <2>6. lost' \in [Streams -> SUBSET Frame] /\ \A r \in Streams : r # s => lost'[r] = lost[r]
    BY <1>2, <1>4, <2>1
  <2>7. skips' \in Nat /\ s = tick.to
    BY <1>0, <1>4, <2>1
  <2>8. queue' \in [Streams -> Seq(Frame)] /\ \A r \in Streams : r # s => queue'[r] = queue[r]
    BY <1>4, <2>1
  <2>. QED  BY <1>1, <1>2, <2>4, <2>5, <2>6, <2>7, <2>8, LoopRests
<1>9. CASE thread[s].at = "done" /\ UNCHANGED <<queue, skips, lost>>
  <2>1. s \in told
    BY <1>2, <1>9 DEF SessionsInv, SessionInv
  <2>2. FlowInv(s)'
    <3>1. Queued(s)' = Queued(s) /\ lost'[s] = lost[s] /\ kept = FALSE
      BY <1>5, <1>9, <2>1 DEF Queued
    <3>2. Flow({}, Queued(s), Stream!InHand(s), pending[s], Stream!Published(s),
               lost[s], offered[s], kept)
      BY <1>6, <3>1, LoopForgets
    <3>3. Flow(Stream!Offering(s), Queued(s), Stream!InHand(s), pending[s],
               Stream!Published(s), lost[s], offered[s], s \notin told)'
      BY <1>1, <1>3, <1>5, <3>1, <3>2
    <3>4. Rising(queue[s])'
      BY <1>6, <1>9 DEF Rising
    <3>. QED  BY <1>7, <3>3, <3>4 DEF FlowInv
  <2>3. SkipInv'
    BY <1>1, <1>9 DEF SessionsInv, SkipInv
  <2>4. skips' \in Nat /\ s = tick.to
    BY <1>0, <1>4, <1>9
  <2>5. /\ queue' \in [Streams -> Seq(Frame)] /\ lost' \in [Streams -> SUBSET Frame]
        /\ \A r \in Streams : r # s => queue'[r] = queue[r] /\ lost'[r] = lost[r]
    BY <1>4, <1>9
  <2>. QED  BY <1>1, <1>2, <2>2, <2>3, <2>4, <2>5, LoopRests
<1>10. CASE queue' = [queue EXCEPT ![s] = Append(@, f)] /\ UNCHANGED <<skips, lost>>
  <2>1. queue'[s] = Append(queue[s], f) /\ \A r \in Streams : r # s => queue'[r] = queue[r]
    BY <1>2, <1>4, <1>10
  <2>2. PICK k \in Nat : k = Len(queue[s])
    BY <1>4, LenProperties
  <2>3. /\ queue'[s] \in Seq(Frame) /\ DOMAIN queue'[s] = 1..(k + 1)
        /\ DOMAIN queue[s] = 1..k /\ \A i \in 1..k : queue'[s][i] = queue[s][i]
        /\ queue'[s][k + 1] = f
    BY <1>2, <1>4, <2>1, <2>2, AppendProperties, LenProperties
  <2>4. Queued(s)' = Queued(s) \cup {f}
    <3>1. \A i : i \in 1..(k + 1) <=> i \in 1..k \/ i = k + 1
      BY <2>2
    <3>. QED  BY <2>3, <3>1 DEF Queued
  <2>5. FlowInv(s)'
    <3>1. Flow({}, Queued(s) \cup {f}, Stream!InHand(s), pending[s], Stream!Published(s),
               lost[s], offered[s], kept)
      BY <1>6, LoopQueues
    <3>2. Flow(Stream!Offering(s), Queued(s), Stream!InHand(s), pending[s],
               Stream!Published(s), lost[s], offered[s], s \notin told)'
      BY <1>1, <1>3, <1>5, <1>10, <2>4, <3>1
    <3>3. Rising(queue'[s])
      <4>1. \A i \in 1..k : queue[s][i].n < f.n
        BY <1>6, <2>3 DEF Flow, Ahead, Queued
      <4>2. ASSUME NEW i \in 1..(k + 1), NEW j \in 1..(k + 1), i < j
            PROVE  queue'[s][i].n < queue'[s][j].n
        <5>1. i \in 1..k
          BY <2>2, <4>2
        <5>2. CASE j = k + 1
          BY <2>3, <4>1, <5>1, <5>2
        <5>3. CASE j \in 1..k
          BY <1>6, <2>3, <4>2, <5>1, <5>3 DEF Rising
        <5>. QED  BY <2>2, <5>2, <5>3
      <4>. QED  BY <2>3, <4>2 DEF Rising
    <3>. QED  BY <1>7, <3>2, <3>3 DEF FlowInv, Rising
  <2>6. SkipInv'
    BY <1>1, <1>10 DEF SessionsInv, SkipInv
  <2>7. skips' \in Nat /\ s = tick.to
    BY <1>0, <1>4, <1>10
  <2>8. queue' \in [Streams -> Seq(Frame)]
    BY <1>2, <1>4, <1>10, <2>1, <2>3
  <2>9. /\ lost' \in [Streams -> SUBSET Frame]
        /\ \A r \in Streams : r # s => queue'[r] = queue[r] /\ lost'[r] = lost[r]
    BY <1>4, <1>10, <2>1
  <2>. QED  BY <1>1, <1>2, <2>5, <2>6, <2>7, <2>8, <2>9, LoopRests
<1>. QED
  BY <1>0, <1>8, <1>9, <1>10 DEF Stream!HandsOver

-----------------------------------------------------------------------------
(* A stream's thread.                                                      *)

\* A thread moves its own stream's frames only.
LEMMA ThreadMoves ==
  ASSUME SessionsInv, NEW s \in Streams, Stream!Elsewhere,
         thread[s].at # "none" \/ thread' = thread,
         thread'[s].at = "done" => s \in told,
         ThreadTyped', transport' \in [Streams -> {"none", "up", "told", "down"}],
         skips' \in Nat, SkipInv', FlowInv(s)',
         \A r \in Streams : r # s =>
           /\ thread'[r] = thread[r] /\ queue'[r] = queue[r] /\ pending'[r] = pending[r]
           /\ stamps'[r] = stamps[r] /\ lost'[r] = lost[r]
  PROVE  SessionsInv'
<1>1. UNCHANGED <<clock, idle, ticked, tick, live, streaming, opened, closing, told, offered>>
  BY DEF Stream!Elsewhere, Stream!clockVars, Stream!directiveVars
<1>2. StreamTyped'
  BY <1>1 DEF SessionsInv, StreamTyped, ClockTyped, SessionTyped
<1>3. SessionInv'
  <2>1. ASSUME NEW r \in Streams
        PROVE  /\ thread'[r].at = "done" => r \in told'
               /\ r > opened' => thread'[r].at = "none" /\ offered'[r] = {} /\ r \notin told'
    <3>1. /\ thread[r].at = "done" => r \in told
          /\ r > opened => thread[r].at = "none" /\ offered[r] = {} /\ r \notin told
      BY DEF SessionsInv, SessionInv
    <3>2. CASE r # s
      BY <1>1, <3>1, <3>2
    <3>3. CASE r = s
      BY <1>1, <3>1, <3>3
    <3>. QED  BY <3>2, <3>3
  <2>. QED  BY <1>1, <2>1 DEF SessionsInv, SessionInv
<1>4. TickInv'
  BY <1>1 DEF SessionsInv, TickInv
<1>5. ASSUME NEW r \in Streams PROVE FlowInv(r)'
  <2>1. CASE r # s
    <3>1. Stream!Offering(r)' = Stream!Offering(r)
      BY <1>1 DEF Stream!Offering
    <3>2. Stream!InHand(r)' = Stream!InHand(r)
      BY <2>1 DEF Stream!InHand
    <3>. QED  BY <1>1, <2>1, <3>1, <3>2, FlowStands DEF SessionsInv
  <2>2. CASE r = s
    BY <2>2
  <2>. QED  BY <2>1, <2>2
<1>. QED  BY <1>2, <1>3, <1>4, <1>5 DEF SessionsInv

\* What a thread step finds.
LEMMA ThreadFinds ==
  ASSUME SessionsInv, NEW s \in Streams, Stream!Elsewhere
  PROVE  /\ thread \in [Streams -> [at : {"none", "opening", "top", "frame", "done"},
                                    encoder : BOOLEAN, frame : Frame, header : BOOLEAN]]
         /\ queue \in [Streams -> Seq(Frame)] /\ base \in [Streams -> Nat \cup {-1}]
         /\ pending \in [Streams -> SUBSET Frame] /\ lost \in [Streams -> SUBSET Frame]
         /\ stamps \in [Streams -> Seq([frame : Frame, at : Int])]
         /\ offered \in [Streams -> SUBSET Frame]
         /\ skips \in Nat /\ transport \in [Streams -> {"none", "up", "told", "down"}]
         /\ Stream!Offering(s)' = Stream!Offering(s) /\ told' = told
         /\ offered' = offered /\ streaming' = streaming
         /\ Whole(Stream!Offering(s), Queued(s), Stream!InHand(s), pending[s],
                  Stream!Published(s), lost[s], offered[s])
         /\ Flow(Stream!Offering(s), Queued(s), Stream!InHand(s), pending[s],
                 Stream!Published(s), lost[s], offered[s], s \notin told)
         /\ Rising(queue[s]) /\ StampsRise(s)
<1>1. UNCHANGED <<tick, streaming, told, offered>>
  BY DEF Stream!Elsewhere, Stream!clockVars, Stream!directiveVars
<1>2. Stream!Offering(s)' = Stream!Offering(s)
  BY <1>1 DEF Stream!Offering
<1>3. StreamTyped /\ FlowInv(s)
  BY DEF SessionsInv
<1>4. Whole(Stream!Offering(s), Queued(s), Stream!InHand(s), pending[s],
            Stream!Published(s), lost[s], offered[s])
  BY <1>3, FramesOf
<1>. QED  BY <1>1, <1>2, <1>3, <1>4 DEF StreamTyped, SessionTyped, ThreadTyped, FlowInv

\* The steps that move no frame: the encoder opens, the transport ends.
LEMMA ThreadRests ==
  ASSUME SessionsInv, NEW s \in Streams, Stream!Elsewhere,
         thread' = thread \/ /\ thread[s].at = "opening"
                             /\ \E e \in BOOLEAN :
                                  thread' = [thread EXCEPT ![s].at = "top", ![s].encoder = e],
         transport' \in [Streams -> {"none", "up", "told", "down"}],
         UNCHANGED <<skips, queue, base, pending, stamps, lost>>
  PROVE  SessionsInv'
<1>1. /\ \A r \in Streams : r # s => thread'[r] = thread[r]
      /\ Stream!InHand(s)' = Stream!InHand(s)
      /\ thread'[s].at = "done" => s \in told
      /\ thread[s].at # "none" \/ thread' = thread
  <2>1. CASE thread' = thread
    BY <2>1 DEF Stream!InHand, SessionsInv, SessionInv
  <2>2. ASSUME NEW e \in BOOLEAN, thread[s].at = "opening",
               thread' = [thread EXCEPT ![s].at = "top", ![s].encoder = e]
        PROVE  /\ \A r \in Streams : r # s => thread'[r] = thread[r]
               /\ Stream!InHand(s)' = Stream!InHand(s) /\ thread'[s].at = "top"
    <3>1. thread \in [Streams -> [at : {"none", "opening", "top", "frame", "done"},
                                      encoder : BOOLEAN, frame : Frame, header : BOOLEAN]]
      BY ThreadFinds
    <3>2. /\ thread'[s].at = "top" /\ thread[s].at = "opening"
          /\ \A r \in Streams : r # s => thread'[r] = thread[r]
      BY <2>2, <3>1
    <3>. QED  BY <3>2 DEF Stream!InHand
  <2>. QED  BY <2>1, <2>2
<1>2. ThreadTyped'
  <2>1. thread' \in [Streams -> [at : {"none", "opening", "top", "frame", "done"},
                                 encoder : BOOLEAN, frame : Frame, header : BOOLEAN]]
    <3>. DEFINE R == [at : {"none", "opening", "top", "frame", "done"},
                      encoder : BOOLEAN, frame : Frame, header : BOOLEAN]
    <3>1. thread \in [Streams -> R]
      BY ThreadFinds, Zenon
    <3>2. ASSUME NEW e \in BOOLEAN,
                 thread' = [thread EXCEPT ![s].at = "top", ![s].encoder = e]
          PROVE  thread' \in [Streams -> R]
      <4>1. PICK r \in R : r = thread[s]
        BY <3>1, Zenon
      <4>2. [[r EXCEPT !.at = "top"] EXCEPT !.encoder = e] \in R
        OBVIOUS
      <4>. HIDE DEF R
      <4>3. PICK q \in R : q = [[thread[s] EXCEPT !.at = "top"] EXCEPT !.encoder = e]
        BY <4>1, <4>2, Zenon
      <4>4. thread' = [thread EXCEPT ![s] = q]
        BY <3>1, <3>2, <4>3, Zenon
      <4>. QED  BY <3>1, <4>4, Zenon
    <3>. HIDE DEF R
    <3>3. thread' \in [Streams -> R]
      BY <3>1, <3>2, Zenon
    <3>. QED  BY <3>3, Zenon DEF R
  <2>. QED  BY <2>1, ThreadFinds DEF ThreadTyped
<1>3. SkipInv' /\ skips' \in Nat
  BY ThreadFinds DEF SessionsInv, SkipInv
<1>4. FlowInv(s)'
  BY <1>1, ThreadFinds, FlowStands DEF SessionsInv
<1>. QED  BY <1>1, <1>2, <1>3, <1>4, ThreadMoves

LEMMA OpensKeeps ==
  ASSUME SessionsInv, NEW s \in Streams, Stream!Opens(s) PROVE SessionsInv'
<1>1. /\ thread[s].at = "opening" /\ Stream!Elsewhere
      /\ \E e \in BOOLEAN : thread' = [thread EXCEPT ![s].at = "top", ![s].encoder = e]
      /\ UNCHANGED <<skips, transport, queue, base, pending, stamps, lost>>
  BY DEF Stream!Opens
<1>2. transport' \in [Streams -> {"none", "up", "told", "down"}]
  BY <1>1, ThreadFinds
<1>. QED  BY <1>1, <1>2, ThreadRests

LEMMA TransportEndsKeeps ==
  ASSUME SessionsInv, NEW s \in Streams, Stream!TransportEnds(s) PROVE SessionsInv'
<1>1. /\ thread' = thread /\ Stream!Elsewhere
      /\ transport' = [transport EXCEPT ![s] = "down"]
      /\ UNCHANGED <<skips, queue, base, pending, stamps, lost>>
  BY DEF Stream!TransportEnds
<1>2. transport' \in [Streams -> {"none", "up", "told", "down"}]
  BY <1>1, ThreadFinds
<1>. QED  BY <1>1, <1>2, ThreadRests

LEMMA SeesStopKeeps ==
  ASSUME SessionsInv, NEW s \in Streams, Stream!SeesStop(s) PROVE SessionsInv'
<1>1. /\ thread[s].at = "top" /\ s \in told /\ Stream!Elsewhere
      /\ thread' = [thread EXCEPT ![s].at = "done"]
      /\ queue' = [queue EXCEPT ![s] = <<>>]
      /\ UNCHANGED <<skips, transport, base, pending, stamps, lost>>
  BY DEF Stream!SeesStop
<1>2. /\ thread'[s].at = "done" /\ queue'[s] = <<>>
      /\ \A r \in Streams : r # s => thread'[r] = thread[r] /\ queue'[r] = queue[r]
  BY <1>1, ThreadFinds
<1>3. ThreadTyped'
  <2>1. thread' \in [Streams -> [at : {"none", "opening", "top", "frame", "done"},
                                 encoder : BOOLEAN, frame : Frame, header : BOOLEAN]]
    BY <1>1, ThreadFinds
  <2>2. queue' \in [Streams -> Seq(Frame)]
    <3>1. <<>> \in Seq(Frame)
      OBVIOUS
    <3>. QED  BY <1>1, <3>1, ThreadFinds
  <2>. QED  BY <1>1, <2>1, <2>2, ThreadFinds DEF ThreadTyped
<1>4. SkipInv' /\ skips' \in Nat /\ transport' \in [Streams -> {"none", "up", "told", "down"}]
  BY <1>1, ThreadFinds DEF SessionsInv, SkipInv
<1>5. FlowInv(s)'
  <2>1. /\ Queued(s)' = {} /\ Stream!InHand(s) = {} /\ Stream!InHand(s)' = {}
        /\ Stream!Published(s)' = Stream!Published(s)
    BY <1>1, <1>2 DEF Queued, Stream!InHand, Stream!Published
  <2>2. Flow(Stream!Offering(s), Queued(s), {}, pending[s],
             Stream!Published(s), lost[s], offered[s], FALSE)
    <3>1. (s \notin told) = FALSE
      BY <1>1
    <3>. QED  BY <1>1, <2>1, <3>1, ThreadFinds
  <2>3. Flow(Stream!Offering(s), {}, {}, pending[s],
             Stream!Published(s), lost[s], offered[s], FALSE)
    BY <2>2, ThreadLeaves
  <2>4. Flow(Stream!Offering(s), Queued(s), Stream!InHand(s), pending[s],
             Stream!Published(s), lost[s], offered[s], s \notin told)'
    <3>1. (s \notin told') = FALSE
      BY <1>1, ThreadFinds
    <3>. QED  BY <1>1, <2>1, <2>3, <3>1, ThreadFinds
  <2>5. Rising(queue'[s]) /\ StampsRise(s)'
    <3>1. StampsRise(s)
      BY <1>1, ThreadFinds
    <3>. QED  BY <1>1, <1>2, <3>1 DEF Rising, StampsRise
  <2>. QED  BY <2>4, <2>5 DEF FlowInv, Rising
<1>. QED  BY <1>1, <1>2, <1>3, <1>4, <1>5, ThreadMoves

LEMMA ReceivesKeeps ==
  ASSUME SessionsInv, NEW s \in Streams, Stream!Receives(s) PROVE SessionsInv'
<1>1. /\ thread[s].at = "top" /\ s \notin told /\ queue[s] # <<>> /\ Stream!Elsewhere
      /\ thread' = [thread EXCEPT ![s].at = "frame", ![s].frame = Head(queue[s])]
      /\ queue' = [queue EXCEPT ![s] = Tail(@)]
      /\ UNCHANGED <<skips, transport, base, pending, stamps, lost>>
  BY DEF Stream!Receives
<1>2. queue[s] \in Seq(Frame) /\ Rising(queue[s])
  BY <1>1, ThreadFinds
<1>3. PICK f, t : f = Head(queue[s]) /\ t = Tail(queue[s])
  OBVIOUS
<1>4. PICK k \in Nat : k = Len(queue[s]) /\ k >= 1
  <2>1. Len(queue[s]) \in Nat /\ Len(queue[s]) # 0
    BY <1>1, <1>2, LenProperties, EmptySeq
  <2>. QED  BY <2>1
<1>5. /\ f \in Frame /\ t \in Seq(Frame) /\ f = queue[s][1]
      /\ DOMAIN queue[s] = 1..k /\ DOMAIN t = 1..(k - 1)
      /\ \A i \in 1..(k - 1) : t[i] = queue[s][i + 1]
  <2>1. /\ f \in Frame /\ t \in Seq(Frame) /\ f = queue[s][1] /\ Len(t) = k - 1
        /\ \A i \in 1..(k - 1) : t[i] = queue[s][i + 1]
    BY <1>1, <1>2, <1>3, <1>4, HeadTailProperties
  <2>. QED  BY <1>2, <1>4, <2>1, LenProperties
<1>6. /\ thread'[s].at = "frame" /\ thread'[s].frame = f /\ queue'[s] = t
      /\ \A r \in Streams : r # s => thread'[r] = thread[r] /\ queue'[r] = queue[r]
  BY <1>1, <1>3, ThreadFinds
<1>7. ThreadTyped'
  <2>1. thread' \in [Streams -> [at : {"none", "opening", "top", "frame", "done"},
                                 encoder : BOOLEAN, frame : Frame, header : BOOLEAN]]
    <3>1. thread \in [Streams -> [at : {"none", "opening", "top", "frame", "done"},
                                      encoder : BOOLEAN, frame : Frame, header : BOOLEAN]]
      BY <1>1, ThreadFinds
    <3>. QED  BY <1>1, <1>3, <1>5, <3>1
  <2>2. queue' \in [Streams -> Seq(Frame)]
    BY <1>1, <1>3, <1>5, ThreadFinds
  <2>. QED  BY <1>1, <2>1, <2>2, ThreadFinds DEF ThreadTyped
<1>8. SkipInv' /\ skips' \in Nat /\ transport' \in [Streams -> {"none", "up", "told", "down"}]
  BY <1>1, ThreadFinds DEF SessionsInv, SkipInv
<1>9. FlowInv(s)'
  <2>. DEFINE T == {t[i] : i \in 1..(k - 1)}
  <2>1. /\ Queued(s)' = T /\ Stream!InHand(s) = {} /\ Stream!InHand(s)' = {f}
        /\ Stream!Published(s)' = Stream!Published(s)
    BY <1>1, <1>5, <1>6 DEF Queued, Stream!InHand, Stream!Published
  <2>2. Queued(s) = {f} \cup T
    <3>1. Queued(s) \subseteq {f} \cup T
      <4>1. ASSUME NEW i \in 1..k PROVE queue[s][i] \in {f} \cup T
        <5>1. CASE i = 1
          BY <1>5, <5>1
        <5>2. CASE i # 1
          <6>1. i - 1 \in 1..(k - 1) /\ (i - 1) + 1 = i
            BY <1>4, <5>2
          <6>2. t[i - 1] = queue[s][i]
            BY <1>5, <6>1
          <6>. QED  BY <6>1, <6>2
        <5>. QED  BY <5>1, <5>2
      <4>. QED  BY <1>5, <4>1 DEF Queued
    <3>2. {f} \cup T \subseteq Queued(s)
      <4>1. 1 \in 1..k /\ \A i \in 1..(k - 1) : i + 1 \in 1..k
        BY <1>4
      <4>. QED  BY <1>5, <4>1 DEF Queued
    <3>. QED  BY <3>1, <3>2
  <2>3. \A g \in T : f.n < g.n
    <3>1. ASSUME NEW i \in 1..(k - 1) PROVE f.n < t[i].n
      <4>1. 1 \in 1..k /\ i + 1 \in 1..k /\ 1 < i + 1
        BY <1>4
      <4>2. queue[s][1].n < queue[s][i + 1].n
        BY <1>2, <1>5, <4>1 DEF Rising
      <4>. QED  BY <1>5, <4>2
    <3>. QED  BY <3>1
  <2>4. Rising(t)
    <3>1. ASSUME NEW i \in 1..(k - 1), NEW j \in 1..(k - 1), i < j PROVE t[i].n < t[j].n
      <4>1. i + 1 \in 1..k /\ j + 1 \in 1..k /\ i + 1 < j + 1
        BY <1>4, <3>1
      <4>2. queue[s][i + 1].n < queue[s][j + 1].n
        BY <1>2, <1>5, <4>1 DEF Rising
      <4>. QED  BY <1>5, <4>2
    <3>. QED  BY <1>5, <3>1 DEF Rising
  <2>. HIDE DEF T
  <2>5. PICK kept \in BOOLEAN : kept = (s \notin told) /\ kept = (s \notin told')
    BY <1>1, ThreadFinds
  <2>6. Flow(Stream!Offering(s), {f} \cup T, {}, pending[s],
             Stream!Published(s), lost[s], offered[s], kept)
    BY <1>1, <2>1, <2>2, <2>5, ThreadFinds
  <2>7. Flow(Stream!Offering(s), T, {f}, pending[s],
             Stream!Published(s), lost[s], offered[s], kept)
    BY <2>3, <2>6, ThreadTakes
  <2>8. Flow(Stream!Offering(s), Queued(s), Stream!InHand(s), pending[s],
             Stream!Published(s), lost[s], offered[s], s \notin told)'
    BY <1>1, <2>1, <2>5, <2>7, ThreadFinds
  <2>9. StampsRise(s)'
    <3>1. StampsRise(s)
      BY <1>1, ThreadFinds
    <3>. QED  BY <1>1, <3>1 DEF StampsRise
  <2>10. Rising(queue[s])'
    BY <1>6, <2>4 DEF Rising
  <2>. QED  BY <2>8, <2>9, <2>10 DEF FlowInv
<1>10. thread[s].at # "none" /\ thread'[s].at # "done"
  BY <1>1, <1>6
<1>. QED  BY <1>1, <1>6, <1>7, <1>8, <1>9, <1>10, ThreadMoves

\* A frame has been dealt with.
LEMMA ThreadBack ==
  ASSUME SessionsInv, NEW s \in Streams, Stream!Elsewhere, thread[s].at = "frame",
         NEW header \in BOOLEAN,
         thread' = [thread EXCEPT ![s].at = "top", ![s].frame = [n |-> 0, frame |-> 0],
                                  ![s].header = header]
  PROVE  /\ thread' \in [Streams -> [at : {"none", "opening", "top", "frame", "done"},
                                     encoder : BOOLEAN, frame : Frame, header : BOOLEAN]]
         /\ thread'[s].at = "top" /\ Stream!InHand(s)' = {}
         /\ Stream!InHand(s) = {thread[s].frame} /\ thread[s].frame \in Frame
         /\ Stream!First(s) \in Nat \cup {-1}
         /\ \A r \in Streams : r # s => thread'[r] = thread[r]
<1>1. thread \in [Streams -> [at : {"none", "opening", "top", "frame", "done"},
                              encoder : BOOLEAN, frame : Frame, header : BOOLEAN]]
  BY ThreadFinds
<1>2. base \in [Streams -> Nat \cup {-1}]
  BY ThreadFinds
<1>3. [n |-> 0, frame |-> 0] \in Frame
  BY DEF Frame
<1>4. /\ thread' \in [Streams -> [at : {"none", "opening", "top", "frame", "done"},
                                  encoder : BOOLEAN, frame : Frame, header : BOOLEAN]]
      /\ thread'[s].at = "top"
      /\ \A r \in Streams : r # s => thread'[r] = thread[r]
  BY <1>1, <1>3
<1>5. thread[s].frame \in Frame /\ Stream!First(s) \in Nat \cup {-1}
  BY <1>1, <1>2 DEF Stream!First, Frame
<1>6. Stream!InHand(s)' = {} /\ Stream!InHand(s) = {thread[s].frame}
  BY <1>4 DEF Stream!InHand
<1>. QED  BY <1>4, <1>5, <1>6

\* Nothing but the header changes with `Back`.
LEMMA BackIs ==
  ASSUME SessionsInv, NEW s \in Streams, Stream!Elsewhere
  PROVE  /\ Stream!Back(s) = [thread EXCEPT ![s].at = "top",
                ![s].frame = [n |-> 0, frame |-> 0], ![s].header = thread[s].header]
         /\ [Stream!Back(s) EXCEPT ![s].header = TRUE] =
              [thread EXCEPT ![s].at = "top", ![s].frame = [n |-> 0, frame |-> 0],
                             ![s].header = TRUE]
         /\ thread[s].header \in BOOLEAN
<1>1. thread \in [Streams -> [at : {"none", "opening", "top", "frame", "done"},
                              encoder : BOOLEAN, frame : Frame, header : BOOLEAN]]
  BY ThreadFinds
<1>. QED  BY <1>1 DEF Stream!Back, Stream!NoFrame

LEMMA DropsKeeps ==
  ASSUME SessionsInv, NEW s \in Streams, Stream!Drops(s) PROVE SessionsInv'
<1>1. /\ thread[s].at = "frame" /\ Stream!Elsewhere /\ thread' = Stream!Back(s)
      /\ base' = IF thread[s].encoder THEN [base EXCEPT ![s] = Stream!First(s)] ELSE base
      /\ skips' = skips + 1 /\ lost' = [lost EXCEPT ![s] = @ \cup {thread[s].frame}]
      /\ UNCHANGED <<transport, queue, pending, stamps>>
  BY DEF Stream!Drops, Stream!Counted
<1>2. /\ thread' = [thread EXCEPT ![s].at = "top", ![s].frame = [n |-> 0, frame |-> 0],
                                  ![s].header = thread[s].header]
      /\ thread[s].header \in BOOLEAN
  BY <1>1, BackIs
<1>3. /\ thread' \in [Streams -> [at : {"none", "opening", "top", "frame", "done"},
                                  encoder : BOOLEAN, frame : Frame, header : BOOLEAN]]
      /\ thread'[s].at = "top" /\ Stream!InHand(s)' = {}
      /\ Stream!InHand(s) = {thread[s].frame} /\ thread[s].frame \in Frame
      /\ Stream!First(s) \in Nat \cup {-1}
      /\ \A r \in Streams : r # s => thread'[r] = thread[r]
  BY <1>1, <1>2, ThreadBack
<1>4. PICK f : f = thread[s].frame
  OBVIOUS
<1>5. base' \in [Streams -> Nat \cup {-1}]
  BY <1>1, <1>3, ThreadFinds
<1>6. lost' \in [Streams -> SUBSET Frame] /\ lost'[s] = lost[s] \cup {f}
      /\ \A r \in Streams : r # s => lost'[r] = lost[r]
  BY <1>1, <1>3, <1>4, ThreadFinds
<1>7. ThreadTyped'
  BY <1>1, <1>3, <1>5, <1>6, ThreadFinds DEF ThreadTyped
<1>8. SkipInv' /\ skips' \in Nat
  <2>1. IsFiniteSet({f}) /\ Cardinality({f}) = 1
    BY FS_Singleton
  <2>2. 1 \in Nat /\ 1 >= Cardinality({f}) /\ streaming' = streaming /\ skips \in Nat
    BY <1>1, <2>1, ThreadFinds
  <2>3. lost' = [lost EXCEPT ![s] = @ \cup {f}] /\ skips' = skips + 1
    BY <1>1, <1>4
  <2>4. SkipInv'
    BY <2>1, <2>2, <2>3, LossCounted
  <2>. QED  BY <2>2, <2>3, <2>4
<1>9. FlowInv(s)'
  <2>1. Queued(s)' = Queued(s) /\ Stream!Published(s)' = Stream!Published(s)
    BY <1>1 DEF Queued, Stream!Published
  <2>2. PICK kept \in BOOLEAN : kept = (s \notin told) /\ kept = (s \notin told')
    BY <1>1, ThreadFinds
  <2>3. /\ Whole(Stream!Offering(s), Queued(s), {f}, pending[s], Stream!Published(s), lost[s],
                 offered[s])
        /\ Flow(Stream!Offering(s), Queued(s), {f}, pending[s], Stream!Published(s), lost[s],
                offered[s], kept)
    BY <1>1, <1>3, <1>4, <2>2, ThreadFinds
  <2>4. Flow(Stream!Offering(s), Queued(s), {}, pending[s], Stream!Published(s),
             lost[s] \cup {f}, offered[s], kept)
    BY <2>3, ThreadDrops
  <2>5. Flow(Stream!Offering(s), Queued(s), Stream!InHand(s), pending[s],
             Stream!Published(s), lost[s], offered[s], s \notin told)'
    BY <1>1, <1>3, <1>6, <2>1, <2>2, <2>4, ThreadFinds
  <2>6. Rising(queue[s])' /\ StampsRise(s)'
    <3>1. Rising(queue[s]) /\ StampsRise(s)
      BY <1>1, ThreadFinds
    <3>. QED  BY <1>1, <3>1 DEF Rising, StampsRise
  <2>. QED  BY <2>5, <2>6 DEF FlowInv
<1>10. transport' \in [Streams -> {"none", "up", "told", "down"}]
  BY <1>1, ThreadFinds
<1>11. \A r \in Streams : r # s =>
         /\ thread'[r] = thread[r] /\ queue'[r] = queue[r] /\ pending'[r] = pending[r]
         /\ stamps'[r] = stamps[r] /\ lost'[r] = lost[r]
  BY <1>1, <1>3, <1>6
<1>12. thread[s].at # "none" /\ thread'[s].at # "done"
  BY <1>1, <1>3
<1>. QED  BY <1>1, <1>7, <1>8, <1>9, <1>10, <1>11, <1>12, ThreadMoves

LEMMA HoldsKeeps ==
  ASSUME SessionsInv, NEW s \in Streams, Stream!Holds(s) PROVE SessionsInv'
<1>1. /\ thread[s].at = "frame" /\ Stream!Elsewhere /\ thread' = Stream!Back(s)
      /\ base' = [base EXCEPT ![s] = Stream!First(s)]
      /\ pending' = [pending EXCEPT ![s] = @ \cup {thread[s].frame}]
      /\ UNCHANGED <<skips, transport, queue, stamps, lost>>
  BY DEF Stream!Holds, Stream!Encodes
<1>2. /\ thread' = [thread EXCEPT ![s].at = "top", ![s].frame = [n |-> 0, frame |-> 0],
                                  ![s].header = thread[s].header]
      /\ thread[s].header \in BOOLEAN
  BY <1>1, BackIs
<1>3. /\ thread' \in [Streams -> [at : {"none", "opening", "top", "frame", "done"},
                                  encoder : BOOLEAN, frame : Frame, header : BOOLEAN]]
      /\ thread'[s].at = "top" /\ Stream!InHand(s)' = {}
      /\ Stream!InHand(s) = {thread[s].frame} /\ thread[s].frame \in Frame
      /\ Stream!First(s) \in Nat \cup {-1}
      /\ \A r \in Streams : r # s => thread'[r] = thread[r]
  BY <1>1, <1>2, ThreadBack
<1>4. PICK f : f = thread[s].frame
  OBVIOUS
<1>5. base' \in [Streams -> Nat \cup {-1}]
  BY <1>1, <1>3, ThreadFinds
<1>6. pending' \in [Streams -> SUBSET Frame] /\ pending'[s] = pending[s] \cup {f}
      /\ \A r \in Streams : r # s => pending'[r] = pending[r]
  BY <1>1, <1>3, <1>4, ThreadFinds
<1>7. ThreadTyped'
  BY <1>1, <1>3, <1>5, <1>6, ThreadFinds DEF ThreadTyped
<1>8. SkipInv' /\ skips' \in Nat
  BY <1>1, ThreadFinds DEF SessionsInv, SkipInv
<1>9. FlowInv(s)'
  <2>1. Queued(s)' = Queued(s) /\ Stream!Published(s)' = Stream!Published(s)
    BY <1>1 DEF Queued, Stream!Published
  <2>2. PICK kept \in BOOLEAN : kept = (s \notin told) /\ kept = (s \notin told')
    BY <1>1, ThreadFinds
  <2>3. Flow(Stream!Offering(s), Queued(s), {f}, pending[s], Stream!Published(s), lost[s],
             offered[s], kept)
    BY <1>1, <1>3, <1>4, <2>2, ThreadFinds
  <2>4. Flow(Stream!Offering(s), Queued(s), {}, pending[s] \cup {f}, Stream!Published(s),
             lost[s], offered[s], kept)
    BY <2>3, ThreadHolds
  <2>5. Flow(Stream!Offering(s), Queued(s), Stream!InHand(s), pending[s],
             Stream!Published(s), lost[s], offered[s], s \notin told)'
    BY <1>1, <1>3, <1>6, <2>1, <2>2, <2>4, ThreadFinds
  <2>6. Rising(queue[s])' /\ StampsRise(s)'
    <3>1. Rising(queue[s]) /\ StampsRise(s)
      BY <1>1, ThreadFinds
    <3>. QED  BY <1>1, <3>1 DEF Rising, StampsRise
  <2>. QED  BY <2>5, <2>6 DEF FlowInv
<1>10. transport' \in [Streams -> {"none", "up", "told", "down"}]
  BY <1>1, ThreadFinds
<1>11. \A r \in Streams : r # s =>
         /\ thread'[r] = thread[r] /\ queue'[r] = queue[r] /\ pending'[r] = pending[r]
         /\ stamps'[r] = stamps[r] /\ lost'[r] = lost[r]
  BY <1>1, <1>3, <1>6
<1>12. thread[s].at # "none" /\ thread'[s].at # "done"
  BY <1>1, <1>3
<1>. QED  BY <1>1, <1>7, <1>8, <1>9, <1>10, <1>11, <1>12, ThreadMoves

\* The units of a publication go behind all that was published before.
Grown(s, taken, first) ==
  stamps[s] \o [i \in DOMAIN Stream!ByTick(taken) |->
                  [frame |-> Stream!ByTick(taken)[i],
                   at |-> Stream!ByTick(taken)[i].frame - first]]

FramesIn(q) == {q[i].frame : i \in DOMAIN q}

\* What is new in a stream's stamps is dated from its first frame.
Dated(s, new, first) ==
  \A i \in DOMAIN new : \/ i \in DOMAIN stamps[s] /\ new[i] = stamps[s][i]
                        \/ new[i].at = new[i].frame.frame - first

LEMMA StampsGrow ==
  ASSUME SessionsInv, NEW s \in Streams, Stream!Elsewhere,
         NEW taken, taken \subseteq pending[s] \cup Stream!InHand(s),
         NEW first \in Int, NEW new, new = Grown(s, taken, first)
  PROVE  /\ new \in Seq([frame : Frame, at : Int])
         /\ FramesIn(new) = Stream!Published(s) \cup taken
         /\ \A i, j \in DOMAIN new : i < j => new[i].frame.n < new[j].frame.n
         /\ Dated(s, new, first)
<1>1. /\ Whole(Stream!Offering(s), Queued(s), Stream!InHand(s), pending[s],
               Stream!Published(s), lost[s], offered[s])
      /\ stamps[s] \in Seq([frame : Frame, at : Int]) /\ StampsRise(s)
  BY ThreadFinds
<1>2. /\ pending[s] \cup Stream!InHand(s) \subseteq offered[s]
      /\ Ahead(Stream!Published(s), pending[s] \cup Stream!InHand(s))
  <2>1. FlowInv(s)
    BY DEF SessionsInv
  <2>. QED  BY <2>1 DEF FlowInv, Flow, Ahead
<1>3. Sortable(taken)
  <2>1. IsFiniteSet(offered[s]) /\ \A f, g \in offered[s] : f.n = g.n => f = g
    BY DEF SessionsInv, TickInv
  <2>2. IsFiniteSet(taken)
    BY <1>2, <2>1, FS_Subset
  <2>. QED  BY <1>1, <1>2, <2>1, <2>2 DEF Sortable, Whole
<1>4. PICK w, c : /\ w = Stream!ByTick(taken) /\ c = Cardinality(taken)
                  /\ c \in Nat /\ w \in [1..c -> taken] /\ Rising(w)
                  /\ taken = {w[i] : i \in 1..c}
  BY <1>3, ByTickSorts
<1>. DEFINE m == [i \in 1..c |-> [frame |-> w[i], at |-> w[i].frame - first]]
            S == [frame : Frame, at : Int]
<1>5. new = stamps[s] \o m
  BY <1>4 DEF Grown
<1>6. m \in Seq(S) /\ Len(m) = c
  <2>1. \A f \in taken : f \in Frame /\ f.frame - first \in Int
    BY <1>3 DEF Sortable, Frame
  <2>2. m \in [1..c -> S]
    BY <1>4, <2>1
  <2>. HIDE DEF m, S
  <2>3. m \in Seq(S)
    <3>1. Seq(S) = UNION {[1..n -> S] : n \in Nat}
      BY SeqDef
    <3>2. c \in Nat /\ m \in [1..c -> S]
      BY <1>4, <2>2
    <3>. QED  BY <3>1, <3>2, Zenon
  <2>4. DOMAIN m = 1..c
    BY <2>2
  <2>. QED  BY <1>4, <2>3, <2>4, LenProperties
<1>7. PICK k \in Nat : k = Len(stamps[s]) /\ DOMAIN stamps[s] = 1..k
  BY <1>1, LenProperties
<1>8. /\ new \in Seq(S) /\ DOMAIN new = 1..(k + c)
      /\ \A i \in 1..(k + c) : new[i] = IF i =< k THEN stamps[s][i] ELSE m[i - k]
  <2>. HIDE DEF m, S
  <2>1. /\ stamps[s] \o m \in Seq(S) /\ Len(stamps[s] \o m) = k + c
        /\ \A i \in 1..(k + c) :
             (stamps[s] \o m)[i] = IF i =< k THEN stamps[s][i] ELSE m[i - k]
    <3>1. stamps[s] \in Seq(S)
      BY <1>1 DEF S
    <3>2. m \in Seq(S) /\ Len(m) = c
      BY <1>6
    <3>3. /\ stamps[s] \o m \in Seq(S) /\ Len(stamps[s] \o m) = Len(stamps[s]) + Len(m)
          /\ \A i \in 1..(Len(stamps[s]) + Len(m)) :
               (stamps[s] \o m)[i] = IF i =< Len(stamps[s]) THEN stamps[s][i]
                                     ELSE m[i - Len(stamps[s])]
      BY <3>1, <3>2, ConcatProperties
    <3>. QED  BY <1>7, <3>2, <3>3
  <2>. QED  BY <1>5, <2>1, LenProperties
<1>9. \A i \in 1..k : i \in 1..(k + c) /\ new[i] = stamps[s][i]
  <2>1. \A i \in 1..k : i \in 1..(k + c) /\ i =< k
    BY <1>4
  <2>. HIDE DEF m
  <2>. QED  BY <1>8, <2>1, Zenon
<1>10. \A i \in 1..c : /\ k + i \in 1..(k + c)
                       /\ new[k + i].frame = w[i]
                       /\ new[k + i].at = w[i].frame - first
                       /\ w[i] \in taken
  <2>1. ASSUME NEW i \in 1..c
        PROVE  k + i \in 1..(k + c) /\ new[k + i] = m[i]
    <3>1. k + i \in 1..(k + c) /\ ~(k + i =< k) /\ (k + i) - k = i
      BY <1>4
    <3>. HIDE DEF m
    <3>. QED  BY <1>8, <3>1
  <2>2. \A i \in 1..c : m[i].frame = w[i] /\ m[i].at = w[i].frame - first /\ w[i] \in taken
    BY <1>4
  <2>. HIDE DEF m
  <2>. QED  BY <2>1, <2>2
<1>11. \A i \in 1..(k + c) : i \in 1..k \/ \E j \in 1..c : i = k + j
  <2>1. ASSUME NEW i \in 1..(k + c), i \notin 1..k PROVE \E j \in 1..c : i = k + j
    <3>1. i - k \in 1..c /\ i = k + (i - k)
      BY <1>4, <2>1
    <3>. QED  BY <3>1
  <2>. QED  BY <2>1
<1>. HIDE DEF m
<1>12. FramesIn(new) = Stream!Published(s) \cup taken
  <2>1. \A i \in 1..c : new[k + i].frame = w[i]
    BY <1>10, Zenon
  <2>. DEFINE N == {new[i].frame : i \in 1..(k + c)}
              P == {stamps[s][i].frame : i \in 1..k}
  <2>2. P \cup taken \subseteq N
    <3>1. ASSUME NEW i \in 1..k PROVE stamps[s][i].frame \in N
      BY <1>9
    <3>2. ASSUME NEW i \in 1..c PROVE w[i] \in N
      <4>1. k + i \in 1..(k + c) /\ new[k + i].frame = w[i]
        BY <1>10, <2>1
      <4>. QED  BY <4>1
    <3>3. P \subseteq N
      BY <3>1
    <3>4. taken \subseteq N
      <4>. HIDE DEF N
      <4>. QED  BY <1>4, <3>2, Zenon
    <3>. QED  BY <3>3, <3>4, Zenon
  <2>3. N \subseteq P \cup taken
    <3>1. ASSUME NEW i \in 1..(k + c) PROVE new[i].frame \in P \cup taken
      <4>1. CASE i \in 1..k
        BY <1>9, <4>1
      <4>2. CASE \E j \in 1..c : i = k + j
        BY <1>4, <2>1, <4>2
      <4>. QED  BY <1>11, <4>1, <4>2
    <3>. QED  BY <3>1
  <2>. QED  BY <1>7, <1>8, <2>2, <2>3 DEF Stream!Published, FramesIn
<1>13. ASSUME NEW i \in 1..(k + c), NEW j \in 1..(k + c), i < j
       PROVE  new[i].frame.n < new[j].frame.n
  <2>1. CASE i \in 1..k /\ j \in 1..k
    BY <1>1, <1>7, <1>9, <1>13, <2>1 DEF StampsRise
  <2>2. ASSUME i \in 1..k, NEW b \in 1..c, j = k + b
        PROVE  new[i].frame.n < new[j].frame.n
    <3>1. new[i].frame \in Stream!Published(s)
      BY <1>7, <1>9, <2>2 DEF Stream!Published
    <3>2. new[j].frame \in taken
      BY <1>10, <2>2, Zenon
    <3>. QED  BY <1>2, <3>1, <3>2 DEF Ahead
  <2>3. ASSUME NEW a \in 1..c, i = k + a, NEW b \in 1..c, j = k + b
        PROVE  new[i].frame.n < new[j].frame.n
    <3>1. a < b /\ DOMAIN w = 1..c
      BY <1>4, <1>13, <2>3
    <3>2. w[a].n < w[b].n
      BY <1>4, <3>1 DEF Rising
    <3>3. new[i].frame = w[a] /\ new[j].frame = w[b]
      BY <1>10, <2>3, Zenon
    <3>. QED  BY <3>2, <3>3
  <2>4. ~(j \in 1..k /\ i \notin 1..k)
    BY <1>13
  <2>. QED  BY <1>11, <2>1, <2>2, <2>3, <2>4
<1>14. ASSUME NEW i \in 1..(k + c)
       PROVE  \/ i \in 1..k /\ new[i] = stamps[s][i]
              \/ new[i].at = new[i].frame.frame - first
  <2>1. CASE i \in 1..k
    BY <1>9, <2>1
  <2>2. ASSUME NEW j \in 1..c, i = k + j
        PROVE  new[i].at = new[i].frame.frame - first
    <3>1. new[i].frame = w[j] /\ new[i].at = w[j].frame - first
      BY <1>10, <2>2, Zenon
    <3>. QED  BY <3>1, Zenon
  <2>. QED  BY <1>11, <2>1, <2>2
<1>15. Dated(s, new, first)
  BY <1>7, <1>8, <1>14 DEF Dated
<1>. QED  BY <1>8, <1>12, <1>13, <1>15

LEMMA UnitsSettle ==
  ASSUME SessionsInv, NEW s \in Streams, Stream!Elsewhere, thread[s].at = "frame",
         NEW header \in BOOLEAN,
         thread' = [thread EXCEPT ![s].at = "top", ![s].frame = [n |-> 0, frame |-> 0],
                                  ![s].header = header],
         base' = [base EXCEPT ![s] = Stream!First(s)],
         pending' = [pending EXCEPT ![s] = {}], UNCHANGED <<transport, queue>>,
         NEW coded, coded = pending[s] \cup {thread[s].frame},
         NEW taken, taken \subseteq coded,
         lost' = [lost EXCEPT ![s] = @ \cup (coded \ taken)],
         NEW n \in Nat, n >= Cardinality(coded \ taken), skips' = skips + n,
         stamps' \in [Streams -> Seq([frame : Frame, at : Int])], StampsRise(s)',
         \A r \in Streams : r # s => stamps'[r] = stamps[r],
         Stream!Published(s)' = Stream!Published(s) \cup taken
  PROVE  SessionsInv'
<1>1. /\ thread' \in [Streams -> [at : {"none", "opening", "top", "frame", "done"},
                                  encoder : BOOLEAN, frame : Frame, header : BOOLEAN]]
      /\ thread'[s].at = "top" /\ Stream!InHand(s)' = {}
      /\ Stream!InHand(s) = {thread[s].frame} /\ thread[s].frame \in Frame
      /\ Stream!First(s) \in Nat \cup {-1}
      /\ \A r \in Streams : r # s => thread'[r] = thread[r]
  BY ThreadBack
<1>2. PICK p, h : p = pending[s] /\ h = Stream!InHand(s) /\ coded = p \cup h
  BY <1>1
<1>3. coded \subseteq Frame
  BY <1>1, ThreadFinds
<1>4. /\ pending' \in [Streams -> SUBSET Frame] /\ pending'[s] = {}
      /\ \A r \in Streams : r # s => pending'[r] = pending[r]
  BY ThreadFinds
<1>5. /\ lost' \in [Streams -> SUBSET Frame] /\ lost'[s] = lost[s] \cup ((p \cup h) \ taken)
      /\ \A r \in Streams : r # s => lost'[r] = lost[r]
  BY <1>2, <1>3, ThreadFinds
<1>6. ThreadTyped'
  <2>1. base' \in [Streams -> Nat \cup {-1}]
    BY <1>1, ThreadFinds
  <2>. QED  BY <1>1, <1>4, <1>5, <2>1, ThreadFinds DEF ThreadTyped
<1>7. SkipInv' /\ skips' \in Nat
  <2>1. IsFiniteSet(coded \ taken)
    <3>1. IsFiniteSet(offered[s])
      BY DEF SessionsInv, TickInv
    <3>2. FlowInv(s)
      BY DEF SessionsInv
    <3>3. coded \subseteq offered[s]
      BY <1>2, <3>2 DEF FlowInv, Flow
    <3>. QED  BY <3>1, <3>3, FS_Subset
  <2>2. streaming' = streaming /\ skips \in Nat
    BY ThreadFinds
  <2>3. SkipInv'
    BY <2>1, <2>2, LossCounted
  <2>. QED  BY <2>2, <2>3
<1>8. FlowInv(s)'
  <2>1. Queued(s)' = Queued(s)
    BY DEF Queued
  <2>2. PICK kept \in BOOLEAN : kept = (s \notin told) /\ kept = (s \notin told')
    BY ThreadFinds
  <2>3. /\ Whole(Stream!Offering(s), Queued(s), h, p, Stream!Published(s), lost[s], offered[s])
        /\ Flow(Stream!Offering(s), Queued(s), h, p, Stream!Published(s), lost[s],
                offered[s], kept)
    BY <1>2, <2>2, ThreadFinds
  <2>4. Flow(Stream!Offering(s), Queued(s), {}, {}, Stream!Published(s) \cup taken,
             lost[s] \cup ((p \cup h) \ taken), offered[s], kept)
    BY <1>2, <2>3, ThreadPublishes
  <2>5. Flow(Stream!Offering(s), Queued(s), Stream!InHand(s), pending[s],
             Stream!Published(s), lost[s], offered[s], s \notin told)'
    BY <1>1, <1>4, <1>5, <2>1, <2>2, <2>4, ThreadFinds
  <2>6. Rising(queue[s])'
    <3>1. Rising(queue[s])
      BY ThreadFinds
    <3>. QED  BY <3>1 DEF Rising
  <2>. QED  BY <2>5, <2>6 DEF FlowInv
<1>9. transport' \in [Streams -> {"none", "up", "told", "down"}]
  BY ThreadFinds
<1>10. \A r \in Streams : r # s =>
         /\ thread'[r] = thread[r] /\ queue'[r] = queue[r] /\ pending'[r] = pending[r]
         /\ stamps'[r] = stamps[r] /\ lost'[r] = lost[r]
  BY <1>1, <1>4, <1>5
<1>11. thread[s].at # "none" /\ thread'[s].at # "done"
  BY <1>1
<1>. QED  BY <1>6, <1>7, <1>8, <1>9, <1>10, <1>11, ThreadMoves

\* A publication of `coded`, of which `taken` go out, with n skips.
Settles(s, coded, taken, header, n) ==
  /\ coded = pending[s] \cup {thread[s].frame} /\ taken \subseteq coded
  /\ header \in BOOLEAN /\ n \in Nat
  /\ thread' = [thread EXCEPT ![s].at = "top", ![s].frame = [n |-> 0, frame |-> 0],
                              ![s].header = header]
  /\ lost' = [lost EXCEPT ![s] = @ \cup (coded \ taken)]
  /\ n >= Cardinality(coded \ taken) /\ skips' = skips + n
  /\ \/ taken = {} /\ stamps' = stamps
     \/ stamps' = [stamps EXCEPT ![s] = Grown(s, taken, Stream!First(s))]

LEMMA Publication ==
  ASSUME SessionsInv, NEW s \in Streams, Stream!Publishes(s)
  PROVE  /\ thread[s].at = "frame" /\ Stream!Elsewhere
         /\ base' = [base EXCEPT ![s] = Stream!First(s)]
         /\ pending' = [pending EXCEPT ![s] = {}] /\ UNCHANGED <<transport, queue>>
         /\ \E coded, taken, header, n : Settles(s, coded, taken, header, n)
<1>1. /\ thread[s].at = "frame" /\ Stream!Elsewhere
      /\ base' = [base EXCEPT ![s] = Stream!First(s)]
      /\ pending' = [pending EXCEPT ![s] = {}] /\ UNCHANGED <<transport, queue>>
  BY DEF Stream!Publishes, Stream!Encodes
<1>2. PICK coded : coded = pending[s] \cup {thread[s].frame}
  OBVIOUS
<1>3. IsFiniteSet(coded)
  <2>1. IsFiniteSet(offered[s])
    BY DEF SessionsInv, TickInv
  <2>2. FlowInv(s)
    BY DEF SessionsInv
  <2>3. coded \subseteq offered[s]
    BY <1>1, <1>2, <2>2 DEF FlowInv, Flow, Stream!InHand
  <2>. QED  BY <2>1, <2>3, FS_Subset
<1>4. \A F : F \subseteq coded =>
        Stream!Cardinality(F) = Cardinality(F) /\ Cardinality(F) \in Nat
  BY <1>3, SameCount, FS_Subset, FS_CardinalityType
<1>5. CASE /\ thread' = Stream!Back(s) /\ stamps' = stamps
           /\ Stream!Counted(s, coded, Stream!Cardinality(coded))
  <2>1. PICK n \in Nat : n = Stream!Cardinality(coded) /\ n = Cardinality(coded)
    BY <1>4
  <2>2. PICK none : none = {} /\ none \subseteq coded /\ coded \ none = coded
    OBVIOUS
  <2>3. n >= Cardinality(coded \ none) /\ skips' = skips + n
    BY <1>5, <2>1, <2>2 DEF Stream!Counted
  <2>4. lost' = [lost EXCEPT ![s] = @ \cup (coded \ none)]
    BY <1>5, <2>2 DEF Stream!Counted
  <2>5. /\ thread' = [thread EXCEPT ![s].at = "top", ![s].frame = [n |-> 0, frame |-> 0],
                                    ![s].header = thread[s].header]
        /\ thread[s].header \in BOOLEAN
    BY <1>1, <1>5, BackIs
  <2>6. Settles(s, coded, none, thread[s].header, n)
    BY <1>2, <1>5, <2>2, <2>3, <2>4, <2>5, Zenon DEF Settles
  <2>. QED  BY <1>1, <2>6, Zenon
<1>6. ASSUME NEW taken \in SUBSET coded, NEW headerShed \in {0, 1},
             thread' = [Stream!Back(s) EXCEPT ![s].header = TRUE],
             Stream!Counted(s, coded \ taken,
                            headerShed + Stream!Cardinality(coded \ taken)),
             stamps' = [stamps EXCEPT ![s] = Grown(s, taken, Stream!First(s))]
      PROVE  \E n : Settles(s, coded, taken, TRUE, n)
  <2>1. PICK k \in Nat : /\ k = Stream!Cardinality(coded \ taken)
                         /\ k = Cardinality(coded \ taken)
    BY <1>4
  <2>2. PICK n \in Nat : n = headerShed + k /\ n >= k
    OBVIOUS
  <2>3. n >= Cardinality(coded \ taken) /\ skips' = skips + n
    BY <1>6, <2>1, <2>2 DEF Stream!Counted
  <2>4. lost' = [lost EXCEPT ![s] = @ \cup (coded \ taken)]
    BY <1>6 DEF Stream!Counted
  <2>5. thread' = [thread EXCEPT ![s].at = "top", ![s].frame = [n |-> 0, frame |-> 0],
                                 ![s].header = TRUE]
    BY <1>1, <1>6, BackIs
  <2>6. taken \subseteq coded /\ TRUE \in BOOLEAN
    OBVIOUS
  <2>7. Settles(s, coded, taken, TRUE, n)
    BY <1>2, <1>6, <2>3, <2>4, <2>5, <2>6, Zenon DEF Settles
  <2>. QED  BY <2>7, Zenon
<1>7. \/ /\ thread' = Stream!Back(s) /\ stamps' = stamps
         /\ Stream!Counted(s, coded, Stream!Cardinality(coded))
      \/ \E taken \in SUBSET coded, headerShed \in {0, 1} :
           /\ thread' = [Stream!Back(s) EXCEPT ![s].header = TRUE]
           /\ Stream!Counted(s, coded \ taken,
                             headerShed + Stream!Cardinality(coded \ taken))
           /\ stamps' = [stamps EXCEPT ![s] = Grown(s, taken, Stream!First(s))]
  BY <1>2, Zenon DEF Stream!Publishes, Grown
<1>. QED  BY <1>1, <1>5, <1>6, <1>7, Zenon

LEMMA PublishesKeeps ==
  ASSUME SessionsInv, NEW s \in Streams, Stream!Publishes(s) PROVE SessionsInv'
<1>1. /\ thread[s].at = "frame" /\ Stream!Elsewhere
      /\ base' = [base EXCEPT ![s] = Stream!First(s)]
      /\ pending' = [pending EXCEPT ![s] = {}] /\ UNCHANGED <<transport, queue>>
  BY Publication
<1>2. PICK coded, taken, header, n : Settles(s, coded, taken, header, n)
  BY Publication
<1>3. /\ coded = pending[s] \cup {thread[s].frame} /\ taken \subseteq coded
      /\ header \in BOOLEAN /\ n \in Nat
      /\ thread' = [thread EXCEPT ![s].at = "top", ![s].frame = [n |-> 0, frame |-> 0],
                                  ![s].header = header]
      /\ lost' = [lost EXCEPT ![s] = @ \cup (coded \ taken)]
      /\ n >= Cardinality(coded \ taken) /\ skips' = skips + n
  BY <1>2 DEF Settles
<1>4. /\ stamps' \in [Streams -> Seq([frame : Frame, at : Int])]
      /\ \A r \in Streams : r # s => stamps'[r] = stamps[r]
      /\ Stream!Published(s)' = Stream!Published(s) \cup taken
      /\ StampsRise(s)'
  <2>1. stamps \in [Streams -> Seq([frame : Frame, at : Int])] /\ StampsRise(s)
    BY <1>1, ThreadFinds
  <2>2. CASE taken = {} /\ stamps' = stamps
    <3>1. stamps'[s] = stamps[s]
      BY <2>2
    <3>2. StampsRise(s)'
      BY <2>1, <3>1 DEF StampsRise
    <3>3. Stream!Published(s)' = Stream!Published(s) \cup taken
      BY <2>2 DEF Stream!Published
    <3>. QED  BY <2>1, <2>2, <3>2, <3>3
  <2>3. CASE stamps' = [stamps EXCEPT ![s] = Grown(s, taken, Stream!First(s))]
    <3>1. PICK first \in Int : first = Stream!First(s)
      <4>1. Stream!First(s) \in Nat \cup {-1}
        BY <1>1, <1>3, ThreadBack
      <4>. QED  BY <4>1
    <3>2. PICK new : new = Grown(s, taken, first)
      OBVIOUS
    <3>3. taken \subseteq pending[s] \cup Stream!InHand(s)
      BY <1>1, <1>3 DEF Stream!InHand
    <3>4. /\ new \in Seq([frame : Frame, at : Int])
          /\ FramesIn(new) = Stream!Published(s) \cup taken
          /\ \A i, j \in DOMAIN new : i < j => new[i].frame.n < new[j].frame.n
      BY <1>1, <3>1, <3>2, <3>3, StampsGrow, Zenon
    <3>5. stamps' = [stamps EXCEPT ![s] = new]
      BY <2>3, <3>1, <3>2
    <3>6. stamps'[s] = new /\ \A r \in Streams : r # s => stamps'[r] = stamps[r]
      BY <2>1, <3>5
    <3>7. stamps' \in [Streams -> Seq([frame : Frame, at : Int])]
      BY <2>1, <3>4, <3>5
    <3>8. StampsRise(s)' /\ Stream!Published(s)' = Stream!Published(s) \cup taken
      BY <3>4, <3>6, Zenon DEF StampsRise, Stream!Published, FramesIn
    <3>. QED  BY <3>6, <3>7, <3>8
  <2>. QED  BY <1>2, <2>2, <2>3 DEF Settles
<1>. QED  BY <1>1, <1>3, <1>4, UnitsSettle

-----------------------------------------------------------------------------
(* Every frame is somewhere.                                               *)

LEMMA SessionsBegin == ASSUME Stream!Init PROVE SessionsInv
<1>1. /\ clock = [shows |-> 0, frame |-> -1] /\ idle = 0 /\ ticked = 0
      /\ tick = [at |-> "due", frame |-> [n |-> 0, frame |-> 0], to |-> 0]
      /\ live = FALSE /\ streaming = 0 /\ opened = 0 /\ skips = 0
      /\ closing = [at |-> "free", stream |-> 0, show |-> FALSE]
      /\ thread = [s \in Streams |-> [at |-> "none", encoder |-> FALSE,
                     frame |-> [n |-> 0, frame |-> 0], header |-> FALSE]]
      /\ told = {} /\ transport = [s \in Streams |-> "none"]
      /\ queue = [s \in Streams |-> <<>>] /\ base = [s \in Streams |-> -1]
      /\ pending = [s \in Streams |-> {}]
      /\ offered = [s \in Streams |-> {}] /\ lost = [s \in Streams |-> {}]
      /\ stamps = [s \in Streams |-> <<>>]
  BY DEF Stream!Init, Stream!NoFrame, Stream!Nobody, Stream!Resting, Streams
<1>2. [n |-> 0, frame |-> 0] \in Frame
  BY DEF Frame
<1>3. StreamTyped
  <2>1. ClockTyped
    BY <1>1, <1>2 DEF ClockTyped, StreamOrNone
  <2>2. SessionTyped
    <3>1. 0 \in 0..MaxStreams
      BY StreamBounds
    <3>. QED  BY <1>1, <3>1 DEF SessionTyped, StreamOrNone
  <2>3. ThreadTyped
    <3>1. /\ thread \in [Streams -> [at : {"none", "opening", "top", "frame", "done"},
                                     encoder : BOOLEAN, frame : Frame, header : BOOLEAN]]
      BY <1>1, <1>2
    <3>2. <<>> \in Seq(Frame) /\ <<>> \in Seq([frame : Frame, at : Int])
      OBVIOUS
    <3>3. /\ queue \in [Streams -> Seq(Frame)]
          /\ stamps \in [Streams -> Seq([frame : Frame, at : Int])]
      BY <1>1, <3>2
    <3>4. /\ base \in [Streams -> Nat \cup {-1}] /\ pending \in [Streams -> SUBSET Frame]
          /\ offered \in [Streams -> SUBSET Frame] /\ lost \in [Streams -> SUBSET Frame]
      BY <1>1
    <3>. QED  BY <3>1, <3>3, <3>4 DEF ThreadTyped
  <2>. QED  BY <2>1, <2>2, <2>3 DEF StreamTyped
<1>4. SessionInv /\ TickInv /\ SkipInv
  BY <1>1, FS_EmptySet DEF SessionInv, TickInv, SkipInv
<1>5. ASSUME NEW s \in Streams PROVE FlowInv(s)
  <2>1. /\ Stream!Offering(s) = {} /\ Queued(s) = {} /\ Stream!InHand(s) = {}
        /\ pending[s] = {} /\ Stream!Published(s) = {} /\ lost[s] = {} /\ offered[s] = {}
    BY <1>1, StreamBounds DEF Stream!Offering, Queued, Stream!InHand, Stream!Published
  <2>2. \A kept \in BOOLEAN : Flow({}, {}, {}, {}, {}, {}, {}, kept)
    BY DEF Flow, Ahead
  <2>3. queue[s] = <<>> /\ stamps[s] = <<>>
    BY <1>1
  <2>4. Rising(queue[s]) /\ StampsRise(s)
    BY <2>3 DEF Rising, StampsRise
  <2>5. (s \notin told) \in BOOLEAN
    OBVIOUS
  <2>. QED  BY <2>1, <2>2, <2>4, <2>5 DEF FlowInv
<1>. QED  BY <1>3, <1>4, <1>5 DEF SessionsInv

LEMMA SessionsStep == ASSUME SessionsInv, Stream!Next PROVE SessionsInv'
<1>1. CASE Stream!ShowStart
  BY <1>1, ShowStartKeeps
<1>2. CASE Stream!Resync
  BY <1>2, ResyncKeeps
<1>3. CASE Stream!StreamStart
  BY <1>3, StreamStartKeeps
<1>4. CASE Stream!GoesLive
  BY <1>4, GoesLiveKeeps
<1>5. CASE Stream!StreamStop
  BY <1>5, StopsKeeps DEF Stream!StreamStop
<1>6. CASE Stream!ShowStop
  BY <1>6, StopsKeeps DEF Stream!ShowStop
<1>7. CASE Stream!ThreadAwaited
  BY <1>7, ThreadAwaitedKeeps
<1>8. CASE Stream!StopEnds
  BY <1>8, StopEndsKeeps
<1>9. CASE Stream!ShowStopForced
  BY <1>9, ShowStopForcedKeeps
<1>10. CASE Stream!TickBegins
  BY <1>10, TickBeginsKeeps
<1>11. CASE Stream!ReadsState
  BY <1>11, ReadsStateKeeps
<1>12. CASE Stream!TakesSender
  BY <1>12, TakesSenderKeeps
<1>13. CASE Stream!HandsOver
  BY <1>13, HandsOverKeeps
<1>14. ASSUME NEW s \in Streams,
              \/ Stream!Opens(s) \/ Stream!SeesStop(s) \/ Stream!Receives(s)
              \/ Stream!Drops(s) \/ Stream!Holds(s) \/ Stream!Publishes(s)
              \/ Stream!TransportEnds(s)
       PROVE  SessionsInv'
  BY <1>14, OpensKeeps, SeesStopKeeps, ReceivesKeeps, DropsKeeps, HoldsKeeps,
     PublishesKeeps, TransportEndsKeeps
<1>. QED
  BY <1>1, <1>2, <1>3, <1>4, <1>5, <1>6, <1>7, <1>8, <1>9, <1>10, <1>11, <1>12, <1>13,
     <1>14, Zenon DEF Stream!Next, Streams

LEMMA SessionsStutter == ASSUME SessionsInv, UNCHANGED streamVars PROVE SessionsInv'
<1>1. UNCHANGED <<clock, idle, ticked, tick, live, streaming, opened, closing, skips,
                  thread, told, transport, queue, base, pending, stamps, offered, lost>>
  BY DEF streamVars
<1>2. clock' \in [shows : Nat, frame : Nat \cup {-1}]
  BY <1>1 DEF SessionsInv, StreamTyped, ClockTyped
<1>. QED  BY <1>1, <1>2, ClockDirectiveKeeps

\* The inductive invariant of loop, directives and threads: from the loop's
\* hand to the queue, the thread's hand, the encoder and the publisher the
\* frames of a stream come one after another, and no frame is in two places.
THEOREM SessionsInvariant == MCSpec => []SessionsInv
<1>1. MCInit => SessionsInv
  BY SessionsBegin DEF MCInit
<1>2. SessionsInv /\ [MCNext]_<<part, vars, streamVars, readerVars, soundVars>>
        => SessionsInv'
  <2>. SUFFICES ASSUME SessionsInv,
                       [MCNext]_<<part, vars, streamVars, readerVars, soundVars>>
                PROVE  SessionsInv'
    OBVIOUS
  <2>1. CASE Stream!Next
    BY <2>1, SessionsStep
  <2>2. CASE UNCHANGED streamVars
    BY <2>2, SessionsStutter
  <2>. QED  BY <2>1, <2>2 DEF MCNext
<1>. QED  BY <1>1, <1>2, PTL DEF MCSpec

\* skip.rs; stream.rs, hand_off_stream_surface: every frame the loop had a live
\* stream for is in one place, and a lost one is counted, for any number of
\* streams, shows and ticks and any queue bound.
THEOREM SkipsAreSeen == MCSpec => []NoSkipUnseen
<1>1. SessionsInv => NoSkipUnseen
  <2>. SUFFICES ASSUME SessionsInv, live, streaming # 0
                PROVE  LET parts == <<Stream!Offering(streaming),
                                      Stream!ToSet(queue[streaming]),
                                      Stream!InHand(streaming), pending[streaming],
                                      Stream!Published(streaming), lost[streaming]>>
                       IN  /\ offered[streaming] = UNION Stream!ToSet(parts)
                           /\ \A i, j \in DOMAIN parts :
                                i # j => parts[i] \cap parts[j] = {}
                           /\ skips >= Stream!Cardinality(lost[streaming])
    BY Zenon DEF NoSkipUnseen, Stream!NoSkipUnseen, Stream!Nobody
  <2>1. streaming \in Streams /\ FlowInv(streaming) /\ streaming \notin told
    BY DEF SessionsInv, StreamTyped, SessionTyped, SessionInv, StreamOrNone
  <2>2. PICK o, q, h, p, u, l, all :
          /\ o = Stream!Offering(streaming) /\ q = Queued(streaming)
          /\ h = Stream!InHand(streaming) /\ p = pending[streaming]
          /\ u = Stream!Published(streaming) /\ l = lost[streaming]
          /\ all = offered[streaming]
    OBVIOUS
  <2>3. Flow(o, q, h, p, u, l, all, TRUE) /\ Whole(o, q, h, p, u, l, all)
    <3>1. Whole(o, q, h, p, u, l, all)
      BY <2>1, <2>2, FramesOf DEF SessionsInv
    <3>2. (streaming \notin told) = TRUE
      BY <2>1
    <3>. QED  BY <2>1, <2>2, <3>1, <3>2 DEF FlowInv
  <2>4. /\ all = o \cup q \cup h \cup p \cup u \cup l
        /\ o \cap q = {} /\ o \cap h = {} /\ o \cap p = {} /\ o \cap u = {} /\ o \cap l = {}
        /\ q \cap h = {} /\ q \cap p = {} /\ q \cap u = {} /\ q \cap l = {}
        /\ h \cap p = {} /\ h \cap u = {} /\ h \cap l = {}
        /\ p \cap u = {} /\ p \cap l = {} /\ u \cap l = {}
    <3>1. all = o \cup q \cup h \cup p \cup u \cup l
      BY <2>3 DEF Flow
    <3>2. \A F, G : F \subseteq Frame /\ Ahead(F, G) => F \cap G = {}
      BY DEF Ahead, Frame
    <3>3. /\ Ahead(u, p) /\ Ahead(u, h) /\ Ahead(u, q) /\ Ahead(u, o)
          /\ Ahead(p, h) /\ Ahead(p, q) /\ Ahead(p, o)
          /\ Ahead(h, q) /\ Ahead(h, o) /\ Ahead(q, o)
      BY <2>3, Zenon DEF Flow, Ahead
    <3>4. /\ u \cap p = {} /\ u \cap h = {} /\ u \cap q = {} /\ u \cap o = {}
          /\ p \cap h = {} /\ p \cap q = {} /\ p \cap o = {}
          /\ h \cap q = {} /\ h \cap o = {} /\ q \cap o = {}
      BY <2>3, <3>2, <3>3, Zenon DEF Whole
    <3>5. l \cap (o \cup q \cup h \cup p \cup u) = {}
      BY <2>3, Zenon DEF Flow
    <3>. QED  BY <3>1, <3>4, <3>5
  <2>5. Stream!ToSet(queue[streaming]) = q
    BY <2>2 DEF Stream!ToSet, Queued
  <2>6. PICK parts : parts = <<o, q, h, p, u, l>>
    OBVIOUS
  <2>7. /\ DOMAIN parts = 1..6 /\ parts[1] = o /\ parts[2] = q /\ parts[3] = h
        /\ parts[4] = p /\ parts[5] = u /\ parts[6] = l
    BY <2>6
  <2>8. \A i \in 1..6 : i = 1 \/ i = 2 \/ i = 3 \/ i = 4 \/ i = 5 \/ i = 6
    OBVIOUS
  <2>9. all = UNION Stream!ToSet(parts)
    <3>1. 1 \in 1..6 /\ 2 \in 1..6 /\ 3 \in 1..6 /\ 4 \in 1..6 /\ 5 \in 1..6 /\ 6 \in 1..6
      OBVIOUS
    <3>2. Stream!ToSet(parts) = {parts[i] : i \in 1..6}
      BY <2>7 DEF Stream!ToSet
    <3>3. {parts[i] : i \in 1..6} = {o, q, h, p, u, l}
      BY <2>7, <2>8, <3>1
    <3>4. UNION {o, q, h, p, u, l} = o \cup q \cup h \cup p \cup u \cup l
      OBVIOUS
    <3>. QED  BY <2>4, <3>2, <3>3, <3>4
  <2>10. ASSUME NEW i \in 1..6, NEW j \in 1..6, i # j
         PROVE  parts[i] \cap parts[j] = {}
    <3>1. \A F, G : F \cap G = G \cap F
      OBVIOUS
    <3>. QED  BY <2>4, <2>7, <2>8, <2>10, <3>1
  <2>11. skips >= Stream!Cardinality(l)
    <3>1. skips >= Cardinality(l)
      BY <2>2 DEF SessionsInv, SkipInv
    <3>. QED  BY <3>1, SameCount
  <2>. QED  BY <2>2, <2>5, <2>6, <2>7, <2>9, <2>10, <2>11
<1>. QED  BY <1>1, SessionsInvariant, PTL

-----------------------------------------------------------------------------
(* Time goes on.                                                           *)

OnTheWay(s) == Stream!Offering(s) \cup Queued(s) \cup Stream!InHand(s)

\* A stream's frames come no closer to being encoded than they were, or go away.
LEMMA TimeStands ==
  ASSUME NEW s \in Streams, TimeInv(s), OnTheWay(s)' \subseteq OnTheWay(s),
         base'[s] = base[s], pending'[s] = pending[s], stamps'[s] = stamps[s],
         offered'[s] = offered[s]
  PROVE  TimeInv(s)'
<1>1. Stream!Published(s)' = Stream!Published(s)
  BY DEF Stream!Published
<1>2. \A f : IsFirst(s, f)' <=> IsFirst(s, f)
  BY DEF IsFirst
<1>3. base'[s] # -1 =>
        offered'[s] # {} /\ \A f \in OnTheWay(s)' : ~IsFirst(s, f)'
  BY <1>2 DEF TimeInv, OnTheWay
<1>4. \A f, g \in offered'[s] : f.n < g.n => f.frame < g.frame \/ IsFirst(s, f)'
  BY <1>2 DEF TimeInv
<1>5. base'[s] = -1 => pending'[s] = {} /\ stamps'[s] = <<>>
  BY DEF TimeInv
<1>6. \A f \in pending'[s] \cup Stream!Published(s)' :
        base'[s] =< f.frame /\ (IsFirst(s, f)' => base'[s] = f.frame)
  BY <1>1, <1>2 DEF TimeInv
<1>7. \A i \in DOMAIN stamps'[s] : stamps'[s][i].at = stamps'[s][i].frame.frame - base'[s]
  BY DEF TimeInv
<1>. QED  BY <1>3, <1>4, <1>5, <1>6, <1>7 DEF TimeInv, OnTheWay

LEMMA AllTimeStands ==
  ASSUME TimesInv, UNCHANGED <<base, pending, stamps, offered>>,
         \A s \in Streams : OnTheWay(s)' \subseteq OnTheWay(s)
  PROVE  \A s \in Streams : TimeInv(s)'
<1>. SUFFICES ASSUME NEW s \in Streams PROVE TimeInv(s)'
  OBVIOUS
<1>1. /\ TimeInv(s) /\ base'[s] = base[s] /\ pending'[s] = pending[s]
      /\ stamps'[s] = stamps[s] /\ offered'[s] = offered[s]
      /\ OnTheWay(s)' \subseteq OnTheWay(s)
  BY DEF TimesInv
<1>. QED  BY <1>1, TimeStands

\* Without a session there is nothing to say of the clock.
LEMMA NoClock == ASSUME streaming' = 0 PROVE ClockInv'
  BY DEF ClockInv

LEMMA ClockStands ==
  ASSUME ClockInv, clock' = clock, UNCHANGED <<streaming, offered>>,
         tick'.at \in {"named", "live"} =>
           tick.at \in {"named", "live"} /\ tick'.frame = tick.frame
  PROVE  ClockInv'
<1>. SUFFICES ASSUME streaming # 0
              PROVE  /\ Stream!Running'
                     /\ \A f \in offered[streaming] :
                         \/ IsFirst(streaming, f)'
                         \/ /\ f.frame < clock.frame
                            /\ tick'.at \in {"named", "live"} => f.frame < tick'.frame.frame
                     /\ tick'.at \in {"named", "live"} /\ offered[streaming] # {} =>
                          tick'.frame.frame < clock.frame
  BY DEF ClockInv
<1>1. Stream!Running'
  BY DEF ClockInv, Stream!Running
<1>2. \A f : IsFirst(streaming, f)' <=> IsFirst(streaming, f)
  BY DEF IsFirst
<1>. QED  BY <1>1, <1>2 DEF ClockInv

LEMMA TimesBegin == ASSUME Stream!Init PROVE TimesInv
<1>1. SessionsInv
  BY SessionsBegin
<1>2. ClockInv
  BY DEF Stream!Init, Stream!Nobody, ClockInv
<1>3. ASSUME NEW s \in Streams PROVE TimeInv(s)
  <2>1. offered[s] = {} /\ base[s] = -1 /\ pending[s] = {} /\ stamps[s] = <<>>
    BY DEF Stream!Init, Streams
  <2>2. Stream!Published(s) = {}
    BY <2>1 DEF Stream!Published
  <2>. QED  BY <2>1, <2>2 DEF TimeInv
<1>. QED  BY <1>1, <1>2, <1>3 DEF TimesInv

\* The directives: the clock is touched only where no session is.
LEMMA DirectivesKeepTime ==
  ASSUME TimesInv, ~ResyncsLive,
         \/ Stream!ShowStart \/ Stream!Resync \/ Stream!StreamStart \/ Stream!GoesLive
         \/ Stream!StreamStop \/ Stream!ShowStop \/ Stream!ThreadAwaited
         \/ Stream!StopEnds \/ Stream!ShowStopForced
  PROVE  ClockInv' /\ \A s \in Streams : TimeInv(s)'
<1>. USE DEF Stream!clockVars, Stream!directiveVars, Stream!streamVars, Stream!threads,
             Stream!history
<1>1. SessionInv /\ StreamTyped /\ ClockInv
  BY DEF TimesInv, SessionsInv
<1>2. UNCHANGED <<tick, queue, base, pending, stamps, offered>>
  BY DEF Stream!ShowStart, Stream!Resync, Stream!StreamStart, Stream!GoesLive,
         Stream!StreamStop, Stream!ShowStop, Stream!Stops, Stream!ThreadAwaited,
         Stream!StopEnds, Stream!ShowStopForced
<1>3. ASSUME NEW s \in Streams PROVE Stream!InHand(s)' \subseteq Stream!InHand(s)
  <2>1. CASE thread' = thread
    BY <2>1 DEF Stream!InHand
  <2>2. CASE Stream!StreamStart
    <3>1. /\ thread' = [thread EXCEPT ![opened + 1].at = "opening"]
          /\ thread \in [Streams -> [at : {"none", "opening", "top", "frame", "done"},
                                     encoder : BOOLEAN, frame : Frame, header : BOOLEAN]]
      BY <1>1, <2>2 DEF Stream!StreamStart, Stream!Opened, StreamTyped, ThreadTyped
    <3>2. thread'[s] = thread[s] \/ thread'[s].at = "opening"
      BY <3>1
    <3>. QED  BY <3>2 DEF Stream!InHand
  <2>3. thread' = thread \/ Stream!StreamStart
    BY DEF Stream!ShowStart, Stream!Resync, Stream!GoesLive, Stream!StreamStop,
           Stream!ShowStop, Stream!Stops, Stream!ThreadAwaited, Stream!StopEnds,
           Stream!ShowStopForced
  <2>. QED  BY <2>1, <2>2, <2>3
<1>4. ASSUME NEW s \in Streams PROVE OnTheWay(s)' \subseteq OnTheWay(s)
  <2>1. Stream!Offering(s)' = Stream!Offering(s) /\ Queued(s)' = Queued(s)
    BY <1>2 DEF Stream!Offering, Queued
  <2>. QED  BY <1>3, <2>1 DEF OnTheWay
<1>5. \A s \in Streams : TimeInv(s)'
  BY <1>2, <1>4, AllTimeStands
<1>6. ClockInv'
  <2>1. CASE Stream!ShowStart
    <3>1. streaming = 0 /\ streaming' = streaming
      BY <1>1, <2>1 DEF Stream!ShowStart, Stream!ClockStarts, ClockInv
    <3>. QED  BY <3>1, NoClock
  <2>2. CASE Stream!Resync
    <3>1. streaming = 0 /\ streaming' = streaming
      BY <1>1, <2>2 DEF Stream!Resync, Stream!Free, SessionInv
    <3>. QED  BY <3>1, NoClock
  <2>3. CASE Stream!StreamStart
    <3>1. streaming' = opened + 1 /\ clock' = clock /\ Stream!Running /\ opened < MaxStreams
      BY <2>3 DEF Stream!StreamStart
    <3>2. opened + 1 \in Streams /\ opened + 1 > opened
      BY <1>1, <3>1, StreamBounds DEF StreamTyped, SessionTyped
    <3>3. offered'[opened + 1] = {}
      BY <1>1, <1>2, <3>2 DEF SessionInv
    <3>. QED  BY <3>1, <3>3 DEF ClockInv, Stream!Running
  <2>4. CASE Stream!GoesLive
    BY <1>1, <1>2, <2>4, ClockStands DEF Stream!GoesLive
  <2>5. CASE Stream!StreamStop \/ Stream!ShowStop
    <3>1. streaming' = 0
      BY <2>5 DEF Stream!StreamStop, Stream!ShowStop, Stream!Stops, Stream!Nobody
    <3>. QED  BY <3>1, NoClock
  <2>6. CASE Stream!ThreadAwaited
    BY <1>1, <1>2, <2>6, ClockStands DEF Stream!ThreadAwaited
  <2>7. CASE Stream!StopEnds
    <3>1. streaming = 0 /\ streaming' = streaming
      BY <1>1, <2>7 DEF Stream!StopEnds, SessionInv
    <3>. QED  BY <3>1, NoClock
  <2>8. CASE Stream!ShowStopForced
    <3>1. streaming' = 0
      BY <1>1, <2>8 DEF Stream!ShowStopForced, Stream!Free, Stream!Nobody, SessionInv
    <3>. QED  BY <3>1, NoClock
  <2>. QED  BY <2>1, <2>2, <2>3, <2>4, <2>5, <2>6, <2>7, <2>8
<1>. QED  BY <1>5, <1>6

\* A tick takes the clock's number, or while it is stopped the loop's own.
LEMMA TickKeepsTime ==
  ASSUME TimesInv, Stream!TickBegins
  PROVE  ClockInv' /\ \A s \in Streams : TimeInv(s)'
<1>1. /\ tick.at = "due" /\ tick'.at = "named" /\ tick'.to = 0
      /\ Stream!Running => /\ clock' = [clock EXCEPT !.frame = @ + 1]
                           /\ tick'.frame.frame = clock.frame
      /\ UNCHANGED <<streaming, thread, queue, base, pending, stamps, offered>>
  BY DEF Stream!TickBegins, Stream!directiveVars, Stream!streamVars, Stream!history,
         Stream!Nobody
<1>2. clock \in [shows : Nat, frame : Nat \cup {-1}] /\ ClockInv
  BY DEF TimesInv, SessionsInv, StreamTyped, ClockTyped
<1>3. ASSUME NEW s \in Streams PROVE OnTheWay(s)' \subseteq OnTheWay(s)
  <2>1. Stream!Offering(s)' = {}
    BY <1>1, StreamBounds DEF Stream!Offering
  <2>2. Queued(s)' = Queued(s) /\ Stream!InHand(s)' = Stream!InHand(s)
    BY <1>1 DEF Queued, Stream!InHand
  <2>. QED  BY <2>1, <2>2 DEF OnTheWay
<1>4. \A s \in Streams : TimeInv(s)'
  BY <1>1, <1>3, AllTimeStands
<1>5. CASE streaming = 0
  BY <1>1, <1>4, <1>5, NoClock
<1>6. CASE streaming # 0
  <2>1. Stream!Running /\ streaming \in Streams
    BY <1>2, <1>6 DEF ClockInv, TimesInv, SessionsInv, StreamTyped, SessionTyped, StreamOrNone
  <2>2. /\ clock'.frame = clock.frame + 1 /\ clock.frame \in Nat
        /\ tick'.frame.frame = clock.frame
    BY <1>1, <1>2, <2>1 DEF Stream!Running
  <2>3. \A f : IsFirst(streaming, f)' <=> IsFirst(streaming, f)
    BY <1>1 DEF IsFirst
  <2>4. \A f \in offered[streaming] : f.frame \in Nat
    BY <2>1 DEF TimesInv, SessionsInv, StreamTyped, ThreadTyped, Frame
  <2>5. \A f \in offered'[streaming'] :
          \/ IsFirst(streaming, f)'
          \/ f.frame < clock'.frame /\ f.frame < tick'.frame.frame
    BY <1>1, <1>2, <1>6, <2>2, <2>3, <2>4 DEF ClockInv
  <2>6. Stream!Running' /\ tick'.frame.frame < clock'.frame
    BY <2>2 DEF Stream!Running
  <2>. QED  BY <1>1, <1>4, <2>5, <2>6 DEF ClockInv
<1>. QED  BY <1>5, <1>6

LEMMA ReadsStateKeepsTime ==
  ASSUME TimesInv, Stream!ReadsState
  PROVE  ClockInv' /\ \A s \in Streams : TimeInv(s)'
<1>1. /\ tick' = [tick EXCEPT !.at = IF live THEN "live" ELSE "due"] /\ tick.at = "named"
      /\ UNCHANGED <<clock, streaming, thread, queue, base, pending, stamps, offered>>
  BY DEF Stream!ReadsState, Stream!clockVars, Stream!directiveVars, Stream!streamVars,
         Stream!history
<1>2. tick'.to = tick.to /\ tick'.frame = tick.frame /\ ClockInv
  BY <1>1 DEF TimesInv, SessionsInv, StreamTyped, ClockTyped
<1>3. ClockInv'
  BY <1>1, <1>2, ClockStands
<1>4. ASSUME NEW s \in Streams PROVE OnTheWay(s)' \subseteq OnTheWay(s)
  BY <1>1, <1>2 DEF OnTheWay, Stream!Offering, Queued, Stream!InHand
<1>. QED  BY <1>1, <1>3, <1>4, AllTimeStands

\* The frame a stream is offered is the newest of all, and only its first may
\* be of another time.
LEMMA TakesSenderKeepsTime ==
  ASSUME TimesInv, Stream!TakesSender
  PROVE  ClockInv' /\ \A s \in Streams : TimeInv(s)'
<1>1. /\ tick.at = "live"
      /\ tick' = [tick EXCEPT !.at = IF streaming = 0 THEN "due" ELSE "draws",
                              !.to = streaming]
      /\ offered' = IF streaming = 0 THEN offered
                    ELSE [offered EXCEPT ![streaming] = @ \cup {tick.frame}]
      /\ UNCHANGED <<clock, streaming, thread, queue, base, pending, stamps>>
  BY DEF Stream!TakesSender, Stream!Nobody, Stream!clockVars, Stream!directiveVars,
         Stream!streamVars
<1>2. /\ tick.to = 0 /\ ClockInv /\ tick'.to = streaming /\ tick'.frame = tick.frame
      /\ tick'.at \in {"due", "draws"}
  BY <1>1 DEF TimesInv, SessionsInv, TickInv, StreamTyped, ClockTyped
<1>3. ASSUME NEW s \in Streams PROVE Stream!Offering(s) = {}
  BY <1>2, StreamBounds DEF Stream!Offering
<1>4. CASE streaming = 0
  <2>1. ASSUME NEW s \in Streams PROVE OnTheWay(s)' \subseteq OnTheWay(s)
    <3>1. Stream!Offering(s)' = {}
      BY <1>1, <1>2, <1>4, StreamBounds DEF Stream!Offering
    <3>. QED  BY <1>1, <3>1 DEF OnTheWay, Queued, Stream!InHand
  <2>2. offered' = offered
    BY <1>1, <1>4
  <2>. QED  BY <1>1, <1>4, <2>1, <2>2, AllTimeStands, NoClock
<1>5. CASE streaming # 0
  <2>1. PICK s, f : s = streaming /\ f = tick.frame
    OBVIOUS
  <2>2. /\ s \in Streams /\ f \in Frame /\ f.n = ticked /\ ticked \in Nat
        /\ offered \in [Streams -> SUBSET Frame]
    BY <1>1, <1>5, <2>1
    DEF TimesInv, SessionsInv, StreamTyped, ClockTyped, SessionTyped, ThreadTyped,
        TickInv, StreamOrNone
  <2>3. /\ offered'[s] = offered[s] \cup {f}
        /\ \A r \in Streams : r # s => offered'[r] = offered[r]
    BY <1>1, <1>5, <2>1, <2>2
  <2>4. \A g \in offered[s] : g \in Frame /\ g.n < f.n
    BY <1>1, <2>2 DEF TimesInv, SessionsInv, TickInv
  <2>5. \A g \in offered[s] : IsFirst(s, g)' <=> IsFirst(s, g)
    BY <2>2, <2>3, <2>4 DEF IsFirst, Frame
  <2>6. IsFirst(s, f)' <=> offered[s] = {}
    BY <2>2, <2>3, <2>4 DEF IsFirst, Frame
  <2>7. \A g \in offered[s] : IsFirst(s, g) \/ g.frame < f.frame
    BY <1>1, <1>2, <1>5, <2>1 DEF ClockInv
  <2>8. ClockInv'
    <3>1. \A g \in offered[s] : IsFirst(s, g) \/ g.frame < clock.frame
      BY <1>2, <1>5, <2>1 DEF ClockInv
    <3>2. offered[s] # {} => f.frame < clock.frame
      BY <1>1, <1>2, <1>5, <2>1 DEF ClockInv
    <3>3. \A g \in offered'[s] : IsFirst(s, g)' \/ g.frame < clock'.frame
      BY <1>1, <2>3, <2>5, <2>6, <3>1, <3>2
    <3>4. Stream!Running' /\ streaming' = s /\ tick'.at \notin {"named", "live"}
      BY <1>1, <1>2, <1>5, <2>1 DEF ClockInv, Stream!Running
    <3>. QED  BY <3>3, <3>4 DEF ClockInv
  <2>9. TimeInv(s)'
    <3>1. TimeInv(s)
      BY <2>2 DEF TimesInv
    <3>2. \A g, h \in offered'[s] : g.n < h.n => g.frame < h.frame \/ IsFirst(s, g)'
      <4>1. \A g, h \in offered[s] : g.n < h.n => g.frame < h.frame \/ IsFirst(s, g)'
        BY <2>5, <3>1 DEF TimeInv
      <4>2. \A g \in offered[s] : g.frame < f.frame \/ IsFirst(s, g)'
        BY <2>5, <2>7
      <4>3. \A g \in offered[s] : ~(f.n < g.n)
        BY <2>2, <2>4 DEF Frame
      <4>4. ~(f.n < f.n)
        BY <2>2
      <4>. QED  BY <2>3, <4>1, <4>2, <4>3, <4>4, Zenon
    <3>3. base'[s] # -1 =>
            offered'[s] # {} /\ \A g \in OnTheWay(s)' : ~IsFirst(s, g)'
      <4>1. ASSUME base'[s] # -1, NEW g \in OnTheWay(s)' PROVE ~IsFirst(s, g)'
        <5>1. g \in OnTheWay(s) \/ g = f
          BY <1>1, <1>2, <2>1, <4>1 DEF OnTheWay, Stream!Offering, Queued, Stream!InHand
        <5>2. offered[s] # {} /\ (g \in OnTheWay(s) => ~IsFirst(s, g))
          BY <1>1, <3>1, <4>1 DEF TimeInv, OnTheWay
        <5>3. g \in OnTheWay(s) => ~IsFirst(s, g)'
          BY <2>3, <5>2 DEF IsFirst
        <5>. QED  BY <2>6, <5>1, <5>2, <5>3
      <4>. QED  BY <2>3, <4>1
    <3>4. base'[s] = -1 => pending'[s] = {} /\ stamps'[s] = <<>>
      BY <1>1, <3>1 DEF TimeInv
    <3>5. \A g \in pending'[s] \cup Stream!Published(s)' :
            base'[s] =< g.frame /\ (IsFirst(s, g)' => base'[s] = g.frame)
      <4>1. Stream!Published(s)' = Stream!Published(s)
        BY <1>1 DEF Stream!Published
      <4>2. \A g : IsFirst(s, g)' => IsFirst(s, g)
        BY <2>3 DEF IsFirst
      <4>. QED  BY <1>1, <3>1, <4>1, <4>2 DEF TimeInv
    <3>6. \A i \in DOMAIN stamps'[s] :
            stamps'[s][i].at = stamps'[s][i].frame.frame - base'[s]
      BY <1>1, <3>1 DEF TimeInv
    <3>. QED  BY <3>2, <3>3, <3>4, <3>5, <3>6 DEF TimeInv, OnTheWay
  <2>10. ASSUME NEW r \in Streams, r # s PROVE TimeInv(r)'
    <3>1. Stream!Offering(r)' = {}
      BY <1>1, <1>2, <2>1, <2>10 DEF Stream!Offering
    <3>2. OnTheWay(r)' \subseteq OnTheWay(r)
      BY <1>1, <3>1 DEF OnTheWay, Queued, Stream!InHand
    <3>3. TimeInv(r)
      BY DEF TimesInv
    <3>. QED  BY <1>1, <2>3, <2>10, <3>2, <3>3, TimeStands
  <2>. QED  BY <2>8, <2>9, <2>10
<1>. QED  BY <1>4, <1>5

LEMMA HandsOverKeepsTime ==
  ASSUME TimesInv, Stream!HandsOver
  PROVE  ClockInv' /\ \A s \in Streams : TimeInv(s)'
<1>0. PICK s, f : s = tick.to /\ f = tick.frame
  OBVIOUS
<1>1. /\ tick.at = "draws" /\ tick' = [tick EXCEPT !.at = "due", !.to = 0]
      /\ UNCHANGED <<clock, streaming, thread, base, pending, stamps, offered>>
  BY DEF Stream!HandsOver, Stream!Nobody, Stream!clockVars, Stream!directiveVars
<1>2. /\ tick'.at = "due" /\ tick'.to = 0 /\ ClockInv /\ f \in Frame
      /\ queue \in [Streams -> Seq(Frame)]
  BY <1>0, <1>1 DEF TimesInv, SessionsInv, StreamTyped, ClockTyped, ThreadTyped
<1>3. ClockInv'
  BY <1>1, <1>2, ClockStands
<1>4. queue' = queue \/ queue' = [queue EXCEPT ![s] = Append(@, f)]
  BY <1>0 DEF Stream!HandsOver
<1>5. ASSUME NEW r \in Streams PROVE OnTheWay(r)' \subseteq OnTheWay(r)
  <2>1. Stream!Offering(r)' = {} /\ Stream!InHand(r)' = Stream!InHand(r)
    BY <1>1, <1>2, StreamBounds DEF Stream!Offering, Stream!InHand
  <2>2. CASE queue'[r] = queue[r]
    BY <2>1, <2>2 DEF OnTheWay, Queued
  <2>3. CASE r = s /\ queue'[r] = Append(queue[r], f)
    <3>1. PICK k \in Nat : k = Len(queue[r])
      BY <1>2, LenProperties
    <3>2. /\ DOMAIN queue'[r] = 1..(k + 1)
          /\ DOMAIN queue[r] = 1..k /\ \A i \in 1..k : queue'[r][i] = queue[r][i]
          /\ queue'[r][k + 1] = f
      BY <1>2, <2>3, <3>1, AppendProperties, LenProperties
    <3>3. \A i : i \in 1..(k + 1) <=> i \in 1..k \/ i = k + 1
      BY <3>1
    <3>4. Queued(r)' \subseteq Queued(r) \cup {f}
      BY <3>2, <3>3 DEF Queued
    <3>5. f \in Stream!Offering(r)
      BY <1>0, <2>3 DEF Stream!Offering
    <3>. QED  BY <2>1, <3>4, <3>5 DEF OnTheWay
  <2>. QED  BY <1>2, <1>4, <2>2, <2>3
<1>. QED  BY <1>1, <1>3, <1>5, AllTimeStands

\* The thread's steps that encode nothing.
LEMMA ThreadKeepsTime ==
  ASSUME TimesInv, NEW s \in Streams,
         Stream!Opens(s) \/ Stream!TransportEnds(s) \/ Stream!SeesStop(s) \/ Stream!Receives(s)
  PROVE  \A r \in Streams : TimeInv(r)'
<1>1. /\ Stream!Elsewhere /\ UNCHANGED <<base, pending, stamps>>
      /\ SessionsInv
  BY DEF Stream!Opens, Stream!TransportEnds, Stream!SeesStop, Stream!Receives, TimesInv
<1>2. UNCHANGED <<tick, offered>>
  BY <1>1 DEF Stream!Elsewhere
<1>3. thread \in [Streams -> [at : {"none", "opening", "top", "frame", "done"},
                              encoder : BOOLEAN, frame : Frame, header : BOOLEAN]]
  BY <1>1, ThreadFinds
<1>4. queue \in [Streams -> Seq(Frame)]
  BY <1>1, ThreadFinds
<1>5. ASSUME NEW r \in Streams PROVE OnTheWay(r)' \subseteq OnTheWay(r)
  <2>1. Stream!Offering(r)' = Stream!Offering(r)
    BY <1>2 DEF Stream!Offering
  <2>2. CASE Stream!Opens(s)
    <3>1. /\ queue' = queue
          /\ \E e \in BOOLEAN : thread' = [thread EXCEPT ![s].at = "top", ![s].encoder = e]
      BY <2>2 DEF Stream!Opens
    <3>2. thread'[r] = thread[r] \/ thread'[r].at = "top"
      BY <1>3, <3>1
    <3>. QED  BY <2>1, <3>1, <3>2 DEF OnTheWay, Queued, Stream!InHand
  <2>3. CASE Stream!TransportEnds(s)
    BY <2>1, <2>3 DEF OnTheWay, Queued, Stream!InHand, Stream!TransportEnds
  <2>4. CASE Stream!SeesStop(s)
    <3>1. /\ thread' = [thread EXCEPT ![s].at = "done"]
          /\ queue' = [queue EXCEPT ![s] = <<>>]
      BY <2>4 DEF Stream!SeesStop
    <3>2. /\ thread'[r] = thread[r] \/ thread'[r].at = "done"
          /\ queue'[r] = queue[r] \/ queue'[r] = <<>>
      BY <1>3, <1>4, <3>1
    <3>. QED  BY <2>1, <3>2 DEF OnTheWay, Queued, Stream!InHand
  <2>5. CASE Stream!Receives(s)
    <3>1. /\ thread' = [thread EXCEPT ![s].at = "frame", ![s].frame = Head(queue[s])]
          /\ queue' = [queue EXCEPT ![s] = Tail(@)] /\ queue[s] # <<>>
      BY <2>5 DEF Stream!Receives
    <3>2. CASE r # s
      BY <1>3, <1>4, <2>1, <3>1, <3>2 DEF OnTheWay, Queued, Stream!InHand
    <3>3. CASE r = s
      <4>1. PICK f, t : f = Head(queue[s]) /\ t = Tail(queue[s])
        OBVIOUS
      <4>2. thread'[r].frame = f /\ queue'[r] = t
        BY <1>3, <1>4, <3>1, <3>3, <4>1
      <4>3. PICK k \in Nat : k = Len(queue[s]) /\ k >= 1
        <5>1. Len(queue[s]) \in Nat /\ Len(queue[s]) # 0
          BY <1>4, <3>1, LenProperties, EmptySeq
        <5>. QED  BY <5>1
      <4>4. /\ f = queue[s][1] /\ t \in Seq(Frame) /\ Len(t) = k - 1
            /\ \A i \in 1..(k - 1) : t[i] = queue[s][i + 1]
        BY <1>4, <3>1, <4>1, <4>3, HeadTailProperties
      <4>5. DOMAIN t = 1..(k - 1) /\ DOMAIN queue[s] = 1..k
        BY <1>4, <4>3, <4>4, LenProperties
      <4>6. 1 \in 1..k /\ \A i \in 1..(k - 1) : i + 1 \in 1..k
        BY <4>3
      <4>7. Queued(r)' \subseteq Queued(r) /\ f \in Queued(r)
        BY <3>3, <4>2, <4>4, <4>5, <4>6 DEF Queued
      <4>8. Stream!InHand(r)' \subseteq {f}
        BY <4>2 DEF Stream!InHand
      <4>. QED  BY <2>1, <4>7, <4>8 DEF OnTheWay
    <3>. QED  BY <3>2, <3>3
  <2>. QED  BY <2>2, <2>3, <2>4, <2>5
<1>. QED  BY <1>1, <1>2, <1>5, AllTimeStands

\* A frame that meets the encoder: time begins with it, or it is none of the
\* first.
LEMMA TimeEncodes ==
  ASSUME TimesInv, NEW s \in Streams, NEW f, NEW first, thread[s].at = "frame",
         f = thread[s].frame, first = Stream!First(s),
         base'[s] = first, Stream!InHand(s)' = {}, Queued(s)' = Queued(s),
         Stream!Offering(s)' = Stream!Offering(s), offered'[s] = offered[s],
         pending'[s] \cup Stream!Published(s)'
           \subseteq pending[s] \cup Stream!Published(s) \cup {f},
         f \in pending'[s] \cup Stream!Published(s)' => f.frame >= first,
         \A i \in DOMAIN stamps'[s] :
           \/ i \in DOMAIN stamps[s] /\ stamps'[s][i] = stamps[s][i]
           \/ stamps'[s][i].at = stamps'[s][i].frame.frame - first
  PROVE  TimeInv(s)'
<1>1. TimeInv(s) /\ FlowInv(s) /\ f \in Stream!InHand(s)
  BY DEF TimesInv, SessionsInv, Stream!InHand
<1>2. /\ f \in offered[s] /\ offered[s] \subseteq Frame /\ f \in Frame
      /\ base[s] \in Nat \cup {-1}
      /\ Stream!Offering(s) \cup Queued(s) \subseteq offered[s]
  <2>1. offered[s] \subseteq Frame /\ base[s] \in Nat \cup {-1}
    BY DEF TimesInv, SessionsInv, StreamTyped, ThreadTyped
  <2>. QED  BY <1>1, <2>1 DEF FlowInv, Flow
<1>3. first \in Nat /\ first # -1 /\ (base[s] = -1 => first = f.frame)
      /\ (base[s] # -1 => first = base[s])
  BY <1>2 DEF Stream!First, Frame
<1>4. \A g : IsFirst(s, g)' <=> IsFirst(s, g)
  BY DEF IsFirst
<1>5. \A g \in Stream!Offering(s) \cup Queued(s) : ~IsFirst(s, g)
  <2>1. Ahead(Stream!InHand(s), Queued(s) \cup Stream!Offering(s))
    BY <1>1 DEF FlowInv, Flow
  <2>2. \A g \in Stream!Offering(s) \cup Queued(s) : f.n < g.n
    BY <1>1, <2>1 DEF Ahead
  <2>. QED  BY <1>2, <2>2 DEF IsFirst, Frame
<1>6. \A g \in pending'[s] \cup Stream!Published(s)' :
        first =< g.frame /\ (IsFirst(s, g) => first = g.frame)
  <2>1. CASE base[s] = -1
    <3>1. pending[s] = {} /\ Stream!Published(s) = {}
      BY <1>1, <2>1 DEF TimeInv, Stream!Published
    <3>2. \A g \in pending'[s] \cup Stream!Published(s)' : g = f
      BY <3>1
    <3>. QED  BY <1>3, <2>1, <3>2
  <2>2. CASE base[s] # -1
    <3>1. \A g \in pending[s] \cup Stream!Published(s) :
            first =< g.frame /\ (IsFirst(s, g) => first = g.frame)
      BY <1>1, <1>3, <2>2 DEF TimeInv
    <3>2. ~IsFirst(s, f)
      BY <1>1, <2>2 DEF TimeInv
    <3>3. f \in pending'[s] \cup Stream!Published(s)' => first =< f.frame
      BY <1>2, <1>3 DEF Frame
    <3>. QED  BY <3>1, <3>2, <3>3
  <2>. QED  BY <2>1, <2>2
<1>7. \A i \in DOMAIN stamps'[s] : stamps'[s][i].at = stamps'[s][i].frame.frame - first
  <2>1. CASE base[s] = -1
    <3>1. DOMAIN stamps[s] = {}
      BY <1>1, <2>1 DEF TimeInv
    <3>. QED  BY <3>1
  <2>2. CASE base[s] # -1
    BY <1>1, <1>3, <2>2 DEF TimeInv
  <2>. QED  BY <2>1, <2>2
<1>8. \A g, h \in offered'[s] : g.n < h.n => g.frame < h.frame \/ IsFirst(s, g)'
  BY <1>1, <1>4 DEF TimeInv
<1>9. \A g \in OnTheWay(s)' : ~IsFirst(s, g)'
  BY <1>4, <1>5 DEF OnTheWay
<1>. QED  BY <1>2, <1>3, <1>4, <1>6, <1>7, <1>8, <1>9 DEF TimeInv, OnTheWay

\* Only one stream's frames are touched by its thread.
LEMMA OthersKeepTime ==
  ASSUME TimesInv, NEW s \in Streams, Stream!Elsewhere, TimeInv(s)',
         \A r \in Streams : r # s =>
           /\ thread'[r] = thread[r] /\ queue'[r] = queue[r] /\ base'[r] = base[r]
           /\ pending'[r] = pending[r] /\ stamps'[r] = stamps[r]
  PROVE  \A r \in Streams : TimeInv(r)'
<1>1. UNCHANGED <<tick, offered>>
  BY DEF Stream!Elsewhere
<1>2. ASSUME NEW r \in Streams, r # s PROVE TimeInv(r)'
  <2>1. OnTheWay(r)' \subseteq OnTheWay(r)
    BY <1>1, <1>2 DEF OnTheWay, Stream!Offering, Queued, Stream!InHand
  <2>2. TimeInv(r)
    BY DEF TimesInv
  <2>. QED  BY <1>1, <1>2, <2>1, <2>2, TimeStands
<1>. QED  BY <1>2

LEMMA DropsKeepsTime ==
  ASSUME TimesInv, NEW s \in Streams, Stream!Drops(s)
  PROVE  \A r \in Streams : TimeInv(r)'
<1>1. /\ thread[s].at = "frame" /\ Stream!Elsewhere /\ thread' = Stream!Back(s)
      /\ base' = IF thread[s].encoder THEN [base EXCEPT ![s] = Stream!First(s)] ELSE base
      /\ UNCHANGED <<queue, pending, stamps>> /\ SessionsInv
  BY DEF Stream!Drops, TimesInv
<1>2. /\ thread' = [thread EXCEPT ![s].at = "top", ![s].frame = [n |-> 0, frame |-> 0],
                                  ![s].header = thread[s].header]
      /\ thread[s].header \in BOOLEAN
  BY <1>1, BackIs
<1>3. /\ Stream!InHand(s)' = {} /\ Stream!InHand(s) = {thread[s].frame}
      /\ \A r \in Streams : r # s => thread'[r] = thread[r]
  BY <1>1, <1>2, ThreadBack
<1>4. /\ Queued(s)' = Queued(s) /\ Stream!Offering(s)' = Stream!Offering(s)
      /\ offered' = offered /\ base \in [Streams -> Nat \cup {-1}]
      /\ Stream!Published(s)' = Stream!Published(s)
  BY <1>1, ThreadFinds DEF Queued, Stream!Published
<1>5. /\ base'[s] = IF thread[s].encoder THEN Stream!First(s) ELSE base[s]
      /\ \A r \in Streams : r # s => base'[r] = base[r]
  BY <1>1, <1>4
<1>6. CASE thread[s].encoder
  <2>1. PICK f, first : f = thread[s].frame /\ first = Stream!First(s)
    OBVIOUS
  <2>2. f \notin pending[s] \cup Stream!Published(s)
    <3>1. FlowInv(s) /\ f \in Stream!InHand(s) /\ f \in Frame
      BY <1>1, <1>2, <1>3, <2>1, ThreadBack DEF SessionsInv
    <3>2. \A g \in pending[s] \cup Stream!Published(s) : g.n < f.n
      BY <3>1 DEF FlowInv, Flow, Ahead
    <3>. QED  BY <3>1, <3>2 DEF Frame
  <2>3. TimeInv(s)'
    BY <1>1, <1>3, <1>4, <1>5, <1>6, <2>1, <2>2, TimeEncodes
  <2>. QED  BY <1>1, <1>3, <1>5, <2>3, OthersKeepTime
<1>7. CASE ~thread[s].encoder
  <2>1. OnTheWay(s)' \subseteq OnTheWay(s)
    BY <1>3, <1>4 DEF OnTheWay
  <2>2. TimeInv(s)
    BY DEF TimesInv
  <2>3. TimeInv(s)'
    BY <1>1, <1>4, <1>5, <1>7, <2>1, <2>2, TimeStands
  <2>. QED  BY <1>1, <1>3, <1>5, <2>3, OthersKeepTime
<1>. QED  BY <1>6, <1>7

LEMMA HoldsKeepsTime ==
  ASSUME TimesInv, NEW s \in Streams, Stream!Holds(s)
  PROVE  \A r \in Streams : TimeInv(r)'
<1>1. /\ thread[s].at = "frame" /\ Stream!Elsewhere /\ thread' = Stream!Back(s)
      /\ thread[s].frame.frame >= Stream!First(s)
      /\ base' = [base EXCEPT ![s] = Stream!First(s)]
      /\ pending' = [pending EXCEPT ![s] = @ \cup {thread[s].frame}]
      /\ UNCHANGED <<queue, stamps>> /\ SessionsInv
  BY DEF Stream!Holds, Stream!Encodes, TimesInv
<1>2. /\ thread' = [thread EXCEPT ![s].at = "top", ![s].frame = [n |-> 0, frame |-> 0],
                                  ![s].header = thread[s].header]
      /\ thread[s].header \in BOOLEAN
  BY <1>1, BackIs
<1>3. /\ Stream!InHand(s)' = {}
      /\ \A r \in Streams : r # s => thread'[r] = thread[r]
  BY <1>1, <1>2, ThreadBack
<1>4. /\ Queued(s)' = Queued(s) /\ Stream!Offering(s)' = Stream!Offering(s)
      /\ offered' = offered /\ base \in [Streams -> Nat \cup {-1}]
      /\ pending \in [Streams -> SUBSET Frame]
      /\ Stream!Published(s)' = Stream!Published(s)
  BY <1>1, ThreadFinds DEF Queued, Stream!Published
<1>5. PICK f, first : f = thread[s].frame /\ first = Stream!First(s)
  OBVIOUS
<1>6. /\ base'[s] = first /\ pending'[s] = pending[s] \cup {f}
      /\ \A r \in Streams : r # s => base'[r] = base[r] /\ pending'[r] = pending[r]
  BY <1>1, <1>4, <1>5
<1>7. TimeInv(s)'
  BY <1>1, <1>3, <1>4, <1>5, <1>6, TimeEncodes
<1>. QED  BY <1>1, <1>3, <1>6, <1>7, OthersKeepTime

LEMMA PublishesKeepsTime ==
  ASSUME TimesInv, NEW s \in Streams, Stream!Publishes(s)
  PROVE  \A r \in Streams : TimeInv(r)'
<1>1. /\ thread[s].at = "frame" /\ Stream!Elsewhere /\ SessionsInv
      /\ base' = [base EXCEPT ![s] = Stream!First(s)]
      /\ pending' = [pending EXCEPT ![s] = {}] /\ queue' = queue
  BY Publication DEF TimesInv
<1>2. PICK coded, taken, header, n : Settles(s, coded, taken, header, n)
  BY Publication DEF TimesInv
<1>3. /\ coded = pending[s] \cup {thread[s].frame} /\ taken \subseteq coded
      /\ header \in BOOLEAN
      /\ thread' = [thread EXCEPT ![s].at = "top", ![s].frame = [n |-> 0, frame |-> 0],
                                  ![s].header = header]
  BY <1>2 DEF Settles
<1>4. PICK f, first : f = thread[s].frame /\ first = Stream!First(s)
  OBVIOUS
<1>5. /\ Stream!InHand(s)' = {} /\ Stream!InHand(s) = {f} /\ first \in Int
      /\ \A r \in Streams : r # s => thread'[r] = thread[r]
  <2>1. first \in Nat \cup {-1}
    BY <1>1, <1>3, <1>4, ThreadBack
  <2>2. first \in Int
    BY <2>1
  <2>. QED  BY <1>1, <1>3, <1>4, <2>2, ThreadBack
<1>6. /\ Queued(s)' = Queued(s) /\ Stream!Offering(s)' = Stream!Offering(s)
      /\ offered' = offered /\ base \in [Streams -> Nat \cup {-1}]
      /\ pending \in [Streams -> SUBSET Frame]
      /\ stamps \in [Streams -> Seq([frame : Frame, at : Int])]
  BY <1>1, ThreadFinds DEF Queued
<1>7. /\ base'[s] = first /\ pending'[s] = {}
      /\ \A r \in Streams : r # s => base'[r] = base[r] /\ pending'[r] = pending[r]
  BY <1>1, <1>4, <1>6
<1>8. /\ Stream!Published(s)' \subseteq Stream!Published(s) \cup taken
      /\ \A r \in Streams : r # s => stamps'[r] = stamps[r]
      /\ \A i \in DOMAIN stamps'[s] :
           \/ i \in DOMAIN stamps[s] /\ stamps'[s][i] = stamps[s][i]
           \/ stamps'[s][i].at = stamps'[s][i].frame.frame - first
  <2>1. CASE stamps' = stamps
    BY <2>1 DEF Stream!Published
  <2>2. CASE stamps' = [stamps EXCEPT ![s] = Grown(s, taken, Stream!First(s))]
    <3>1. PICK new : new = Grown(s, taken, first)
      OBVIOUS
    <3>2. taken \subseteq pending[s] \cup Stream!InHand(s)
      BY <1>3, <1>4, <1>5
    <3>3. FramesIn(new) = Stream!Published(s) \cup taken /\ Dated(s, new, first)
      BY <1>1, <1>5, <3>1, <3>2, StampsGrow, Zenon
    <3>4. stamps' = [stamps EXCEPT ![s] = new]
      BY <1>4, <2>2, <3>1
    <3>5. stamps'[s] = new /\ \A r \in Streams : r # s => stamps'[r] = stamps[r]
      BY <1>6, <3>4
    <3>6. Stream!Published(s)' = Stream!Published(s) \cup taken
      BY <3>3, <3>5, Zenon DEF Stream!Published, FramesIn
    <3>. QED  BY <3>3, <3>5, <3>6, Zenon DEF Dated
  <2>. QED  BY <1>2, <2>1, <2>2 DEF Settles
<1>9. /\ pending'[s] \cup Stream!Published(s)'
           \subseteq pending[s] \cup Stream!Published(s) \cup {f}
      /\ f.frame >= first
  BY <1>3, <1>4, <1>7, <1>8 DEF Stream!Publishes, Stream!Encodes
<1>10. TimeInv(s)'
  BY <1>1, <1>4, <1>5, <1>6, <1>7, <1>8, <1>9, TimeEncodes
<1>. QED  BY <1>1, <1>5, <1>7, <1>8, <1>10, OthersKeepTime

LEMMA TimesStep == ASSUME TimesInv, ~ResyncsLive, Stream!Next PROVE TimesInv'
<1>1. SessionsInv'
  BY SessionsStep DEF TimesInv
<1>2. CASE \/ Stream!ShowStart \/ Stream!Resync \/ Stream!StreamStart \/ Stream!GoesLive
           \/ Stream!StreamStop \/ Stream!ShowStop \/ Stream!ThreadAwaited
           \/ Stream!StopEnds \/ Stream!ShowStopForced
  BY <1>1, <1>2, DirectivesKeepTime DEF TimesInv
<1>3. CASE Stream!TickBegins
  BY <1>1, <1>3, TickKeepsTime DEF TimesInv
<1>4. CASE Stream!ReadsState
  BY <1>1, <1>4, ReadsStateKeepsTime DEF TimesInv
<1>5. CASE Stream!TakesSender
  BY <1>1, <1>5, TakesSenderKeepsTime DEF TimesInv
<1>6. CASE Stream!HandsOver
  BY <1>1, <1>6, HandsOverKeepsTime DEF TimesInv
<1>7. ASSUME NEW s \in Streams,
             \/ Stream!Opens(s) \/ Stream!SeesStop(s) \/ Stream!Receives(s)
             \/ Stream!Drops(s) \/ Stream!Holds(s) \/ Stream!Publishes(s)
             \/ Stream!TransportEnds(s)
      PROVE  TimesInv'
  <2>1. Stream!Elsewhere
    BY <1>7 DEF Stream!Opens, Stream!SeesStop, Stream!Receives, Stream!Drops, Stream!Holds,
       Stream!Publishes, Stream!TransportEnds
  <2>2. ClockInv'
    <3>1. UNCHANGED <<clock, tick, streaming, offered>> /\ ClockInv
      BY <2>1 DEF Stream!Elsewhere, Stream!clockVars, Stream!directiveVars, TimesInv
    <3>. QED  BY <3>1, ClockStands
  <2>3. \A r \in Streams : TimeInv(r)'
    BY <1>7, ThreadKeepsTime, DropsKeepsTime, HoldsKeepsTime, PublishesKeepsTime
  <2>. QED  BY <1>1, <2>2, <2>3 DEF TimesInv
<1>. QED
  BY <1>2, <1>3, <1>4, <1>5, <1>6, <1>7, Zenon DEF Stream!Next, Streams

LEMMA TimesStutter == ASSUME TimesInv, UNCHANGED streamVars PROVE TimesInv'
<1>1. UNCHANGED <<clock, tick, streaming, thread, queue, base, pending, stamps, offered>>
  BY DEF streamVars
<1>2. SessionsInv' /\ ClockInv /\ SessionsInv
  BY SessionsStutter DEF TimesInv
<1>3. ClockInv'
  BY <1>1, <1>2, ClockStands
<1>4. \A s \in Streams : OnTheWay(s)' \subseteq OnTheWay(s)
  BY <1>1 DEF OnTheWay, Stream!Offering, Queued, Stream!InHand
<1>5. \A s \in Streams : TimeInv(s)'
  BY <1>1, <1>4, AllTimeStands
<1>. QED  BY <1>2, <1>3, <1>5 DEF TimesInv

\* The inductive invariant of a stream's time: the clock is touched only where
\* no session is, so the frames of a session but its first are of one run of
\* the clock, and the first to meet the encoder is the one time is counted from.
THEOREM TimesInvariant == ASSUME ~ResyncsLive PROVE MCSpec => []TimesInv
<1>1. MCInit => TimesInv
  BY TimesBegin DEF MCInit
<1>2. TimesInv /\ [MCNext]_<<part, vars, streamVars, readerVars, soundVars>> => TimesInv'
  <2>. SUFFICES ASSUME TimesInv,
                       [MCNext]_<<part, vars, streamVars, readerVars, soundVars>>
                PROVE  TimesInv'
    OBVIOUS
  <2>1. CASE Stream!Next
    BY <2>1, TimesStep
  <2>2. CASE UNCHANGED streamVars
    BY <2>2, TimesStutter
  <2>. QED  BY <2>1, <2>2 DEF MCNext
<1>. QED  BY <1>1, <1>2, PTL DEF MCSpec

\* stream.rs, Timeline: while no resync touches the clock under a live stream,
\* a stream's time begins with its first frame and never goes back, for any
\* number of streams, shows and ticks and any queue bound.
THEOREM StampsRiseInTime == ASSUME ~ResyncsLive PROVE MCSpec => []StampsNeverGoBack
<1>1. TimesInv => StampsNeverGoBack
  <2>. SUFFICES ASSUME TimesInv, NEW s \in Streams, NEW i \in DOMAIN stamps[s]
                PROVE  /\ stamps[s][i].at >= 0
                       /\ i > 1 => stamps[s][i].at >= stamps[s][i - 1].at
    BY Zenon DEF StampsNeverGoBack, Stream!StampsNeverGoBack, Streams
  <2>1. /\ TimeInv(s) /\ StampsRise(s) /\ base[s] \in Int
        /\ stamps[s] \in Seq([frame : Frame, at : Int])
    <3>1. TimeInv(s) /\ FlowInv(s) /\ ThreadTyped
      BY DEF TimesInv, SessionsInv, StreamTyped
    <3>2. base[s] \in Nat \cup {-1} /\ stamps[s] \in Seq([frame : Frame, at : Int])
      BY <3>1 DEF ThreadTyped
    <3>3. base[s] \in Int
      BY <3>2
    <3>. QED  BY <3>1, <3>2, <3>3 DEF FlowInv
  <2>2. Stream!Published(s) \subseteq offered[s]
    <3>1. FlowInv(s)
      BY DEF TimesInv, SessionsInv
    <3>. QED  BY <3>1 DEF FlowInv, Flow
  <2>3. ASSUME NEW j \in DOMAIN stamps[s]
        PROVE  /\ stamps[s][j].frame \in Stream!Published(s)
               /\ stamps[s][j].frame.frame \in Int
               /\ base[s] =< stamps[s][j].frame.frame
               /\ IsFirst(s, stamps[s][j].frame) => base[s] = stamps[s][j].frame.frame
               /\ stamps[s][j].at = stamps[s][j].frame.frame - base[s]
    <3>1. stamps[s][j].frame \in Stream!Published(s)
      BY DEF Stream!Published
    <3>2. stamps[s][j].frame.frame \in Int
      <4>1. stamps[s][j] \in [frame : Frame, at : Int]
        BY <2>1, LenProperties, ElementOfSeq
      <4>. QED  BY <4>1 DEF Frame
    <3>. QED  BY <2>1, <3>1, <3>2 DEF TimeInv
  <2>4. stamps[s][i].at >= 0
    BY <2>1, <2>3
  <2>5. ASSUME i > 1 PROVE stamps[s][i].at >= stamps[s][i - 1].at
    <3>1. i - 1 \in DOMAIN stamps[s] /\ i - 1 < i
      BY <2>1, <2>5, LenProperties
    <3>2. PICK f, g : f = stamps[s][i - 1].frame /\ g = stamps[s][i].frame
      OBVIOUS
    <3>3. f.n < g.n /\ f \in offered[s] /\ g \in offered[s]
      BY <2>1, <2>2, <2>3, <3>1, <3>2 DEF StampsRise
    <3>4. f.frame < g.frame \/ IsFirst(s, f)
      BY <2>1, <3>3 DEF TimeInv
    <3>. QED  BY <2>1, <2>3, <3>1, <3>2, <3>4
  <2>. QED  BY <2>4, <2>5
<1>. QED  BY <1>1, TimesInvariant, PTL

-----------------------------------------------------------------------------
(* The mix.                                                                *)

Buses == Sound!Bus
Levels == {"silent", "low", "unity"}
Intents ==
  [kind : {"take"}, item : Items \cup {"none"}, n : Nat, mode : {"follow", "mute"},
   blocks : {1, 2}]
    \cup [kind : {"bus"}, bus : Buses, level : Levels]
    \cup [kind : {"mute"}, bus : Buses, muted : BOOLEAN]
    \cup [kind : {"duck"}, on : BOOLEAN]
    \cup [kind : {"play", "stop"}, sound : Sounds \cup {"none"}]
Exchange == [feed : Nat, level : Levels, blocks : {1, 2}]

MixTyped ==
  /\ onAir \in [item : Items \cup {"none"}, n : Nat] /\ takes \in Nat
  /\ intents \in Seq(Intents) /\ operator \in [Buses -> Levels]
  /\ sources \in [Buses -> Nat \cup {-1}] /\ exchanges \in [Buses -> Seq(Exchange)]

NoTake(q) == \A i \in DOMAIN q : q[i].kind # "take"
OneTake(q, item, n) ==
  \A i \in DOMAIN q : q[i].kind = "take" =>
    /\ q[i].item = item /\ q[i].n = n
    /\ \A j \in DOMAIN q : q[j].kind = "take" => j = i

Feed(b) == Sound!FeedOf(onAir.item, onAir.n, b)
Follows(b) == IF Feed(b) = 0 THEN sources[b] \in {0, -1} ELSE sources[b] = Feed(b)
Unwaited == \A b \in Buses : exchanges[b] = <<>>

\* One take at a time is under way: as a command, and then as the exchanges it
\* left waiting; where it is neither, its sound is on.
MixInv ==
  /\ MixTyped /\ OneTake(intents, onAir.item, onAir.n)
  /\ NoTake(intents) \/ Unwaited
  /\ \A b \in Buses : \A k \in DOMAIN exchanges[b] : exchanges[b][k].feed = Feed(b)
  /\ NoTake(intents) => \A b \in Buses : exchanges[b] # <<>> \/ Follows(b)

LEMMA Longer ==
  ASSUME NEW S, NEW q \in Seq(S), NEW e \in S
  PROVE  /\ Append(q, e) \in Seq(S) /\ Append(q, e) # <<>>
         /\ \E k \in Nat : /\ DOMAIN q = 1..k /\ DOMAIN Append(q, e) = 1..(k + 1)
                           /\ \A i \in 1..k : Append(q, e)[i] = q[i]
                           /\ Append(q, e)[k + 1] = e
<1>1. PICK k \in Nat : k = Len(q)
  BY LenProperties
<1>2. /\ Append(q, e) \in Seq(S) /\ Len(Append(q, e)) = k + 1
      /\ \A i \in 1..k : Append(q, e)[i] = q[i] /\ Append(q, e)[k + 1] = e
  BY <1>1, AppendProperties
<1>3. Append(q, e)[k + 1] = e /\ Append(q, e) # <<>>
  BY <1>1, AppendProperties
<1>. QED  BY <1>1, <1>2, <1>3, LenProperties

LEMMA Shorter ==
  ASSUME NEW S, NEW q \in Seq(S), q # <<>>
  PROVE  /\ Tail(q) \in Seq(S) /\ Head(q) \in S /\ Head(q) = q[1]
         /\ \E k \in Nat : /\ DOMAIN q = 1..(k + 1) /\ DOMAIN Tail(q) = 1..k
                           /\ \A i \in 1..k : Tail(q)[i] = q[i + 1]
<1>1. PICK k \in Nat : k + 1 = Len(q)
  <2>1. Len(q) \in Nat /\ Len(q) # 0
    BY LenProperties, EmptySeq
  <2>2. Len(q) - 1 \in Nat /\ (Len(q) - 1) + 1 = Len(q)
    BY <2>1
  <2>. QED  BY <2>2
<1>2. /\ Tail(q) \in Seq(S) /\ Head(q) \in S /\ Head(q) = q[1] /\ Len(Tail(q)) = Len(q) - 1
      /\ \A i \in 1..Len(Tail(q)) : Tail(q)[i] = q[i + 1]
  BY HeadTailProperties
<1>3. Len(Tail(q)) = k
  BY <1>1, <1>2
<1>. QED  BY <1>1, <1>2, <1>3, LenProperties

\* A command that is no take joins the queue.
LEMMA QueuesOther ==
  ASSUME NEW q \in Seq(Intents), NEW e \in Intents, e.kind # "take", NEW item, NEW n
  PROVE  /\ NoTake(Append(q, e)) <=> NoTake(q)
         /\ OneTake(q, item, n) => OneTake(Append(q, e), item, n)
<1>1. PICK k \in Nat : /\ DOMAIN q = 1..k /\ DOMAIN Append(q, e) = 1..(k + 1)
                       /\ \A i \in 1..k : Append(q, e)[i] = q[i]
                       /\ Append(q, e)[k + 1] = e
  BY Longer
<1>2. \A i : i \in 1..(k + 1) <=> i \in 1..k \/ i = k + 1
  OBVIOUS
<1>3. \A i \in 1..(k + 1) : Append(q, e)[i].kind = "take" =>
        i \in 1..k /\ Append(q, e)[i] = q[i]
  BY <1>1, <1>2
<1>4. NoTake(Append(q, e)) <=> NoTake(q)
  BY <1>1, <1>2, <1>3 DEF NoTake
<1>5. OneTake(q, item, n) => OneTake(Append(q, e), item, n)
  BY <1>1, <1>3 DEF OneTake
<1>. QED  BY <1>4, <1>5

LEMMA QueuesTake ==
  ASSUME NEW q \in Seq(Intents), NEW e \in Intents, e.kind = "take", NoTake(q)
  PROVE  OneTake(Append(q, e), e.item, e.n) /\ ~NoTake(Append(q, e))
<1>1. PICK k \in Nat : /\ DOMAIN q = 1..k /\ DOMAIN Append(q, e) = 1..(k + 1)
                       /\ \A i \in 1..k : Append(q, e)[i] = q[i]
                       /\ Append(q, e)[k + 1] = e
  BY Longer
<1>2. \A i : i \in 1..(k + 1) <=> i \in 1..k \/ i = k + 1
  OBVIOUS
<1>3. \A i \in 1..(k + 1) : Append(q, e)[i].kind = "take" => i = k + 1
  BY <1>1, <1>2 DEF NoTake
<1>. QED  BY <1>1, <1>2, <1>3 DEF NoTake, OneTake

LEMMA Unqueues ==
  ASSUME NEW q \in Seq(Intents), q # <<>>, NEW item, NEW n, OneTake(q, item, n)
  PROVE  /\ OneTake(Tail(q), item, n)
         /\ Head(q).kind = "take" => NoTake(Tail(q)) /\ Head(q).item = item /\ Head(q).n = n
                                     /\ ~NoTake(q)
         /\ Head(q).kind # "take" => (NoTake(Tail(q)) <=> NoTake(q))
<1>1. PICK k \in Nat : /\ DOMAIN q = 1..(k + 1) /\ DOMAIN Tail(q) = 1..k
                       /\ \A i \in 1..k : Tail(q)[i] = q[i + 1]
  BY Shorter
<1>2. Head(q) = q[1] /\ 1 \in 1..(k + 1)
  BY Shorter
<1>3. \A i \in 1..k : i + 1 \in 1..(k + 1) /\ i + 1 # 1
  OBVIOUS
<1>4. \A i \in 1..(k + 1) : i = 1 \/ \E j \in 1..k : i = j + 1
  <2>1. ASSUME NEW i \in 1..(k + 1), i # 1 PROVE i - 1 \in 1..k /\ i = (i - 1) + 1
    BY <2>1
  <2>. QED  BY <2>1
<1>5. OneTake(Tail(q), item, n)
  <2>1. ASSUME NEW i \in 1..k, Tail(q)[i].kind = "take"
        PROVE  /\ Tail(q)[i].item = item /\ Tail(q)[i].n = n
               /\ \A j \in 1..k : Tail(q)[j].kind = "take" => j = i
    <3>1. \A j \in 1..k : j + 1 = i + 1 => j = i
      OBVIOUS
    <3>. QED  BY <1>1, <1>3, <2>1, <3>1 DEF OneTake
  <2>. QED  BY <1>1, <2>1 DEF OneTake
<1>6. Head(q).kind = "take" => NoTake(Tail(q)) /\ Head(q).item = item /\ Head(q).n = n
                               /\ ~NoTake(q)
  BY <1>1, <1>2, <1>3 DEF OneTake, NoTake
<1>7. Head(q).kind # "take" => (NoTake(Tail(q)) <=> NoTake(q))
  <2>1. ASSUME NoTake(q), NEW i \in 1..k PROVE Tail(q)[i].kind # "take"
    <3>1. q[i + 1].kind # "take"
      BY <1>1, <1>3, <2>1 DEF NoTake
    <3>. QED  BY <1>1, <3>1, Zenon
  <2>2. ASSUME Head(q).kind # "take", NoTake(Tail(q)), NEW i \in 1..(k + 1)
        PROVE  q[i].kind # "take"
    <3>1. CASE i = 1
      BY <1>2, <2>2, <3>1, Zenon
    <3>2. ASSUME NEW j \in 1..k, i = j + 1 PROVE q[i].kind # "take"
      <4>1. Tail(q)[j].kind # "take"
        BY <1>1, <2>2, Zenon DEF NoTake
      <4>. QED  BY <1>1, <3>2, <4>1, Zenon
    <3>. QED  BY <1>4, <2>2, <3>1, <3>2, Zenon
  <2>. QED  BY <1>1, <2>1, <2>2, Zenon DEF NoTake
<1>. QED  BY <1>5, <1>6, <1>7

LEMMA MixBegins == ASSUME Sound!Init PROVE MixInv
<1>1. /\ onAir = [item |-> "none", n |-> 0] /\ takes = 0 /\ intents = <<>>
      /\ exchanges = [b \in Buses |-> <<>>] /\ operator = [b \in Buses |-> "unity"]
      /\ sources = [b \in Buses |-> -1]
  BY DEF Sound!Init, Sound!None, Sound!Unset, Buses
<1>2. MixTyped
  BY <1>1 DEF MixTyped, Levels
<1>3. ASSUME NEW b \in Buses PROVE Feed(b) = 0 /\ exchanges[b] = <<>> /\ sources[b] = -1
  BY <1>1 DEF Feed, Sound!FeedOf, Sound!Nothing
<1>4. OneTake(intents, onAir.item, onAir.n) /\ NoTake(intents)
  BY <1>1 DEF OneTake, NoTake
<1>. QED  BY <1>2, <1>3, <1>4 DEF MixInv, Follows

\* The commands but a take.
LEMMA OtherCommand ==
  ASSUME MixInv, NEW e \in Intents, e.kind # "take", intents' = Append(intents, e),
         UNCHANGED <<onAir, takes, operator, sources, exchanges>>
  PROVE  MixInv'
<1>1. MixTyped /\ intents \in Seq(Intents)
  BY DEF MixInv, MixTyped
<1>2. PICK q : q = Append(intents, e)
  OBVIOUS
<1>3. /\ q \in Seq(Intents) /\ (NoTake(q) <=> NoTake(intents))
      /\ OneTake(q, onAir.item, onAir.n)
  BY <1>1, <1>2, Longer, QueuesOther DEF MixInv
<1>4. MixTyped'
  BY <1>1, <1>2, <1>3 DEF MixTyped
<1>5. /\ OneTake(intents, onAir.item, onAir.n)' /\ (NoTake(intents)' <=> NoTake(intents))
  BY <1>2, <1>3 DEF OneTake, NoTake
<1>6. \A b : Feed(b)' = Feed(b) /\ Follows(b)' = Follows(b)
  BY DEF Feed, Follows, Sound!FeedOf
<1>. QED  BY <1>4, <1>5, <1>6 DEF MixInv, Unwaited

LEMMA TakeCommand ==
  ASSUME MixInv, Spaced, NEW item \in Items \cup {"none"}, NEW mode \in {"follow", "mute"},
         NEW blocks \in {1, 2}, Sound!Take(item, mode, blocks)
  PROVE  MixInv'
<1>1. PICK m \in Nat : m = takes + 1
  BY DEF MixInv, MixTyped
<1>2. PICK e \in Intents : e = [kind |-> "take", item |-> item, n |-> m, mode |-> mode,
                                blocks |-> blocks]
  BY DEF Intents
<1>3. /\ takes' = m /\ onAir' = [item |-> item, n |-> m] /\ intents' = Append(intents, e)
      /\ UNCHANGED <<operator, sources, exchanges>>
  BY <1>1, <1>2 DEF Sound!Take, Sound!Publish, Sound!TakeIntent, Sound!graphVars
<1>4. MixTyped /\ intents \in Seq(Intents)
  BY DEF MixInv, MixTyped
<1>5. NoTake(intents) /\ Unwaited
  BY DEF Sound!Take, Sound!Waits, NoTake, Unwaited, Buses, Sound!Bus
<1>6. PICK q : q = Append(intents, e) /\ q = intents'
  BY <1>3
<1>7. q \in Seq(Intents) /\ ~NoTake(q) /\ OneTake(q, item, m)
  <2>1. e.kind = "take" /\ e.item = item /\ e.n = m
    BY <1>2
  <2>2. intents \in Seq(Intents) /\ NoTake(intents) /\ e \in Intents
    BY <1>4, <1>5
  <2>3. Append(intents, e) \in Seq(Intents)
    BY <2>2, Longer, Zenon
  <2>4. /\ OneTake(Append(intents, e), e.item, e.n)
        /\ ~NoTake(Append(intents, e))
    BY <2>1, <2>2, QueuesTake, Zenon
  <2>. QED  BY <1>6, <2>1, <2>3, <2>4, Zenon
<1>8. MixTyped'
  BY <1>1, <1>3, <1>4, <1>6, <1>7 DEF MixTyped
<1>9. OneTake(intents, onAir.item, onAir.n)' /\ ~NoTake(intents)'
  BY <1>3, <1>6, <1>7 DEF OneTake, NoTake
<1>10. Unwaited'
  BY <1>3, <1>5 DEF Unwaited
<1>11. ASSUME NEW b \in Buses, NEW k \in DOMAIN exchanges'[b]
       PROVE  exchanges'[b][k].feed = Feed(b)'
  BY <1>10 DEF Unwaited
<1>. QED  BY <1>8, <1>9, <1>10, <1>11 DEF MixInv

\* The intents that leave the exchanges alone.
LEMMA OtherIntent ==
  ASSUME MixInv, intents # <<>>, Head(intents).kind # "take", intents' = Tail(intents),
         operator' \in [Buses -> Levels], UNCHANGED <<onAir, takes, sources, exchanges>>
  PROVE  MixInv'
<1>1. MixTyped /\ intents \in Seq(Intents)
  BY DEF MixInv, MixTyped
<1>2. PICK q : q = Tail(intents)
  OBVIOUS
<1>3. /\ q \in Seq(Intents) /\ (NoTake(q) <=> NoTake(intents))
      /\ OneTake(q, onAir.item, onAir.n)
  BY <1>1, <1>2, Shorter, Unqueues DEF MixInv
<1>4. MixTyped'
  BY <1>1, <1>2, <1>3 DEF MixTyped
<1>5. /\ OneTake(intents, onAir.item, onAir.n)' /\ (NoTake(intents)' <=> NoTake(intents))
  BY <1>2, <1>3 DEF OneTake, NoTake
<1>6. \A b : Feed(b)' = Feed(b) /\ Follows(b)' = Follows(b)
  BY DEF Feed, Follows, Sound!FeedOf
<1>. QED  BY <1>4, <1>5, <1>6 DEF MixInv, Unwaited

\* A bus takes part in a take and is exchanged, or is left waiting for it, or has
\* and gets nothing.
LEMMA TakeIntentKeeps == ASSUME MixInv, Sound!ApplyTake PROVE MixInv'
<1>1. MixTyped /\ intents \in Seq(Intents) /\ OneTake(intents, onAir.item, onAir.n)
  BY DEF MixInv, MixTyped
<1>2. PICK t, q : t = Head(intents) /\ q = Tail(intents)
  OBVIOUS
<1>3. /\ t.kind = "take" /\ intents # <<>> /\ intents' = q
      /\ UNCHANGED <<onAir, takes, operator>>
  BY <1>2 DEF Sound!ApplyTake, Sound!Taken, Sound!commandVars
<1>4. /\ q \in Seq(Intents) /\ t \in Intents /\ NoTake(q) /\ ~NoTake(intents)
      /\ t.item = onAir.item /\ t.n = onAir.n /\ OneTake(q, onAir.item, onAir.n)
  BY <1>1, <1>2, <1>3, Shorter, Unqueues
<1>5. t.mode \in {"follow", "mute"} /\ t.blocks \in {1, 2}
  BY <1>3, <1>4 DEF Intents
<1>6. \A b : Sound!FeedOf(t.item, t.n, b) = Feed(b)
  BY <1>4 DEF Feed
<1>7. Unwaited
  BY <1>4 DEF MixInv
<1>8. ASSUME NEW b \in Buses
      PROVE  /\ Feed(b) \in Nat /\ Feed(b)' = Feed(b)
             /\ \/ /\ sources'[b] = Feed(b) /\ exchanges'[b] = <<>>
                \/ /\ sources'[b] = sources[b]
                   /\ \E x \in Exchange : x.feed = Feed(b) /\ exchanges'[b] = Append(<<>>, x)
                \/ /\ sources'[b] = sources[b] /\ exchanges'[b] = <<>>
                   /\ Feed(b) = 0 /\ ~(sources[b] > 0)
  <2>1. Feed(b) \in Nat /\ Feed(b)' = Feed(b)
    BY <1>1, <1>3 DEF Feed, Sound!FeedOf, Sound!Nothing, MixTyped
  <2>2. PICK x : x = [feed |-> Feed(b), level |-> Sound!TakeLevel(b, t.mode),
                      blocks |-> t.blocks]
    OBVIOUS
  <2>3. x \in Exchange /\ x.feed = Feed(b)
    <3>1. Sound!TakeLevel(b, t.mode) \in Levels
      BY <1>1 DEF Sound!TakeLevel, Levels, MixTyped
    <3>. QED  BY <1>5, <2>1, <2>2, <3>1 DEF Exchange
  <2>4. exchanges[b] = <<>>
    BY <1>7 DEF Unwaited
  <2>5. PICK taking, now :
          /\ taking = {c \in Buses : Sound!TakesPart(c, Sound!FeedOf(t.item, t.n, c))}
          /\ now = {c \in taking : Sound!IsZero(gain[c])}
    OBVIOUS
  <2>6. /\ sources'[b] = IF b \in now THEN Feed(b) ELSE sources[b]
        /\ exchanges'[b] = IF b \in taking \ now THEN Append(<<>>, x) ELSE <<>>
    BY <1>2, <1>6, <2>2, <2>4, <2>5 DEF Sound!ApplyTake, Buses
  <2>7. b \notin taking => Feed(b) = 0 /\ ~(sources[b] > 0)
    BY <1>6, <2>5 DEF Sound!TakesPart, Sound!HasSources, Sound!Nothing
  <2>. QED  BY <2>1, <2>3, <2>6, <2>7
<1>9. MixTyped'
  <2>1. sources' \in [Buses -> Nat \cup {-1}]
    <3>1. ASSUME NEW b \in Buses PROVE sources'[b] \in Nat \cup {-1}
      BY <1>1, <1>8 DEF MixTyped
    <3>2. sources' = [b \in Buses |-> sources'[b]]
      BY DEF Sound!ApplyTake, Buses
    <3>. QED  BY <3>1, <3>2
  <2>2. exchanges' \in [Buses -> Seq(Exchange)]
    <3>1. ASSUME NEW b \in Buses PROVE exchanges'[b] \in Seq(Exchange)
      <4>1. <<>> \in Seq(Exchange) /\ \A x \in Exchange : Append(<<>>, x) \in Seq(Exchange)
        BY Longer
      <4>. QED  BY <1>8, <4>1
    <3>2. exchanges' = [b \in Buses |-> exchanges'[b]]
      BY DEF Sound!ApplyTake, Buses
    <3>. QED  BY <3>1, <3>2
  <2>. QED  BY <1>1, <1>3, <1>4, <2>1, <2>2 DEF MixTyped
<1>10. OneTake(intents, onAir.item, onAir.n)' /\ NoTake(intents)'
  BY <1>3, <1>4 DEF OneTake, NoTake
<1>11. ASSUME NEW b \in Buses
       PROVE  /\ \A k \in DOMAIN exchanges'[b] : exchanges'[b][k].feed = Feed(b)'
              /\ exchanges'[b] # <<>> \/ Follows(b)'
  <2>1. CASE sources'[b] = Feed(b) /\ exchanges'[b] = <<>>
    BY <1>8, <2>1 DEF Follows
  <2>2. ASSUME NEW x \in Exchange, x.feed = Feed(b), exchanges'[b] = Append(<<>>, x)
        PROVE  /\ \A k \in DOMAIN exchanges'[b] : exchanges'[b][k].feed = Feed(b)
               /\ exchanges'[b] # <<>>
    <3>1. exchanges'[b] = <<x>>
      BY <2>2
    <3>. QED  BY <2>2, <3>1
  <2>3. CASE sources'[b] = sources[b] /\ exchanges'[b] = <<>> /\ Feed(b) = 0
             /\ ~(sources[b] > 0)
    <3>1. sources[b] \in {0, -1}
      BY <1>1, <2>3 DEF MixTyped
    <3>. QED  BY <1>8, <2>3, <3>1 DEF Follows
  <2>. QED  BY <1>8, <2>1, <2>2, <2>3
<1>. QED  BY <1>9, <1>10, <1>11 DEF MixInv

\* An exchange that is made is the last take's.
LEMMA RenderKeeps == ASSUME MixInv, Sound!Render PROVE MixInv'
<1>1. MixTyped /\ UNCHANGED <<onAir, takes, intents, operator>>
  BY DEF MixInv, Sound!Render, Sound!commandVars
<1>2. ASSUME NEW b \in Buses
      PROVE  /\ Feed(b) \in Nat /\ Feed(b)' = Feed(b)
             /\ \/ sources'[b] = Feed(b) /\ exchanges'[b] = <<>>
                \/ sources'[b] = sources[b] /\ exchanges'[b] = exchanges[b]
  <2>1. Feed(b) \in Nat /\ Feed(b)' = Feed(b)
    BY <1>1 DEF Feed, Sound!FeedOf, Sound!Nothing, MixTyped
  <2>2. CASE Sound!Ready(b)
    <3>1. exchanges[b] # <<>> /\ exchanges[b] \in Seq(Exchange)
      BY <1>1, <2>2 DEF Sound!Ready, MixTyped
    <3>2. Len(exchanges[b]) \in DOMAIN exchanges[b]
      <4>1. Len(exchanges[b]) \in Nat /\ Len(exchanges[b]) # 0
        BY <3>1, LenProperties, EmptySeq
      <4>2. DOMAIN exchanges[b] = 1..Len(exchanges[b])
        BY <3>1, LenProperties
      <4>. QED  BY <4>1, <4>2
    <3>3. Sound!Due(b).feed = Feed(b)
      BY <3>2 DEF Sound!Due, Sound!Last, MixInv
    <3>. QED  BY <2>1, <2>2, <3>3 DEF Sound!Render, Buses
  <2>3. CASE ~Sound!Ready(b)
    BY <2>1, <2>3 DEF Sound!Render, Buses
  <2>. QED  BY <2>2, <2>3
<1>3. MixTyped'
  <2>1. sources' \in [Buses -> Nat \cup {-1}]
    <3>1. ASSUME NEW b \in Buses PROVE sources'[b] \in Nat \cup {-1}
      BY <1>1, <1>2 DEF MixTyped
    <3>2. sources' = [b \in Buses |-> sources'[b]]
      BY DEF Sound!Render, Buses
    <3>. QED  BY <3>1, <3>2
  <2>2. exchanges' \in [Buses -> Seq(Exchange)]
    <3>1. ASSUME NEW b \in Buses PROVE exchanges'[b] \in Seq(Exchange)
      <4>1. <<>> \in Seq(Exchange)
        OBVIOUS
      <4>. QED  BY <1>1, <1>2, <4>1 DEF MixTyped
    <3>2. exchanges' = [b \in Buses |-> exchanges'[b]]
      BY DEF Sound!Render, Buses
    <3>. QED  BY <3>1, <3>2
  <2>. QED  BY <1>1, <2>1, <2>2 DEF MixTyped
<1>4. /\ OneTake(intents, onAir.item, onAir.n)' = OneTake(intents, onAir.item, onAir.n)
      /\ NoTake(intents)' = NoTake(intents)
  BY <1>1 DEF OneTake, NoTake
<1>5. Unwaited => Unwaited'
  BY <1>2 DEF Unwaited
<1>6. \A b \in Buses : \A k \in DOMAIN exchanges'[b] : exchanges'[b][k].feed = Feed(b)'
  BY <1>2 DEF MixInv
<1>7. ASSUME NEW b \in Buses, exchanges[b] # <<>> \/ Follows(b)
      PROVE  exchanges'[b] # <<>> \/ Follows(b)'
  BY <1>2, <1>7 DEF Follows
<1>. QED  BY <1>3, <1>4, <1>5, <1>6, <1>7 DEF MixInv

LEMMA MixStep == ASSUME MixInv, Spaced, Sound!Next PROVE MixInv'
<1>1. ASSUME NEW item \in Items, NEW mode \in {"follow", "mute"}, NEW blocks \in {1, 2},
             Sound!Take(item, mode, blocks)
      PROVE  MixInv'
  BY <1>1, TakeCommand
<1>2. CASE Sound!ClearView
  BY <1>2, TakeCommand DEF Sound!ClearView, Sound!None
<1>3. ASSUME NEW b \in Sound!Bus, NEW level \in Sound!Level, Sound!Fader(b, level)
      PROVE  MixInv'
  <2>1. PICK e \in Intents : e.kind # "take" /\ intents' = Append(intents, e)
    <3>1. [kind |-> "bus", bus |-> b, level |-> level] \in Intents
      BY DEF Intents, Buses, Levels, Sound!Level
    <3>. QED  BY <1>3, <3>1 DEF Sound!Fader, Sound!Publish, Sound!BusIntent
  <2>. QED  BY <1>3, <2>1, OtherCommand DEF Sound!Fader, Sound!graphVars
<1>4. CASE Sound!Switch
  <2>1. PICK on \in BOOLEAN : \/ \E b \in Sound!Bus : Sound!Publish(Sound!MuteIntent(b, on))
                              \/ Sound!Publish(Sound!DuckIntent(on))
    BY <1>4 DEF Sound!Switch
  <2>2. PICK e \in Intents : e.kind # "take" /\ intents' = Append(intents, e)
    <3>1. [kind |-> "duck", on |-> on] \in Intents
      BY DEF Intents
    <3>2. \A b \in Sound!Bus : [kind |-> "mute", bus |-> b, muted |-> on] \in Intents
      BY DEF Intents, Buses
    <3>. QED  BY <2>1, <3>1, <3>2 DEF Sound!Publish, Sound!MuteIntent, Sound!DuckIntent
  <2>. QED  BY <1>4, <2>2, OtherCommand DEF Sound!Switch, Sound!graphVars
<1>5. CASE Sound!Soundboard
  <2>1. PICK e \in Intents : e.kind # "take" /\ intents' = Append(intents, e)
    <3>1. \A s \in Sounds \cup {"none"} : /\ [kind |-> "play", sound |-> s] \in Intents
                                          /\ [kind |-> "stop", sound |-> s] \in Intents
      BY DEF Intents
    <3>. QED  BY <1>5, <3>1 DEF Sound!Soundboard, Sound!Publish, Sound!PlayIntent,
                                Sound!StopIntent, Sound!None
  <2>. QED  BY <1>5, <2>1, OtherCommand DEF Sound!Soundboard, Sound!graphVars
<1>6. CASE Sound!ApplyTake
  BY <1>6, TakeIntentKeeps
<1>7. CASE Sound!ApplyFader
  <2>1. Head(intents) \in Intents /\ Head(intents).kind = "bus" /\ MixTyped
    BY <1>7, Shorter DEF Sound!ApplyFader, Sound!Taken, MixInv, MixTyped
  <2>2. Head(intents).level \in Levels
    BY <2>1 DEF Intents
  <2>3. operator' \in [Buses -> Levels]
    BY <1>7, <2>1, <2>2 DEF Sound!ApplyFader, MixTyped
  <2>. QED  BY <1>7, <2>3, OtherIntent DEF Sound!ApplyFader, Sound!Taken, Sound!commandVars
<1>8. CASE Sound!ApplyMute \/ Sound!ApplyDuck \/ Sound!ApplyPlay \/ Sound!ApplyStop
  <2>1. operator' \in [Buses -> Levels]
    BY <1>8 DEF Sound!ApplyMute, Sound!ApplyDuck, Sound!ApplyPlay, Sound!ApplyStop, MixInv,
                MixTyped
  <2>. QED  BY <1>8, <2>1, OtherIntent
       DEF Sound!ApplyMute, Sound!ApplyDuck, Sound!ApplyPlay, Sound!ApplyStop, Sound!Taken,
           Sound!commandVars
<1>9. CASE Sound!Render
  BY <1>9, RenderKeeps
<1>. QED
  BY <1>1, <1>2, <1>3, <1>4, <1>5, <1>6, <1>7, <1>8, <1>9
  DEF Sound!Next, Sound!Driver, Sound!Applies

\* The inductive invariant of the mix, with takes no closer than the exchanges
\* they leave waiting.
THEOREM MixInvariant == ASSUME Spaced PROVE MCSpec => []MixInv
<1>1. MCInit => MixInv
  BY MixBegins DEF MCInit
<1>2. MixInv /\ [MCNext]_<<part, vars, streamVars, readerVars, soundVars>> => MixInv'
  <2>. SUFFICES ASSUME MixInv, [MCNext]_<<part, vars, streamVars, readerVars, soundVars>>
                PROVE  MixInv'
    OBVIOUS
  <2>1. CASE Sound!Next
    BY <2>1, MixStep
  <2>2. CASE UNCHANGED soundVars
    <3>1. UNCHANGED <<onAir, takes, intents, operator, sources, exchanges>>
      BY <2>2 DEF soundVars
    <3>. QED  BY <3>1 DEF MixInv, MixTyped, OneTake, NoTake, Unwaited, Feed, Follows,
                          Sound!FeedOf
  <2>. QED  BY <2>1, <2>2 DEF MCNext
<1>. QED  BY <1>1, <1>2, PTL DEF MCSpec

\* audio_control.rs, apply: while takes wait for the exchange before them, what
\* is heard once its commands have been applied is what the last take feeds, for
\* any items, feeds and commands between.
THEOREM SoundIsThePictures == ASSUME Spaced PROVE MCSpec => []SoundFollowsPicture
<1>1. MixInv => SoundFollowsPicture
  <2>. SUFFICES ASSUME MixInv, Sound!AtRest, NEW b \in Buses
                PROVE  IF Feed(b) = 0 THEN sources[b] \in {0, -1} ELSE sources[b] = Feed(b)
    BY DEF SoundFollowsPicture, Sound!SoundFollowsPicture, Sound!Nothing, Sound!Unset, Feed,
           Buses
  <2>1. NoTake(intents) /\ exchanges[b] = <<>>
    BY DEF Sound!AtRest, NoTake, Buses
  <2>. QED  BY <2>1 DEF MixInv, Follows
<1>. QED  BY <1>1, MixInvariant, PTL

-----------------------------------------------------------------------------
(* The reader.                                                             *)

Messages == Reader!Plain \cup Reader!SetSize \cup {Reader!Nothing.message}
Begun == [id : Nat, message : Messages, ext : BOOLEAN, left : Nat]
Heard == [message : Messages, body : Seq(Nat)]

ReaderTyped ==
  /\ peer \in [size : Nat \ {0},
               chunk : [csid : Csid \cup {0}, ext : BOOLEAN, left : Nat]]
  /\ open \in [Csid -> Begun] /\ last \in [Csid -> Begun] /\ begun \in Nat
  /\ partial \in [Csid -> [length : Nat, body : Seq(Nat)]] /\ inSize \in Nat \ {0}
  /\ sent \in Seq(Nat) /\ delivered \in Seq(Heard)
  /\ stage \in {"connect", "create", "publish", "live", "failed"}

Bytes(n, id) == [k \in 1..n |-> id]

\* The chunk under way is Here's; what has left of a message, its length, and
\* what the reader should hold of it between its chunks.
Here == peer.chunk.csid
Extent(c) == Reader!Length(open[c].message)
Gone(c) == Extent(c) - open[c].left
Kept(c) ==
  partial[c] = IF open[c].left = 0 \/ Gone(c) = 0 THEN Reader!NoPartial
               ELSE [length |-> Extent(c), body |-> Bytes(Gone(c), open[c].id)]

\* Its last full header is that of the message under way.
Named(c) ==
  last[c].id = open[c].id /\ last[c].message = open[c].message /\ last[c].ext = open[c].ext
Measured(c) == partial[c].length \in {0, Extent(c)}
Sane(c) == open[c].left <= Extent(c) /\ (open[c].left > 0 => open[c].id # 0)

InStep == Len(delivered) = Len(sent) /\ inSize = peer.size

\* The byte that ended a message is still on its way.
Ended ==
  IF open[Here].message.name = "size"
  THEN peer.size = open[Here].message.size /\ Len(delivered) = Len(sent)
  ELSE /\ inSize = peer.size /\ Len(sent) = Len(delivered) + 1
       /\ sent[Len(sent)] = open[Here].id

ChunkAhead ==
  /\ Here \in Csid /\ open[Here].left > 0
  /\ peer.chunk.left = Reader!Min({open[Here].left, peer.size})

\* Where peer and reader are: between chunks, at a header, at its extension, and
\* at a byte that is not sent yet or not read yet.
BetweenChunks ==
  /\ wire = <<>> /\ reader = Reader!AtHead /\ ~peer.chunk.ext /\ peer.chunk.left = 0
  /\ InStep /\ \A c \in Csid : Kept(c) /\ Named(c)
HeaderComes ==
  /\ ChunkAhead /\ InStep /\ reader = Reader!AtHead /\ peer.chunk.ext = open[Here].ext
  /\ \A c \in Csid : Kept(c) /\ (c = Here \/ Named(c))
  /\ \/ wire = <<[field |-> "header", csid |-> Here, fmt |-> 0, of |-> open[Here]]>>
     \/ /\ wire = <<[field |-> "header", csid |-> Here, fmt |-> 3, of |-> Reader!Nothing]>>
        /\ Named(Here)
ExtensionDue ==
  /\ ChunkAhead /\ InStep
  /\ reader.at = "extended" /\ reader.csid = Here
  /\ peer.chunk.ext <=> wire = <<>>
  /\ \A c \in Csid : Kept(c) /\ Named(c)
ByteDue ==
  /\ Here \in Csid /\ ~peer.chunk.ext /\ peer.chunk.left > 0 /\ InStep /\ wire = <<>>
  /\ peer.chunk.left <= open[Here].left
  /\ reader = [at |-> "body", csid |-> Here, left |-> peer.chunk.left,
               body |-> Bytes(Gone(Here), open[Here].id)]
  /\ Measured(Here) /\ \A c \in Csid : Named(c) /\ (c = Here \/ Kept(c))
ByteComes ==
  /\ Here \in Csid /\ ~peer.chunk.ext /\ wire # <<>>
  /\ wire[1].of.id = open[Here].id
  /\ peer.chunk.left <= open[Here].left /\ open[Here].left < Extent(Here)
  /\ reader = [at |-> "body", csid |-> Here, left |-> peer.chunk.left + 1,
               body |-> Bytes(Gone(Here) - 1, open[Here].id)]
  /\ Measured(Here) /\ \A c \in Csid : Named(c) /\ (c = Here \/ Kept(c))
  /\ IF open[Here].left = 0 THEN Ended ELSE InStep

InOrder ==
  \A i \in DOMAIN delivered :
    /\ i <= Len(sent)
    /\ delivered[i].body = Bytes(Reader!Length(delivered[i].message), sent[i])

ReaderInv ==
  /\ ReaderTyped /\ InOrder /\ \A c \in Csid : Sane(c)
  /\ BetweenChunks \/ HeaderComes \/ ExtensionDue \/ ByteDue \/ ByteComes
  /\ stage = "failed" => wire = <<>>

LEMMA Extents == \A m \in Messages : Reader!Length(m) \in Nat \ {0}
BY ReaderConstants DEF Reader!ChunkReaderConstants, Reader!Length

LEMMA Smaller ==
  ASSUME NEW a \in Nat \ {0}, NEW b \in Nat \ {0}
  PROVE  Reader!Min({a, b}) \in Nat \ {0} /\ Reader!Min({a, b}) <= a
<1>1. CASE a <= b
  <2>1. \E x \in {a, b} : \A y \in {a, b} : x =< y
    BY <1>1
  <2>. QED  BY <2>1 DEF Reader!Min
<1>2. CASE b <= a
  <2>1. \E x \in {a, b} : \A y \in {a, b} : x =< y
    BY <1>2
  <2>. QED  BY <2>1 DEF Reader!Min
<1>. QED  BY <1>1, <1>2

LEMMA BytesAre ==
  ASSUME NEW n \in Nat, NEW id \in Nat
  PROVE  /\ Bytes(n, id) \in Seq(Nat) /\ Len(Bytes(n, id)) = n
         /\ Append(Bytes(n, id), id) = Bytes(n + 1, id)
<1>1. Bytes(n, id) \in Seq(Nat) /\ Len(Bytes(n, id)) = n
  BY DEF Bytes
<1>2. PICK q : q = Append(Bytes(n, id), id)
  OBVIOUS
<1>3. /\ q \in Seq(Nat) /\ Len(q) = n + 1 /\ q[n + 1] = id
      /\ \A k \in 1..n : q[k] = Bytes(n, id)[k]
  BY <1>1, <1>2, AppendProperties
<1>4. \A k \in 1..(n + 1) : q[k] = id
  BY <1>3 DEF Bytes
<1>5. q = [k \in 1..(n + 1) |-> q[k]]
  BY <1>3
<1>. QED  BY <1>1, <1>2, <1>4, <1>5 DEF Bytes

LEMMA NoBytes == \A id : Bytes(0, id) = <<>>
BY DEF Bytes

\* What the fields of a message come to, given their types.
LEMMA Fields ==
  ASSUME ReaderTyped, NEW c \in Csid, Sane(c)
  PROVE  /\ open[c] \in Begun /\ open[c].id \in Nat /\ open[c].left \in Nat
         /\ open[c].message \in Messages /\ open[c].ext \in BOOLEAN
         /\ Extent(c) \in Nat \ {0} /\ Gone(c) \in Nat
         /\ (Gone(c) = Extent(c) <=> open[c].left = 0) /\ Gone(c) <= Extent(c)
         /\ Extent(c) - Gone(c) = open[c].left
<1>1. /\ open[c] \in Begun /\ open[c].id \in Nat /\ open[c].left \in Nat
      /\ open[c].message \in Messages /\ open[c].ext \in BOOLEAN
  BY DEF ReaderTyped, Begun
<1>2. Extent(c) \in Nat \ {0}
  BY <1>1, Extents DEF Extent
<1>. QED  BY <1>1, <1>2 DEF Gone, Sane

LEMMA ReaderBegins == ASSUME Reader!Init PROVE ReaderInv
<1>1. /\ peer = [size |-> DefaultSize, chunk |-> [csid |-> 0, ext |-> FALSE, left |-> 0]]
      /\ open = [c \in Csid |-> Reader!Nothing] /\ last = open
      /\ sent = <<>> /\ begun = 0 /\ wire = <<>> /\ reader = Reader!AtHead
      /\ partial = [c \in Csid |-> Reader!NoPartial] /\ inSize = DefaultSize
      /\ delivered = <<>> /\ stage = "connect"
  BY DEF Reader!Init, Reader!NoChunk
<1>2. DefaultSize \in Nat \ {0}
  BY ReaderConstants DEF Reader!ChunkReaderConstants
<1>3. Reader!Nothing \in Begun /\ Reader!Nothing.left = 0
  BY DEF Reader!Nothing, Begun, Messages
<1>4. ReaderTyped
  BY <1>1, <1>2, <1>3 DEF ReaderTyped, Reader!NoPartial
<1>5. ASSUME NEW c \in Csid PROVE Sane(c) /\ Kept(c) /\ Named(c)
  <2>1. open[c].left = 0 /\ open[c] \in Begun
    BY <1>1, <1>3
  <2>2. Extent(c) \in Nat
    BY <2>1, Extents DEF Extent, Begun
  <2>. QED  BY <1>1, <2>1, <2>2 DEF Sane, Kept, Named
<1>6. BetweenChunks
  BY <1>1, <1>5 DEF BetweenChunks, InStep
<1>7. InOrder
  BY <1>1 DEF InOrder
<1>. QED  BY <1>1, <1>4, <1>5, <1>6, <1>7 DEF ReaderInv

\* A message begins where the last one on its chunk stream is read.
LEMMA BeginsKeeps ==
  ASSUME ReaderInv, NEW c \in Csid, NEW m \in Reader!Plain \cup Reader!SetSize,
         NEW ext \in BOOLEAN, Reader!PeerBegins(c, m, ext)
  PROVE  ReaderInv'
<1>1. /\ wire = <<>> /\ ~peer.chunk.ext /\ peer.chunk.left = 0 /\ open[c].left = 0
      /\ stage # "failed"
      /\ UNCHANGED <<sent, reader, last, partial, inSize, delivered, stage>>
  BY DEF Reader!PeerBegins, Reader!Quiet, Reader!ChunkDone, Reader!readerVars, Reader!Over
<1>2. ReaderTyped /\ InOrder /\ \A d \in Csid : Sane(d)
  BY DEF ReaderInv
<1>3. BetweenChunks
  BY <1>1 DEF ReaderInv, HeaderComes, ExtensionDue, ByteDue, ByteComes
<1>4. m \in Messages /\ Reader!Length(m) \in Nat \ {0}
  BY Extents DEF Messages
<1>5. PICK o : o = [id |-> begun + 1, message |-> m, ext |-> ext, left |-> Reader!Length(m)]
  OBVIOUS
<1>6. begun \in Nat /\ o \in Begun
  BY <1>2, <1>4, <1>5 DEF ReaderTyped, Begun
<1>7. /\ begun' = begun + 1 /\ open' = [open EXCEPT ![c] = o]
      /\ wire' = <<[field |-> "header", csid |-> c, fmt |-> 0, of |-> open'[c]]>>
  BY <1>5 DEF Reader!PeerBegins
<1>8. PICK left : left = Reader!Min({Reader!Length(m), peer.size})
  OBVIOUS
<1>9. peer.size \in Nat \ {0} /\ left \in Nat \ {0}
  BY <1>2, <1>4, <1>8, Smaller DEF ReaderTyped
<1>10. peer' = [size |-> peer.size, chunk |-> [csid |-> c, ext |-> ext, left |-> left]]
  <2>1. peer' = [peer EXCEPT !.chunk = [csid |-> c, ext |-> ext, left |-> left]]
    BY <1>8 DEF Reader!PeerBegins
  <2>. QED  BY <1>2, <2>1 DEF ReaderTyped
<1>11. ReaderTyped'
  BY <1>1, <1>2, <1>6, <1>7, <1>9, <1>10 DEF ReaderTyped
<1>12. /\ open'[c] = o /\ \A d \in Csid : d # c => open'[d] = open[d]
  BY <1>2, <1>7 DEF ReaderTyped
<1>13. Sane(c)' /\ Kept(c)' /\ ~(o.left = 0)
  <2>1. Extent(c)' = o.left /\ Gone(c)' = 0 /\ o.left \in Nat \ {0} /\ o.id # 0
    BY <1>4, <1>5, <1>6, <1>12 DEF Extent, Gone
  <2>2. partial[c] = Reader!NoPartial
    BY <1>1, <1>3 DEF BetweenChunks, Kept
  <2>. QED  BY <1>1, <1>12, <2>1, <2>2 DEF Sane, Kept, Reader!NoPartial
<1>14. ASSUME NEW d \in Csid, d # c PROVE Sane(d)' /\ Kept(d)' /\ Named(d)'
  BY <1>1, <1>2, <1>3, <1>12, <1>14 DEF BetweenChunks, Sane, Kept, Named, Extent, Gone
<1>15. Here' = c
  BY <1>10 DEF Here
<1>16. HeaderComes'
  <2>1. ChunkAhead'
    BY <1>4, <1>5, <1>8, <1>9, <1>10, <1>12, <1>13, <1>15 DEF ChunkAhead
  <2>2. InStep' /\ reader' = Reader!AtHead
    BY <1>1, <1>3, <1>10 DEF BetweenChunks, InStep
  <2>3. peer'.chunk.ext = open'[Here'].ext
    BY <1>5, <1>10, <1>12, <1>15
  <2>4. wire' = <<[field |-> "header", csid |-> Here', fmt |-> 0, of |-> open'[Here']]>>
    BY <1>7, <1>15
  <2>. QED  BY <1>13, <1>14, <1>15, <2>1, <2>2, <2>3, <2>4 DEF HeaderComes
<1>17. InOrder'
  BY <1>1, <1>2 DEF InOrder
<1>. QED  BY <1>1, <1>11, <1>13, <1>14, <1>16, <1>17 DEF ReaderInv

\* Nothing that peer and reader hold of any message has changed.
Settled == UNCHANGED <<open, sent, begun, last, partial, inSize, delivered, stage, peer.size>>

LEMMA SettledKeeps ==
  ASSUME ReaderTyped, InOrder, \A c \in Csid : Sane(c), Settled
  PROVE  /\ InOrder' /\ (InStep <=> InStep')
         /\ \A c : /\ (Sane(c)' <=> Sane(c)) /\ (Kept(c)' <=> Kept(c))
                   /\ (Named(c)' <=> Named(c)) /\ (Measured(c)' <=> Measured(c))
                   /\ Extent(c)' = Extent(c) /\ Gone(c)' = Gone(c)
<1>1. InOrder' /\ (InStep <=> InStep')
  BY DEF Settled, InOrder, InStep
<1>2. \A c : Extent(c)' = Extent(c) /\ Gone(c)' = Gone(c)
  BY DEF Settled, Extent, Gone
<1>3. \A c : /\ (Sane(c)' <=> Sane(c)) /\ (Kept(c)' <=> Kept(c))
             /\ (Named(c)' <=> Named(c)) /\ (Measured(c)' <=> Measured(c))
  BY <1>2 DEF Settled, Sane, Kept, Named, Measured
<1>. QED  BY <1>1, <1>2, <1>3

LEMMA ContinuesKeeps ==
  ASSUME ReaderInv, NEW c \in Csid, Reader!PeerContinues(c)
  PROVE  ReaderInv'
<1>1. /\ wire = <<>> /\ ~peer.chunk.ext /\ peer.chunk.left = 0 /\ open[c].left > 0
      /\ wire' = <<[field |-> "header", csid |-> c, fmt |-> 3, of |-> Reader!Nothing]>>
      /\ UNCHANGED <<open, sent, begun, reader, last, partial, inSize, delivered, stage>>
      /\ stage # "failed"
  BY DEF Reader!PeerContinues, Reader!Quiet, Reader!ChunkDone, Reader!readerVars, Reader!Over
<1>2. ReaderTyped /\ InOrder /\ \A d \in Csid : Sane(d)
  BY DEF ReaderInv
<1>3. BetweenChunks
  BY <1>1 DEF ReaderInv, HeaderComes, ExtensionDue, ByteDue, ByteComes
<1>4. PICK left, ext : left = Reader!Min({open[c].left, peer.size}) /\ ext = open[c].ext
  OBVIOUS
<1>5. peer.size \in Nat \ {0} /\ left \in Nat \ {0} /\ ext \in BOOLEAN
  <2>1. open[c].left \in Nat \ {0} /\ peer.size \in Nat \ {0} /\ open[c].ext \in BOOLEAN
    BY <1>1, <1>2, Fields DEF ReaderTyped
  <2>. QED  BY <1>4, <2>1, Smaller
<1>6. peer' = [size |-> peer.size, chunk |-> [csid |-> c, ext |-> ext, left |-> left]]
  <2>1. peer' = [peer EXCEPT !.chunk = [csid |-> c, ext |-> ext, left |-> left]]
    BY <1>4 DEF Reader!PeerContinues
  <2>. QED  BY <1>2, <2>1 DEF ReaderTyped
<1>7. ReaderTyped'
  BY <1>1, <1>2, <1>5, <1>6 DEF ReaderTyped
<1>8. Settled /\ Here' = c
  BY <1>1, <1>6 DEF Settled, Here
<1>9. HeaderComes'
  <2>1. ChunkAhead'
    BY <1>1, <1>4, <1>6, <1>8 DEF ChunkAhead
  <2>2. InStep' /\ reader' = Reader!AtHead
    BY <1>1, <1>2, <1>3, <1>8, SettledKeeps DEF BetweenChunks
  <2>3. peer'.chunk.ext = open'[Here'].ext
    BY <1>1, <1>4, <1>6, <1>8
  <2>4. \A d \in Csid : Kept(d)' /\ Named(d)'
    BY <1>2, <1>3, <1>8, SettledKeeps DEF BetweenChunks
  <2>5. wire' = <<[field |-> "header", csid |-> Here', fmt |-> 3, of |-> Reader!Nothing]>>
    BY <1>1, <1>8
  <2>6. Named(Here)'
    BY <1>8, <2>4 DEF Named
  <2>. QED  BY <2>1, <2>2, <2>3, <2>4, <2>5, <2>6 DEF HeaderComes
<1>. QED  BY <1>1, <1>2, <1>7, <1>8, <1>9, SettledKeeps DEF ReaderInv

LEMMA ExtendsKeeps == ASSUME ReaderInv, Reader!PeerExtends PROVE ReaderInv'
<1>1. /\ wire = <<>> /\ peer.chunk.ext /\ stage # "failed" /\ wire' # <<>>
      /\ UNCHANGED <<open, sent, begun, reader, last, partial, inSize, delivered, stage>>
  BY DEF Reader!PeerExtends, Reader!Quiet, Reader!readerVars, Reader!Over
<1>2. ReaderTyped /\ InOrder /\ \A d \in Csid : Sane(d)
  BY DEF ReaderInv
<1>3. ExtensionDue
  BY <1>1 DEF ReaderInv, BetweenChunks, HeaderComes, ByteDue, ByteComes
<1>4. peer' = [size |-> peer.size, chunk |-> [csid |-> Here, ext |-> FALSE,
                                             left |-> peer.chunk.left]]
  <2>1. peer' = [peer EXCEPT !.chunk.ext = FALSE]
    BY DEF Reader!PeerExtends
  <2>. QED  BY <1>2, <2>1 DEF ReaderTyped, Here
<1>5. ReaderTyped'
  BY <1>1, <1>2, <1>4 DEF ReaderTyped, Here
<1>6. Settled /\ Here' = Here /\ peer'.chunk.left = peer.chunk.left /\ peer'.size = peer.size
  BY <1>1, <1>4 DEF Settled, Here
<1>7. ExtensionDue'
  <2>1. ChunkAhead'
    BY <1>1, <1>3, <1>6 DEF ExtensionDue, ChunkAhead
  <2>2. InStep' /\ \A c \in Csid : Kept(c)' /\ Named(c)'
    BY <1>2, <1>3, <1>6, SettledKeeps DEF ExtensionDue
  <2>3. reader'.at = "extended" /\ reader'.csid = Here' /\ ~peer'.chunk.ext
    BY <1>1, <1>3, <1>4, <1>6 DEF ExtensionDue
  <2>. QED  BY <1>1, <2>1, <2>2, <2>3 DEF ExtensionDue
<1>. QED  BY <1>1, <1>2, <1>5, <1>6, <1>7, SettledKeeps DEF ReaderInv

\* A byte leaves the peer: the chunk's and the message's count go down together.
LEMMA FillsKeeps == ASSUME ReaderInv, Reader!PeerFills PROVE ReaderInv'
<1>1. /\ wire = <<>> /\ ~peer.chunk.ext /\ peer.chunk.left > 0 /\ stage # "failed"
      /\ UNCHANGED <<begun, reader, last, partial, inSize, delivered, stage>>
  BY DEF Reader!PeerFills, Reader!Quiet, Reader!readerVars, Reader!Over
<1>2. ReaderTyped /\ InOrder /\ \A d \in Csid : Sane(d)
  BY DEF ReaderInv
<1>3. ByteDue
  BY <1>1, <1>2 DEF ReaderInv, BetweenChunks, HeaderComes, ExtensionDue, ByteComes
<1>4. PICK c \in Csid, o \in Begun, was \in Begun, n \in Nat, s \in Nat \ {0} :
        /\ c = Here /\ was = open[c] /\ n = peer.chunk.left - 1
        /\ o = [id |-> was.id, message |-> was.message, ext |-> was.ext,
                left |-> was.left - 1]
        /\ s = IF was.left = 1 /\ was.message.name = "size" THEN was.message.size
               ELSE peer.size
  <2>1. Here \in Csid /\ open[Here] \in Begun
    BY <1>2, <1>3, Fields DEF ByteDue
  <2>2. open[Here].left \in Nat \ {0} /\ peer.chunk.left \in Nat \ {0}
    BY <1>1, <1>2, <1>3, <2>1, Fields DEF ByteDue, ReaderTyped
  <2>3. \A x \in Nat \ {0} : x - 1 \in Nat
    OBVIOUS
  <2>4. [id |-> open[Here].id, message |-> open[Here].message, ext |-> open[Here].ext,
         left |-> open[Here].left - 1] \in Begun
    BY <2>1, <2>2, <2>3 DEF Begun
  <2>5. \A m \in Messages : m.name = "size" => m.size \in Nat \ {0}
    <3>1. \A c : c \in Reader!Command \cup {"ping"} => c # "size"
      BY DEF Reader!Command
    <3>2. \A n \in Sizes : n \in Nat \ {0}
      BY ReaderConstants DEF Reader!ChunkReaderConstants
    <3>3. ASSUME NEW m \in Reader!Plain PROVE m.name # "size"
      BY <3>1 DEF Reader!Plain
    <3>4. ASSUME NEW m \in Reader!SetSize PROVE m.size \in Nat \ {0}
      BY <3>2 DEF Reader!SetSize
    <3>. QED  BY <3>3, <3>4 DEF Messages, Reader!Nothing
  <2>6. open[Here].message \in Messages /\ peer.size \in Nat \ {0}
    BY <1>2, <2>1 DEF Begun, ReaderTyped
  <2>. QED  BY <2>1, <2>2, <2>3, <2>4, <2>5, <2>6
<1>5. /\ was.left \in Nat \ {0} /\ was.id \in Nat /\ peer.chunk.left = n + 1
      /\ n + 1 <= was.left /\ o.left = was.left - 1
  <2>1. peer.chunk.left \in Nat
    BY <1>2 DEF ReaderTyped
  <2>. QED  BY <1>1, <1>3, <1>4, <2>1 DEF ByteDue, Begun
<1>6. /\ open' = [open EXCEPT ![c] = o]
      /\ wire' = <<[field |-> "byte", csid |-> c, fmt |-> 0, of |-> [was EXCEPT !.left = 0]]>>
      /\ sent' = IF was.left = 1 /\ was.message.name # "size" THEN Append(sent, was.id)
                 ELSE sent
  <2>1. [open[c] EXCEPT !.left = @ - 1] = o
    BY <1>4 DEF Begun
  <2>2. open' = [open EXCEPT ![c].left = @ - 1]
    BY <1>4 DEF Reader!PeerFills, Here
  <2>3. open' = [open EXCEPT ![c] = o]
    BY <1>2, <2>1, <2>2 DEF ReaderTyped
  <2>4. /\ wire' = <<[field |-> "byte", csid |-> c, fmt |-> 0,
                      of |-> [was EXCEPT !.left = 0]]>>
        /\ sent' = IF was.left = 1 /\ was.message.name # "size" THEN Append(sent, was.id)
                   ELSE sent
    BY <1>4 DEF Reader!PeerFills, Here
  <2>. QED  BY <2>3, <2>4
<1>7. peer' = [size |-> s, chunk |-> [csid |-> c, ext |-> FALSE, left |-> n]]
  <2>1. peer' = [peer EXCEPT !.chunk.left = @ - 1, !.size = s]
    BY <1>4 DEF Reader!PeerFills, Here
  <2>. QED  BY <1>1, <1>2, <1>4, <2>1 DEF ReaderTyped, Here
<1>8. sent \in Seq(Nat) /\ sent' \in Seq(Nat) /\ Len(sent) <= Len(sent')
      /\ \A i \in 1..Len(sent) : sent'[i] = sent[i]
  BY <1>2, <1>5, <1>6, AppendProperties, LenProperties DEF ReaderTyped
<1>9. ReaderTyped'
  <2>1. peer' \in [size : Nat \ {0}, chunk : [csid : Csid \cup {0}, ext : BOOLEAN, left : Nat]]
    BY <1>4, <1>7
  <2>. QED  BY <1>1, <1>2, <1>4, <1>6, <1>8, <2>1 DEF ReaderTyped
<1>10. open'[c] = o /\ \A d \in Csid : d # c => open'[d] = open[d]
  BY <1>2, <1>6 DEF ReaderTyped
<1>11. /\ Extent(c)' = Extent(c) /\ Gone(c)' = Gone(c) + 1 /\ Gone(c) \in Nat
       /\ Extent(c) \in Nat /\ o.left < Extent(c)
  <2>1. Extent(c)' = Extent(c)
    BY <1>4, <1>10 DEF Extent
  <2>2. /\ Gone(c) \in Nat /\ Extent(c) \in Nat /\ Extent(c) - Gone(c) = was.left
        /\ Gone(c) = Extent(c) - was.left
    BY <1>2, <1>4, Fields DEF Gone
  <2>3. Gone(c)' = Extent(c) - o.left
    BY <1>10, <2>1 DEF Gone
  <2>. QED  BY <1>5, <2>1, <2>2, <2>3
<1>12. Sane(c)' /\ Named(c)' /\ Measured(c)'
  <2>1. Named(c)' /\ Measured(c)'
    BY <1>1, <1>3, <1>4, <1>10, <1>11 DEF ByteDue, Named, Measured
  <2>2. Sane(c) /\ Sane(c)'
    BY <1>2, <1>4, <1>5, <1>10, <1>11 DEF Sane
  <2>. QED  BY <2>1, <2>2
<1>13. ASSUME NEW d \in Csid, d # c PROVE Sane(d)' /\ Kept(d)' /\ Named(d)'
  BY <1>1, <1>2, <1>3, <1>4, <1>10, <1>13 DEF ByteDue, Sane, Kept, Named, Extent, Gone
<1>14. Here' = c
  BY <1>7 DEF Here
<1>15. IF o.left = 0 THEN Ended' ELSE InStep'
  <2>1. Len(delivered) = Len(sent) /\ inSize = peer.size
    BY <1>3 DEF ByteDue, InStep
  <2>2. CASE o.left # 0
    BY <1>1, <1>4, <1>5, <1>6, <1>7, <2>1, <2>2 DEF InStep
  <2>3. CASE o.left = 0 /\ was.message.name = "size"
    BY <1>1, <1>4, <1>5, <1>6, <1>7, <1>10, <1>14, <2>1, <2>3 DEF Ended
  <2>4. CASE o.left = 0 /\ was.message.name # "size"
    <3>. was.left = 1
      BY <1>5, <2>4
    <3>1. sent' = Append(sent, was.id) /\ s = peer.size
      BY <1>4, <1>6, <2>4
    <3>2. Len(sent') = Len(sent) + 1 /\ sent'[Len(sent')] = was.id
      BY <1>5, <1>8, <3>1, AppendProperties
    <3>. QED  BY <1>1, <1>4, <1>7, <1>10, <1>14, <2>1, <2>4, <3>1, <3>2 DEF Ended
  <2>. QED  BY <2>2, <2>3, <2>4
<1>16. ByteComes'
  <2>1. /\ wire' # <<>> /\ wire'[1].of.id = open'[c].id
    <3>1. PICK f : f = [field |-> "byte", csid |-> c, fmt |-> 0, of |-> [was EXCEPT !.left = 0]]
      OBVIOUS
    <3>2. f.of.id = was.id
      BY <1>4, <3>1 DEF Begun
    <3>3. wire' = <<f>> /\ o.id = was.id
      BY <1>4, <1>6, <3>1
    <3>4. wire' # <<>> /\ wire'[1] = f
      BY <3>3
    <3>. QED  BY <1>10, <3>2, <3>3, <3>4
  <2>2. peer'.chunk.left <= open'[c].left /\ open'[c].left < Extent(c)' /\ ~peer'.chunk.ext
    <3>1. n <= o.left
      BY <1>5
    <3>2. peer'.chunk.left = n /\ ~peer'.chunk.ext /\ open'[c].left = o.left
          /\ Extent(c)' = Extent(c)
      BY <1>7, <1>10, <1>11
    <3>. QED  BY <1>11, <3>1, <3>2
  <2>3. reader' = [at |-> "body", csid |-> c, left |-> peer'.chunk.left + 1,
                   body |-> Bytes(Gone(c)' - 1, open'[c].id)]
    <3>1. reader' = [at |-> "body", csid |-> c, left |-> peer.chunk.left,
                     body |-> Bytes(Gone(c), was.id)]
      BY <1>1, <1>3, <1>4 DEF ByteDue
    <3>2. Gone(c)' - 1 = Gone(c) /\ peer'.chunk.left + 1 = peer.chunk.left
      BY <1>5, <1>7, <1>11
    <3>. QED  BY <1>4, <1>10, <3>1, <3>2
  <2>4. /\ Extent(Here)' = Extent(c)' /\ Gone(Here)' = Gone(c)' /\ Measured(Here)'
    BY <1>12, <1>14 DEF Extent, Gone, Measured
  <2>. QED  BY <1>10, <1>12, <1>13, <1>14, <1>15, <2>1, <2>2, <2>3, <2>4 DEF ByteComes
<1>17. InOrder'
  <2>1. ASSUME NEW i \in DOMAIN delivered
        PROVE  /\ i <= Len(sent')
               /\ delivered[i].body = Bytes(Reader!Length(delivered[i].message), sent'[i])
    <3>1. delivered \in Seq(Heard) /\ DOMAIN delivered = 1..Len(delivered)
          /\ Len(delivered) \in Nat /\ Len(sent) \in Nat /\ Len(sent') \in Nat
      BY <1>2, <1>8, LenProperties DEF ReaderTyped
    <3>2. i \in 1..Len(sent)
      BY <1>2, <2>1, <3>1 DEF InOrder
    <3>3. sent'[i] = sent[i] /\ i <= Len(sent')
      BY <1>8, <3>1, <3>2
    <3>4. delivered[i].body = Bytes(Reader!Length(delivered[i].message), sent[i])
      BY <1>2, <2>1, Zenon DEF InOrder
    <3>. QED  BY <3>3, <3>4, Zenon
  <2>. QED  BY <1>1, <2>1 DEF InOrder
<1>18. \A d \in Csid : Sane(d)'
  BY <1>12, <1>13
<1>. QED  BY <1>1, <1>9, <1>16, <1>17, <1>18 DEF ReaderInv

\* The payload the reader waits for is the chunk's, added to what it kept.
LEMMA BodyBegins ==
  ASSUME ReaderTyped, NEW c \in Csid, c = Here, ChunkAhead, InStep, Sane(c), Kept(c),
         last'[c].message = open[c].message, Reader!TurnsToBody(c)
  PROVE  /\ reader' = [at |-> "body", csid |-> c, left |-> peer.chunk.left,
                       body |-> Bytes(Gone(c), open[c].id)]
         /\ peer.chunk.left > 0 /\ peer.chunk.left <= open[c].left /\ Measured(c)
<1>1. /\ open[c].id \in Nat /\ Extent(c) \in Nat \ {0} /\ Gone(c) \in Nat
      /\ open[c].left \in Nat \ {0} /\ Extent(c) - Gone(c) = open[c].left
  <2>1. open[c].left > 0
    BY DEF ChunkAhead
  <2>. QED  BY <2>1, Fields
<1>2. peer.size \in Nat \ {0} /\ peer.chunk.left = Reader!Min({open[c].left, peer.size})
      /\ inSize = peer.size
  BY DEF ReaderTyped, ChunkAhead, InStep
<1>3. peer.chunk.left > 0 /\ peer.chunk.left <= open[c].left
  BY <1>1, <1>2, Smaller
<1>4. /\ partial[c].length = (IF Gone(c) = 0 THEN 0 ELSE Extent(c))
      /\ partial[c].body = Bytes(Gone(c), open[c].id)
  BY <1>1, NoBytes DEF Kept, Reader!NoPartial
<1>5. Len(partial[c].body) = Gone(c)
  BY <1>1, <1>4, BytesAre
<1>6. Reader!WholeLength(c) = Extent(c) /\ Measured(c)
  BY <1>1, <1>4 DEF Reader!WholeLength, Reader!Started, Extent, Measured
<1>7. Reader!Wanted(c, Extent(c)) = peer.chunk.left
  BY <1>1, <1>2, <1>5 DEF Reader!Wanted
<1>. QED  BY <1>3, <1>4, <1>6, <1>7 DEF Reader!TurnsToBody

\* The reader has only turned to a chunk's payload.
LEMMA BodyDue ==
  ASSUME ReaderInv, ChunkAhead, InStep, ~peer.chunk.ext, \A c \in Csid : Kept(c),
         wire' = <<>>, last' \in [Csid -> Begun], \A c \in Csid : Named(c)',
         UNCHANGED <<peer, open, sent, begun, partial, inSize, delivered, stage>>,
         \E c \in Csid : c = Here /\ Reader!TurnsToBody(c)
  PROVE  ReaderInv'
<1>1. ReaderTyped /\ InOrder /\ \A d \in Csid : Sane(d)
  BY DEF ReaderInv
<1>2. PICK c \in Csid : c = Here /\ Reader!TurnsToBody(c)
  OBVIOUS
<1>3. last'[c].message = open[c].message
  BY DEF Named
<1>4. /\ reader' = [at |-> "body", csid |-> c, left |-> peer.chunk.left,
                    body |-> Bytes(Gone(c), open[c].id)]
      /\ peer.chunk.left > 0 /\ peer.chunk.left <= open[c].left /\ Measured(c)
  BY <1>1, <1>2, <1>3, BodyBegins
<1>5. /\ \A d : Extent(d)' = Extent(d) /\ Gone(d)' = Gone(d)
      /\ \A d \in Csid : Sane(d)' /\ Kept(d)'
      /\ Measured(c)' /\ Here' = c
  <2>1. \A d : Extent(d)' = Extent(d) /\ Gone(d)' = Gone(d)
    BY DEF Extent, Gone
  <2>2. \A d \in Csid : Sane(d)' /\ Kept(d)'
    BY <1>1, <2>1 DEF Sane, Kept
  <2>. QED  BY <1>2, <1>4, <2>1, <2>2 DEF Measured, Here
<1>6. ByteDue'
  <2>1. /\ peer'.chunk.left > 0 /\ peer'.chunk.left <= open'[c].left /\ ~peer'.chunk.ext
        /\ reader' = [at |-> "body", csid |-> c, left |-> peer'.chunk.left,
                      body |-> Bytes(Gone(c)', open'[c].id)]
    BY <1>4, <1>5
  <2>2. InStep' /\ Gone(Here)' = Gone(c)' /\ Measured(Here)'
    BY <1>5 DEF InStep, Gone, Extent, Measured
  <2>. QED  BY <1>5, <2>1, <2>2 DEF ByteDue
<1>7. ReaderTyped' /\ InOrder'
  BY <1>1 DEF ReaderTyped, InOrder
<1>. QED  BY <1>5, <1>6, <1>7 DEF ReaderInv

LEMMA HeaderKeeps == ASSUME ReaderInv, Reader!ReadsHeader PROVE ReaderInv'
<1>1. wire # <<>> /\ wire' = <<>> /\ reader.at = "head" /\ UNCHANGED <<peer, open, sent, begun>>
  BY DEF Reader!ReadsHeader, Reader!Arrived, Reader!peerVars
<1>2. ReaderTyped /\ InOrder /\ \A d \in Csid : Sane(d)
  BY DEF ReaderInv
<1>3. HeaderComes
  BY <1>1 DEF ReaderInv, BetweenChunks, ExtensionDue, ByteDue, ByteComes
<1>4. PICK c \in Csid : c = Here
  BY <1>3 DEF HeaderComes, ChunkAhead
<1>5. PICK f : f = wire[1]
  OBVIOUS
<1>6. /\ f.field = "header" /\ f.csid = c
      /\ f.fmt = 0 \/ (f.fmt = 3 /\ Named(c))
      /\ f.fmt = 0 => f.of = open[c]
  <2>1. CASE wire = <<[field |-> "header", csid |-> Here, fmt |-> 0, of |-> open[Here]]>>
    BY <1>4, <1>5, <2>1
  <2>2. CASE /\ wire = <<[field |-> "header", csid |-> Here, fmt |-> 3,
                          of |-> Reader!Nothing]>>
             /\ Named(Here)
    <3>1. Named(c)
      BY <1>4, <2>2
    <3>. QED  BY <1>4, <1>5, <2>2, <3>1
  <2>. QED  BY <1>3, <2>1, <2>2 DEF HeaderComes
<1>7. f.fmt = 3 => last[c] # Reader!Nothing
  <2>1. open[c].left > 0 /\ Sane(c)
    BY <1>2, <1>3, <1>4 DEF HeaderComes, ChunkAhead
  <2>. QED  BY <1>6, <2>1 DEF Sane, Named, Reader!Nothing
<1>8. /\ last' = IF f.fmt = 0 THEN [last EXCEPT ![c] = open[c]] ELSE last
      /\ IF last'[c].ext
         THEN /\ reader'.at = "extended" /\ reader'.csid = c
              /\ UNCHANGED <<partial, inSize, delivered, stage>>
         ELSE Reader!TurnsToBody(c)
  <2>1. Reader!Field = f /\ Reader!Field.csid = c
    BY <1>5, <1>6 DEF Reader!Field
  <2>2. ~(f.field # "header" \/ (f.fmt = 3 /\ last[c] = Reader!Nothing))
    BY <1>6, <1>7
  <2>3. /\ [Reader!AtHead EXCEPT !.at = "extended", !.csid = c].at = "extended"
        /\ [Reader!AtHead EXCEPT !.at = "extended", !.csid = c].csid = c
    BY DEF Reader!AtHead
  <2>4. /\ last' = IF f.fmt = 0 THEN [last EXCEPT ![c] = f.of] ELSE last
        /\ IF last'[c].ext
           THEN /\ reader' = [Reader!AtHead EXCEPT !.at = "extended", !.csid = c]
                /\ UNCHANGED <<partial, inSize, delivered, stage>>
           ELSE Reader!TurnsToBody(c)
    BY <2>1, <2>2, Zenon
    DEF Reader!ReadsHeader, Reader!TurnsToBody, Reader!Wanted, Reader!WholeLength,
        Reader!Started
  <2>. QED  BY <1>6, <2>3, <2>4
<1>9. last' \in [Csid -> Begun] /\ \A d \in Csid : Named(d)'
  <2>1. last' \in [Csid -> Begun]
    BY <1>2, <1>8 DEF ReaderTyped
  <2>2. ASSUME NEW d \in Csid, d # c PROVE Named(d)'
    BY <1>1, <1>2, <1>3, <1>4, <1>8, <2>2 DEF HeaderComes, Named, ReaderTyped
  <2>3. Named(c)'
    <3>1. CASE f.fmt = 0
      <4>1. last'[c] = open[c]
        BY <1>2, <1>8, <3>1 DEF ReaderTyped
      <4>. QED  BY <1>1, <4>1 DEF Named
    <3>2. CASE f.fmt = 3 /\ Named(c)
      BY <1>1, <1>8, <3>2 DEF Named
    <3>. QED  BY <1>6, <3>1, <3>2
  <2>. QED  BY <2>1, <2>2, <2>3
<1>10. /\ ChunkAhead /\ InStep /\ \A d \in Csid : Kept(d)
       /\ (last'[c].ext <=> peer.chunk.ext)
  BY <1>1, <1>3, <1>4, <1>9 DEF HeaderComes, Named
<1>11. CASE ~last'[c].ext
  <2>1. Reader!TurnsToBody(c) /\ UNCHANGED <<partial, inSize, delivered, stage>>
    BY <1>8, <1>11 DEF Reader!TurnsToBody
  <2>. QED  BY <1>1, <1>4, <1>9, <1>10, <1>11, <2>1, BodyDue
<1>12. CASE last'[c].ext
  <2>1. /\ reader'.at = "extended" /\ reader'.csid = c
        /\ UNCHANGED <<partial, inSize, delivered, stage>>
    BY <1>8, <1>12
  <2>2. \A d : Extent(d)' = Extent(d) /\ Gone(d)' = Gone(d)
    BY <1>1 DEF Extent, Gone
  <2>3. \A d \in Csid : Sane(d)' /\ Kept(d)'
    BY <1>1, <1>2, <1>10, <2>1, <2>2 DEF Sane, Kept
  <2>4. ExtensionDue'
    BY <1>1, <1>4, <1>9, <1>10, <1>12, <2>1, <2>3 DEF ExtensionDue, ChunkAhead, InStep, Here
  <2>5. ReaderTyped' /\ InOrder'
    BY <1>1, <1>2, <1>9, <2>1 DEF ReaderTyped, InOrder
  <2>. QED  BY <1>1, <2>3, <2>4, <2>5 DEF ReaderInv
<1>. QED  BY <1>11, <1>12

LEMMA ExtensionKeeps == ASSUME ReaderInv, Reader!ReadsExtended PROVE ReaderInv'
<1>1. /\ wire # <<>> /\ wire' = <<>> /\ reader.at = "extended"
      /\ Reader!TurnsToBody(reader.csid) /\ UNCHANGED <<peer, open, sent, begun, last>>
      /\ UNCHANGED <<partial, inSize, delivered, stage>>
  BY DEF Reader!ReadsExtended, Reader!Arrived, Reader!peerVars, Reader!TurnsToBody
<1>2. ReaderTyped
  BY DEF ReaderInv
<1>3. ExtensionDue
  BY <1>1 DEF ReaderInv, BetweenChunks, HeaderComes, ByteDue, ByteComes, Reader!AtHead
<1>4. /\ ChunkAhead /\ InStep /\ ~peer.chunk.ext /\ reader.csid = Here /\ Here \in Csid
      /\ \A c \in Csid : Kept(c) /\ Named(c)
  BY <1>1, <1>3 DEF ExtensionDue, ChunkAhead
<1>5. \E c \in Csid : c = Here /\ Reader!TurnsToBody(c)
  <2>1. PICK c \in Csid : c = reader.csid /\ c = Here
    BY <1>4
  <2>. QED  BY <1>1, <2>1
<1>6. last' \in [Csid -> Begun] /\ \A c \in Csid : Named(c)'
  BY <1>1, <1>2, <1>4 DEF ReaderTyped, Named
<1>. QED  BY <1>1, <1>4, <1>5, <1>6, BodyDue

\* A byte is read: more of the chunk, or the next one, or a message is whole.
LEMMA ByteKeeps == ASSUME ReaderInv, Reader!ReadsByte PROVE ReaderInv'
<1>1. /\ wire # <<>> /\ wire' = <<>> /\ reader.at = "body" /\ ~Reader!Over
      /\ UNCHANGED <<peer, open, sent, begun, last>>
  BY DEF Reader!ReadsByte, Reader!Arrived, Reader!peerVars
<1>2. ReaderTyped /\ InOrder /\ \A d \in Csid : Sane(d)
  BY DEF ReaderInv
<1>3. ByteComes
  BY <1>1 DEF ReaderInv, BetweenChunks, HeaderComes, ExtensionDue, ByteDue, Reader!AtHead
<1>4. PICK c \in Csid, id \in Nat, m \in Messages, n \in Nat, body \in Seq(Nat),
           length \in Nat \ {0} :
        /\ c = Here /\ id = open[c].id /\ m = open[c].message /\ n = peer.chunk.left
        /\ body = Bytes(Gone(c), id) /\ length = Extent(c)
  <2>1. Here \in Csid /\ Sane(Here)
    BY <1>2, <1>3 DEF ByteComes
  <2>2. PICK c \in Csid : c = Here
    BY <2>1
  <2>3. /\ open[c].id \in Nat /\ open[c].message \in Messages /\ Gone(c) \in Nat
        /\ Extent(c) \in Nat \ {0}
    BY <1>2, <2>2, Fields
  <2>4. Bytes(Gone(c), open[c].id) \in Seq(Nat) /\ peer.chunk.left \in Nat
    BY <1>2, <2>3, BytesAre DEF ReaderTyped
  <2>. QED  BY <2>2, <2>3, <2>4
<1>5. PICK o \in Nat, g \in Nat :
        /\ o = open[c].left /\ g + 1 = Gone(c) /\ n <= o /\ o < length
        /\ length - Gone(c) = o /\ (Gone(c) = length <=> o = 0) /\ Gone(c) <= length
  <2>1. /\ open[c].left \in Nat /\ Gone(c) \in Nat /\ length - Gone(c) = open[c].left
        /\ (Gone(c) = length <=> open[c].left = 0) /\ Gone(c) <= length
    BY <1>2, <1>4, Fields
  <2>2. n <= open[c].left /\ open[c].left < length
    BY <1>3, <1>4 DEF ByteComes
  <2>3. Gone(c) - 1 \in Nat /\ (Gone(c) - 1) + 1 = Gone(c)
    BY <2>1, <2>2
  <2>. QED  BY <2>1, <2>2, <2>3
<1>6. /\ reader.csid = c /\ reader.left = n + 1 /\ Append(reader.body, id) = body
      /\ wire[1].of.id = id /\ Len(body) = Gone(c)
  <2>1. reader = [at |-> "body", csid |-> c, left |-> n + 1, body |-> Bytes(Gone(c) - 1, id)]
    BY <1>3, <1>4 DEF ByteComes
  <2>2. Gone(c) - 1 = g /\ g + 1 = Gone(c)
    BY <1>5
  <2>3. Append(Bytes(g, id), id) = Bytes(g + 1, id)
    BY BytesAre
  <2>4. Gone(c) \in Nat
    BY <2>2
  <2>5. Append(reader.body, id) = body
    <3>1. reader.body = Bytes(g, id)
      BY <2>1, <2>2
    <3>. QED  BY <1>4, <2>2, <2>3, <3>1, Zenon
  <2>6. Len(body) = Gone(c)
    BY <1>4, <2>4, BytesAre, Zenon
  <2>. QED  BY <1>3, <1>4, <2>1, <2>5, <2>6 DEF ByteComes
<1>7. /\ last[c].message = m /\ Measured(c) /\ \A d \in Csid : Named(d) /\ (d = c \/ Kept(d))
      /\ ~peer.chunk.ext /\ IF o = 0 THEN Ended ELSE InStep
  BY <1>3, <1>4, <1>5 DEF ByteComes, Named, Measured
<1>8. (IF Reader!Started(c) THEN partial[c].length ELSE Reader!Length(last[c].message)) = length
  BY <1>4, <1>7 DEF Measured, Reader!Started, Extent
<1>9. Len(body) >= length <=> o = 0
  BY <1>5, <1>6
<1>10. IF n + 1 > 1
       THEN /\ reader' = [reader EXCEPT !.left = @ - 1, !.body = body]
            /\ UNCHANGED <<partial, inSize, delivered, stage>>
       ELSE /\ reader' = Reader!AtHead
            /\ partial' = [partial EXCEPT ![c] =
                 IF o = 0 THEN Reader!NoPartial ELSE [length |-> length, body |-> body]]
            /\ inSize' = IF o = 0 /\ m.name = "size" THEN m.size ELSE inSize
            /\ IF o = 0 /\ m.name # "size"
               THEN /\ delivered' = Append(delivered, [message |-> m, body |-> body])
                    /\ stage' = Reader!Heard(m)
               ELSE UNCHANGED <<delivered, stage>>
  BY <1>6, <1>7, <1>8, <1>9, Zenon DEF Reader!ReadsByte, Reader!Field
<1>11. /\ \A d : Extent(d)' = Extent(d) /\ Gone(d)' = Gone(d)
       /\ \A d \in Csid : Sane(d)' /\ Named(d)'
       /\ Here' = c
  <2>1. \A d : Extent(d)' = Extent(d) /\ Gone(d)' = Gone(d)
    BY <1>1 DEF Extent, Gone
  <2>2. \A d \in Csid : Sane(d)' /\ Named(d)'
    BY <1>1, <1>2, <1>7, <2>1 DEF Sane, Named
  <2>. QED  BY <1>1, <1>4, <2>1, <2>2 DEF Here
<1>12. CASE n # 0
  <2>1. /\ reader' = [reader EXCEPT !.left = @ - 1, !.body = body]
        /\ UNCHANGED <<partial, inSize, delivered, stage>>
    BY <1>10, <1>12
  <2>2. reader' = [at |-> "body", csid |-> c, left |-> n, body |-> body]
    <3>1. reader = [at |-> "body", csid |-> c, left |-> n + 1,
                    body |-> Bytes(Gone(c) - 1, id)]
      BY <1>3, <1>4 DEF ByteComes
    <3>2. (n + 1) - 1 = n
      OBVIOUS
    <3>. QED  BY <2>1, <3>1, <3>2
  <2>3. \A d \in Csid : d = c \/ Kept(d)'
    BY <1>1, <1>7, <1>11, <2>1 DEF Kept
  <2>4. InStep' /\ Measured(c)' /\ o # 0
    <3>1. o # 0
      BY <1>5, <1>12
    <3>. QED  BY <1>1, <1>7, <1>11, <2>1, <3>1 DEF InStep, Measured
  <2>5. ByteDue'
    <3>1. /\ peer'.chunk.left > 0 /\ peer'.chunk.left <= open'[c].left /\ ~peer'.chunk.ext
          /\ peer'.chunk.left = n /\ open'[c].id = id
      BY <1>1, <1>4, <1>5, <1>7, <1>12
    <3>2. Gone(Here)' = Gone(c) /\ Measured(Here)'
      BY <1>11, <2>4 DEF Gone, Extent, Measured
    <3>. QED  BY <1>1, <1>4, <1>11, <2>2, <2>3, <2>4, <3>1, <3>2 DEF ByteDue
  <2>6. ReaderTyped' /\ InOrder'
    BY <1>1, <1>2, <2>1 DEF ReaderTyped, InOrder
  <2>. QED  BY <1>1, <1>11, <2>5, <2>6 DEF ReaderInv
<1>13. CASE n = 0
  <2>1. /\ reader' = Reader!AtHead
        /\ partial' = [partial EXCEPT ![c] =
             IF o = 0 THEN Reader!NoPartial ELSE [length |-> length, body |-> body]]
        /\ inSize' = IF o = 0 /\ m.name = "size" THEN m.size ELSE inSize
        /\ IF o = 0 /\ m.name # "size"
           THEN /\ delivered' = Append(delivered, [message |-> m, body |-> body])
                /\ stage' = Reader!Heard(m)
           ELSE UNCHANGED <<delivered, stage>>
    BY <1>10, <1>13
  <2>2. \A d \in Csid : Kept(d)'
    <3>1. ASSUME NEW d \in Csid, d # c PROVE Kept(d)'
      <4>1. partial'[d] = partial[d]
        BY <1>2, <2>1, <3>1 DEF ReaderTyped
      <4>. QED  BY <1>1, <1>7, <1>11, <3>1, <4>1 DEF Kept
    <3>2. Kept(c)'
      <4>1. partial'[c] = IF o = 0 THEN Reader!NoPartial ELSE [length |-> length, body |-> body]
        BY <1>2, <2>1 DEF ReaderTyped
      <4>2. Gone(c) # 0 /\ Gone(c)' = Gone(c) /\ Extent(c)' = length
        BY <1>4, <1>5, <1>11
      <4>. QED  BY <1>1, <1>4, <1>5, <4>1, <4>2 DEF Kept
    <3>. QED  BY <3>1, <3>2
  <2>3. inSize' = peer.size /\ inSize' \in Nat \ {0}
    <3>1. inSize' = peer.size
      BY <1>4, <1>7, <2>1 DEF Ended, InStep
    <3>. QED  BY <1>2, <3>1 DEF ReaderTyped
  <2>4. partial' \in [Csid -> [length : Nat, body : Seq(Nat)]]
    BY <1>2, <1>4, <2>1 DEF ReaderTyped, Reader!NoPartial
  <2>5. /\ delivered' \in Seq(Heard) /\ Len(delivered') = Len(sent) /\ InOrder'
        /\ stage' \in {"connect", "create", "publish", "live", "failed"}
    <3>1. delivered \in Seq(Heard) /\ sent \in Seq(Nat)
          /\ stage \in {"connect", "create", "publish", "live", "failed"}
      BY <1>2 DEF ReaderTyped
    <3>2. CASE o = 0 /\ m.name # "size"
      <4>1. PICK x \in Heard : x = [message |-> m, body |-> body]
        BY <1>4 DEF Heard
      <4>2. delivered' = Append(delivered, x)
        BY <2>1, <3>2, <4>1
      <4>3. PICK k, r : k \in Nat /\ k = Len(delivered) /\ r = Append(delivered, x)
        BY <3>1, LenProperties
      <4>4. /\ r \in Seq(Heard) /\ Len(r) = k + 1 /\ r[k + 1] = x
            /\ \A i \in 1..k : r[i] = delivered[i]
        BY <3>1, <4>3, AppendProperties
      <4>5. Len(sent) = k + 1 /\ sent[k + 1] = id
        BY <1>4, <1>7, <3>2, <4>3 DEF Ended
      <4>6. \A i \in DOMAIN r : /\ i <= Len(sent)
                                /\ r[i].body = Bytes(Reader!Length(r[i].message), sent[i])
        <5>1. DOMAIN r = 1..(k + 1) /\ DOMAIN delivered = 1..k
          BY <3>1, <4>3, <4>4, LenProperties
        <5>2. \A i : i \in 1..(k + 1) <=> i \in 1..k \/ i = k + 1
          BY <4>3
        <5>3. ASSUME NEW i \in 1..k
              PROVE  /\ i <= Len(sent)
                     /\ r[i].body = Bytes(Reader!Length(r[i].message), sent[i])
          <6>1. /\ i <= Len(sent)
                /\ delivered[i].body = Bytes(Reader!Length(delivered[i].message), sent[i])
            BY <1>2, <5>1, Zenon DEF InOrder
          <6>. QED  BY <4>4, <6>1
        <5>4. /\ k + 1 <= Len(sent)
              /\ r[k + 1].body = Bytes(Reader!Length(r[k + 1].message), sent[k + 1])
          <6>1. r[k + 1].message = m /\ r[k + 1].body = body
            BY <4>1, <4>4
          <6>2. Gone(c) = length /\ Reader!Length(m) = length
            BY <1>4, <1>5, <3>2 DEF Extent
          <6>. QED  BY <1>4, <4>5, <6>1, <6>2
        <5>. QED  BY <5>1, <5>2, <5>3, <5>4, Zenon
      <4>7. InOrder'
        BY <1>1, <4>2, <4>3, <4>6 DEF InOrder
      <4>8. stage' \in {"connect", "create", "publish", "live", "failed"}
        BY <2>1, <3>1, <3>2 DEF Reader!Heard
      <4>. QED  BY <4>2, <4>3, <4>4, <4>5, <4>7, <4>8
    <3>3. CASE ~(o = 0 /\ m.name # "size")
      <4>1. UNCHANGED <<delivered, stage>>
        BY <2>1, <3>3
      <4>2. Len(delivered) = Len(sent)
        BY <1>4, <1>7, <3>3 DEF Ended, InStep
      <4>. QED  BY <1>1, <1>2, <3>1, <4>1, <4>2 DEF InOrder
    <3>. QED  BY <3>2, <3>3
  <2>6. BetweenChunks'
    <3>1. ~peer'.chunk.ext /\ peer'.chunk.left = 0 /\ reader' = Reader!AtHead /\ InStep'
      BY <1>1, <1>4, <1>7, <1>13, <2>1, <2>3, <2>5 DEF InStep
    <3>. QED  BY <1>1, <1>11, <2>2, <3>1 DEF BetweenChunks
  <2>7. ReaderTyped'
    BY <1>1, <1>2, <2>3, <2>4, <2>5 DEF ReaderTyped
  <2>. QED  BY <1>1, <1>11, <2>5, <2>6, <2>7 DEF ReaderInv
<1>. QED  BY <1>12, <1>13

\* The wait for publish's answer ends between chunks, where it leaves nothing out.
LEMMA UnansweredKeeps == ASSUME ReaderInv, ~Stalls, Reader!PublishUnanswered PROVE ReaderInv'
<1>1. /\ wire = <<>> /\ ~peer.chunk.ext /\ peer.chunk.left = 0 /\ stage' = "live"
      /\ reader' = Reader!AtHead
      /\ UNCHANGED <<peer, open, sent, begun, wire, last, inSize, delivered>>
  BY DEF Reader!PublishUnanswered, Reader!ChunkDone, Reader!peerVars
<1>2. ReaderTyped /\ InOrder /\ \A d \in Csid : Sane(d)
  BY DEF ReaderInv
<1>3. BetweenChunks
  BY <1>1 DEF ReaderInv, HeaderComes, ExtensionDue, ByteDue, ByteComes
<1>4. partial' = partial
  <2>1. reader.at # "body"
    BY <1>3 DEF BetweenChunks, Reader!AtHead
  <2>. QED  BY <2>1 DEF Reader!PublishUnanswered
<1>5. /\ \A d : Extent(d)' = Extent(d) /\ Gone(d)' = Gone(d)
      /\ \A d \in Csid : Sane(d)' /\ Named(d)' /\ Kept(d)'
  <2>1. \A d : Extent(d)' = Extent(d) /\ Gone(d)' = Gone(d)
    BY <1>1 DEF Extent, Gone
  <2>. QED  BY <1>1, <1>2, <1>3, <1>4, <2>1 DEF BetweenChunks, Sane, Named, Kept
<1>6. BetweenChunks'
  BY <1>1, <1>3, <1>5 DEF BetweenChunks, InStep
<1>7. ReaderTyped' /\ InOrder'
  BY <1>1, <1>2, <1>4 DEF ReaderTyped, InOrder
<1>. QED  BY <1>1, <1>5, <1>6, <1>7 DEF ReaderInv

\* The inductive invariant of reader and peer, with no silence inside a chunk.
THEOREM ReaderInvariant == ASSUME ~Stalls PROVE MCSpec => []ReaderInv
<1>1. MCInit => ReaderInv
  BY ReaderBegins DEF MCInit
<1>2. ReaderInv /\ [MCNext]_<<part, vars, streamVars, readerVars, soundVars>> => ReaderInv'
  <2>. SUFFICES ASSUME ReaderInv, [MCNext]_<<part, vars, streamVars, readerVars, soundVars>>
                PROVE  ReaderInv'
    OBVIOUS
  <2>1. CASE Reader!Next
    <3>1. ASSUME NEW c \in Csid, NEW m \in Reader!Plain \cup Reader!SetSize,
                 NEW ext \in BOOLEAN, Reader!PeerBegins(c, m, ext)
          PROVE  ReaderInv'
      BY <3>1, BeginsKeeps
    <3>2. ASSUME NEW c \in Csid, Reader!PeerContinues(c) PROVE ReaderInv'
      BY <3>2, ContinuesKeeps
    <3>. QED  BY <2>1, <3>1, <3>2, ExtendsKeeps, FillsKeeps, HeaderKeeps, ExtensionKeeps,
                 ByteKeeps, UnansweredKeeps DEF Reader!Next
  <2>2. CASE UNCHANGED readerVars
    <3>1. UNCHANGED <<peer, open, sent, begun, wire, reader, last, partial, inSize,
                      delivered, stage>>
      BY <2>2 DEF readerVars
    <3>2. \A d : Extent(d)' = Extent(d) /\ Gone(d)' = Gone(d)
      BY <3>1 DEF Extent, Gone
    <3>3. \A d \in Csid : /\ (Sane(d) <=> Sane(d)') /\ (Named(d) <=> Named(d)')
                          /\ (Kept(d) <=> Kept(d)') /\ (Measured(d) <=> Measured(d)')
      BY <3>1, <3>2 DEF Sane, Named, Kept, Measured
    <3>4. Here' = Here /\ (InStep <=> InStep') /\ (Ended <=> Ended') /\ (ChunkAhead <=> ChunkAhead')
          /\ (ReaderTyped <=> ReaderTyped') /\ (InOrder <=> InOrder')
      BY <3>1 DEF Here, InStep, Ended, ChunkAhead, ReaderTyped, InOrder
    <3>5. /\ BetweenChunks => BetweenChunks'
      BY <3>1, <3>3, <3>4 DEF BetweenChunks
    <3>6. HeaderComes => HeaderComes'
      BY <3>1, <3>3, <3>4 DEF HeaderComes, ChunkAhead, Named
    <3>7. ExtensionDue => ExtensionDue'
      BY <3>1, <3>3, <3>4 DEF ExtensionDue
    <3>8. ByteDue => ByteDue'
      BY <3>1, <3>3, <3>4 DEF ByteDue, Gone, Extent, Measured
    <3>9. ByteComes => ByteComes'
      BY <3>1, <3>3, <3>4 DEF ByteComes, Gone, Extent, Measured
    <3>. QED  BY <3>1, <3>3, <3>4, <3>5, <3>6, <3>7, <3>8, <3>9 DEF ReaderInv
  <2>. QED  BY <2>1, <2>2 DEF MCNext
<1>. QED  BY <1>1, <1>2, PTL DEF MCSpec

\* rtmp.rs, ChunkReader and live_loop's read side: while no silence falls inside a
\* chunk, every message arrives whole and in the order they were finished, and one
\* that has been sent to its end has been heard, for any chunk streams and sizes.
THEOREM MessagesArrive == ASSUME ~Stalls PROVE MCSpec => []MessagesArriveWhole
<1>1. ReaderInv => MessagesArriveWhole
  <2>. SUFFICES ASSUME ReaderInv PROVE MessagesArriveWhole
    OBVIOUS
  <2>1. wire = <<>> => Len(delivered) = Len(sent)
    BY DEF ReaderInv, BetweenChunks, HeaderComes, ExtensionDue, ByteDue, ByteComes, InStep
  <2>2. Reader!Over => stage = "failed" /\ wire = <<>>
    BY DEF ReaderInv, ReaderTyped, Reader!Over
  <2>3. \A i \in DOMAIN delivered :
          /\ i <= Len(sent)
          /\ delivered[i].body = [k \in 1..Reader!Length(delivered[i].message) |-> sent[i]]
    BY DEF ReaderInv, InOrder, Bytes
  <2>. QED  BY <2>1, <2>2, <2>3
            DEF MessagesArriveWhole, Reader!MessagesArriveWhole, Reader!Quiet
<1>. QED  BY <1>1, ReaderInvariant, PTL
================================================================================
