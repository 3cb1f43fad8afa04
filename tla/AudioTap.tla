------------------------------ MODULE AudioTap ------------------------------
(***************************************************************************)
(* The ring between the audio thread and an output's thread                *)
(* (record/audio_tap.rs).  The producer never waits: when the ring is full *)
(* it takes the oldest frame away, racing the consumer for `tail` with a   *)
(* compare-and-swap each.  It stores a batch of frames slot by slot and    *)
(* publishes `head` once, at the end.                                      *)
(*                                                                         *)
(* Indices move by whole stereo frames, so a slot is a frame; the n-th     *)
(* frame pushed is the number n.  Memory is sequentially consistent here.  *)
(***************************************************************************)
EXTENDS Integers, Sequences, SequencesExt

CONSTANTS
  Capacity,   \* the ring's frames
  MaxBatch,   \* bound on the frames of one push; below the capacity
  MaxPushed   \* bound on the frames pushed in all

\* A push is never longer than the ring.
TapConstants ==
  Capacity \in Nat \ {0} /\ MaxBatch \in 1..Capacity /\ MaxPushed \in Nat

VARIABLES
  slot,       \* the ring
  head,       \* the published write counter
  tail,       \* the read counter, moved by both sides
  dropped,    \* the frames taken away
  producer,   \* push: how far, its own head, the tail it read, what is left
  consumer,   \* drain: how far, the counters it read, what it copied
  drained     \* history: every frame a drain returned

tapVars == <<slot, head, tail, dropped, producer, consumer, drained>>

Resting == [at |-> "resting", head |-> 0, tail |-> 0, left |-> 0]
Away == [at |-> "away", tail |-> 0, count |-> 0, copied |-> <<>>]

TapTypeOK ==
  /\ slot \in [0..Capacity - 1 -> 0..MaxPushed]
  /\ head \in 0..MaxPushed /\ tail \in 0..MaxPushed /\ dropped \in 0..MaxPushed
  /\ producer \in [at : {"resting", "room", "evict", "store", "publish"},
                   head : 0..MaxPushed, tail : 0..MaxPushed, left : 0..MaxBatch]
  /\ consumer \in [at : {"away", "tail", "head", "copy"}, tail : 0..MaxPushed,
                   count : 0..Capacity, copied : Seq(0..MaxPushed)]
  /\ drained \in Seq(1..MaxPushed)

TapInit ==
  /\ slot = [i \in 0..Capacity - 1 |-> 0]
  /\ head = 0 /\ tail = 0 /\ dropped = 0
  /\ producer = Resting /\ consumer = Away /\ drained = <<>>

-----------------------------------------------------------------------------
(* push, on the audio thread.                                              *)

\* What the producer keeps at rest: its head is the published one.
PushBegins ==
  /\ producer.at = "resting"
  /\ \E n \in 1..MaxBatch :
       /\ head + n <= MaxPushed
       /\ producer' = [Resting EXCEPT !.at = "room", !.head = head, !.left = n]
  /\ UNCHANGED <<slot, head, tail, dropped, consumer, drained>>

\* Is there room for a frame, as the tail now reads?
ReadTail ==
  /\ producer.at = "room"
  /\ producer' = [producer EXCEPT !.tail = tail,
       !.at = IF producer.head - tail <= Capacity - 1 THEN "store" ELSE "evict"]
  /\ UNCHANGED <<slot, head, tail, dropped, consumer, drained>>

\* The oldest frame is taken, unless the consumer moved the tail first.
Evict ==
  /\ producer.at = "evict"
  /\ \/ /\ tail = producer.tail
        /\ tail' = tail + 1 /\ dropped' = dropped + 1
        /\ producer' = [producer EXCEPT !.at = "store"]
     \/ /\ tail # producer.tail
        /\ producer' = [producer EXCEPT !.at = "room"]
        /\ UNCHANGED <<tail, dropped>>
  /\ UNCHANGED <<slot, head, consumer, drained>>

\* The frame is stored; the last of the batch is followed by publishing all.
Store ==
  /\ producer.at = "store"
  /\ slot' = [slot EXCEPT ![producer.head % Capacity] = producer.head + 1]
  /\ IF producer.left > 1
     THEN producer' = [producer EXCEPT !.at = "room", !.head = @ + 1,
                                       !.left = @ - 1]
     ELSE producer' = [producer EXCEPT !.at = "publish", !.head = @ + 1]
  /\ UNCHANGED <<head, tail, dropped, consumer, drained>>

Publish ==
  /\ producer.at = "publish"
  /\ head' = producer.head /\ producer' = Resting
  /\ UNCHANGED <<slot, tail, dropped, consumer, drained>>

Push == PushBegins \/ ReadTail \/ Evict \/ Store \/ Publish

-----------------------------------------------------------------------------
(* drain, on the output's thread.                                          *)

\* The thread begins to drain.
DrainBegins ==
  /\ consumer.at = "away"
  /\ consumer' = [Away EXCEPT !.at = "tail"]
  /\ UNCHANGED <<slot, head, tail, dropped, producer, drained>>

DrainReadsTail ==
  /\ consumer.at = "tail"
  /\ consumer' = [Away EXCEPT !.at = "head", !.tail = tail]
  /\ UNCHANGED <<slot, head, tail, dropped, producer, drained>>

\* How much there is to copy, nothing sending the thread on its way.
DrainReadsHead ==
  /\ consumer.at = "head"
  /\ LET n == head - consumer.tail
     IN consumer' = IF n = 0 THEN Away
                    ELSE [consumer EXCEPT !.at = "copy", !.count =
                            IF n > Capacity \/ n < 0 THEN Capacity ELSE n]
  /\ UNCHANGED <<slot, head, tail, dropped, producer, drained>>

DrainCopies ==
  /\ consumer.at = "copy" /\ Len(consumer.copied) < consumer.count
  /\ consumer' = [consumer EXCEPT !.copied =
       Append(@, slot[(consumer.tail + Len(@)) % Capacity])]
  /\ UNCHANGED <<slot, head, tail, dropped, producer, drained>>

Copied == consumer.at = "copy" /\ Len(consumer.copied) = consumer.count

\* The producer took a frame meanwhile: once more.
DrainAgain ==
  /\ Copied /\ tail # consumer.tail
  /\ consumer' = [Away EXCEPT !.at = "tail"]
  /\ UNCHANGED <<slot, head, tail, dropped, producer, drained>>

\* Mutant: the tail is not checked again.
DrainUnchecked ==
  /\ Copied
  /\ tail' = consumer.tail + consumer.count
  /\ drained' = drained \o consumer.copied
  /\ consumer' = Away
  /\ UNCHANGED <<slot, head, dropped, producer>>

\* What was copied is the thread's.
Drain ==
  /\ Copied /\ tail = consumer.tail
  /\ tail' = tail + consumer.count
  /\ drained' = drained \o consumer.copied
  /\ consumer' = Away
  /\ UNCHANGED <<slot, head, dropped, producer>>

DrainSteps == DrainReadsTail \/ DrainReadsHead \/ DrainCopies \/ DrainAgain

TapSpec == TapInit /\ [][Push \/ DrainBegins \/ DrainSteps \/ Drain]_tapVars

-----------------------------------------------------------------------------
(* What the ring promises.                                                 *)

\* The consumer hears frames in the order they were pushed, none twice and
\* none half overwritten (audio_tap.rs, the concurrency contract).
HeardInOrder ==
  \A i, j \in DOMAIN drained : i < j => drained[i] < drained[j]
=============================================================================
