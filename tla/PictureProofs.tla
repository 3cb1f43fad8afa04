----------------------------- MODULE PictureProofs -----------------------------
(***************************************************************************)
(* The picture's three proofs, for any bounds, packages, loads and faults. *)
(*                                                                         *)
(* No encoder ever reads a torn frame, whatever it keeps: a surface is     *)
(* drawn into only when nothing refers to it, and from then on what it     *)
(* will show once the GPU is done is the frame of every message about it;  *)
(* a thread that has waited for its draw finds it complete.  And no frame  *)
(* is accounted for twice.                                                 *)
(*                                                                         *)
(* What the engine holds of a package is one load, whole, once nothing is  *)
(* under way: a load's parts carry its number, and it is recorded only     *)
(* when all do; the newest load the control plane names is held whole or   *)
(* not at all; and whatever a reader copied before the counter moved on is *)
(* what the engine has, unless the load that replaced it is still to move  *)
(* the counter.                                                            *)
(*                                                                         *)
(* The View shows nothing before its frame: a take writes its start last   *)
(* and the loop reads it before the transition, so what it draws is never  *)
(* younger than the transition it has read.  And an overlay is, or is      *)
(* becoming in time, what the last command about it asked for.  Unless a   *)
(* picture was early it is the transition's as it stands, from the frame   *)
(* before its first, so a mix begins exactly over what was on air.         *)
(***************************************************************************)
EXTENDS MCPicture, SequenceTheorems, FiniteSetTheorems, WellFoundedInduction, TLAPS

-----------------------------------------------------------------------------
(* The taps.                                                               *)

Targets == {View} \union Surface
Draws == [target : Targets, frame : Frame]
Ticks == [at : {"idle", "loan", "stream", "own", "draw", "record", "hand"},
          loan : {View} \union Shared, own : {View} \union Own,
          candidate : {View} \union Surface, drew : BOOLEAN]
Reading == [surface : Surface, frame : Frame]

\* The types, with the functions' domains and the candidate's pool.
Shapes ==
  /\ TypeOK
  /\ queue \in [Consumer -> Seq(Message)]
  /\ encoder \in [Consumer -> SUBSET Reading]
  /\ \A c \in Consumer : IsFiniteSet(encoder[c])
  /\ tick.at = "loan" => tick.candidate \in Shared
  /\ tick.at = "own" => tick.candidate \in Own

\* Whether the tick has yet to give an output its frame, or to skip it.
Owes(c) ==
  IF c = "record"
  THEN \/ tick.at = "loan"
       \/ /\ tick.at \in {"stream", "own", "draw", "record"}
          /\ tick.loan # View \/ setup.record = "cpuReadback"
  ELSE \/ tick.at \in {"loan", "stream", "own"}
       \/ tick.at \in {"draw", "record", "hand"} /\ Target # View

\* No frame is settled twice, or settled and still on its way.
Load(c) == settled[c] + Len(queue[c]) + Len(thread[c])
AccountInv == \A c \in Consumer : Load(c) + (IF Owes(c) THEN 1 ELSE 0) =< frame

\* What is on its way to an output's encoder.
Waiting(c) == Range(queue[c]) \union Range(thread[c])

\* The GPU is through with t, and t shows f.
Shows(t, f) == (\A i \in DOMAIN gpu : gpu[i].target # t) /\ picture[t] = f

\* Once the GPU is through, t shows f.
WillShow(t, f) ==
  \/ Shows(t, f)
  \/ \E i \in DOMAIN gpu :
       /\ gpu[i].target = t /\ gpu[i].frame = f
       /\ \A j \in DOMAIN gpu : j > i => gpu[j].target # t

MessageInv ==
  \A c \in Consumer : \A m \in Waiting(c) :
    m.surface # View => WillShow(m.surface, m.frame)

EncoderInv == \A c \in Consumer : \A e \in encoder[c] : Shows(e.surface, e.frame)

Unowned(s) == \A c \in Consumer : \A m \in Waiting(c) : m.surface # s

\* A surface that is about to be drawn into has no reader.
TickInv ==
  /\ tick.drew => tick.at \in {"record", "hand"}
  /\ tick.at \in {"loan", "own"} => Unowned(tick.candidate)
  /\ tick.at = "draw" /\ Target # View => Unowned(Target) /\ ~EncoderHas(Target)
  /\ tick.at \in {"record", "hand"} /\ tick.drew => WillShow(Target, frame)

\* A take that is read back has the built-in target to itself.
CopyInv ==
  /\ setup.record # "cpuReadback" => \A m \in Waiting("record") : m.surface # View
  /\ setup.record = "cpuReadback" /\ ~setup.stream =>
       /\ tick.at \notin {"loan", "own"} /\ tick.loan = View /\ tick.own = View
       /\ WillShow(View, newest)
       /\ CopyIsCurrent

TapInv == Shapes /\ AccountInv /\ MessageInv /\ EncoderInv /\ TickInv /\ CopyInv
-----------------------------------------------------------------------------
(* Sets, sequences and pools.                                              *)

\* A set of naturals that has members has a least one.
LEMMA LeastExists ==
  ASSUME NEW T, T \subseteq Nat, T # {}
  PROVE  Min(T) \in T
<1>. DEFINE R == OpToRel(<, Nat)
<1>1. IsWellFoundedOn(R, Nat)
  BY NatLessThanWellFounded, Zenon
<1>2. \A x, y \in Nat : y < x => <<y, x>> \in R
  BY Zenon DEF OpToRel
<1>. HIDE DEF R
<1>3. PICK x \in T : \A y \in T : <<y, x>> \notin R
  BY <1>1, WFMin, Zenon
<1>4. ASSUME NEW y \in T PROVE x =< y
  <2>1. x \in Nat /\ y \in Nat
    BY Zenon
  <2>2. ~(y < x)
    BY <1>2, <1>3, <2>1, Zenon
  <2>. QED  BY <2>1, <2>2
<1>. QED  BY <1>4, Zenon DEF Min

\* The pools are numbered from one; the built-in target is in neither.
LEMMA Pools ==
  /\ Shared \subseteq Nat \ {0} /\ Own \subseteq Nat \ {0} /\ Surface \subseteq Nat \ {0}
  /\ Shared \subseteq Surface /\ Own \subseteq Surface
  /\ View \notin Shared /\ View \notin Own /\ View \notin Surface
<1>1. SharedSize \in Nat
  BY BoundsType DEF SharedSize, InFlight, Bound, Consumer
<1>2. Shared \subseteq Nat \ {0}
  BY <1>1 DEF Shared
<1>3. Own \subseteq Nat \ {0}
  BY <1>1 DEF Own
<1>. QED  BY <1>2, <1>3 DEF Surface, View

LEMMA RangeAppend ==
  ASSUME NEW S, NEW s \in Seq(S), NEW x \in S
  PROVE  Range(Append(s, x)) = Range(s) \union {x}
<1>1. /\ Append(s, x) \in Seq(S) /\ Len(Append(s, x)) = Len(s) + 1
      /\ \A i \in 1..Len(s) : Append(s, x)[i] = s[i]
      /\ Append(s, x)[Len(s) + 1] = x
  BY AppendProperties
<1>2. Len(s) \in Nat /\ DOMAIN s = 1..Len(s) /\ DOMAIN Append(s, x) = 1..Len(s) + 1
  BY <1>1, LenProperties
<1>3. \A i : i \in 1..Len(s) + 1 <=> i \in 1..Len(s) \/ i = Len(s) + 1
  BY <1>2
<1>. QED  BY <1>1, <1>2, <1>3 DEF Range

LEMMA RangeHead ==
  ASSUME NEW S, NEW s \in Seq(S), s # <<>>
  PROVE  /\ Range(s) = {Head(s)} \union Range(Tail(s))
         /\ Head(s) \in S /\ Tail(s) \in Seq(S)
         /\ Len(s) \in Nat \ {0} /\ Len(Tail(s)) = Len(s) - 1
<1>1. /\ Head(s) \in S /\ Head(s) = s[1]
      /\ Tail(s) \in Seq(S) /\ Len(Tail(s)) = Len(s) - 1
      /\ \A i \in 1..Len(Tail(s)) : Tail(s)[i] = s[i + 1]
  BY HeadTailProperties
<1>2. /\ Len(s) \in Nat \ {0} /\ DOMAIN s = 1..Len(s)
      /\ DOMAIN Tail(s) = 1..Len(s) - 1
  BY <1>1, LenProperties, EmptySeq
<1>3. ASSUME NEW i \in 1..Len(s)
      PROVE  s[i] \in {Head(s)} \union Range(Tail(s))
  <2>1. CASE i = 1
    BY <1>1, <2>1
  <2>2. CASE i # 1
    <3>1. i - 1 \in 1..Len(s) - 1 /\ (i - 1) + 1 = i
      BY <1>2, <2>2
    <3>2. Tail(s)[i - 1] = s[i]
      BY <1>1, <3>1
    <3>. QED  BY <1>2, <3>1, <3>2 DEF Range
  <2>. QED  BY <2>1, <2>2
<1>4. ASSUME NEW i \in 1..Len(s) - 1
      PROVE  Tail(s)[i] \in Range(s)
  <2>1. i + 1 \in 1..Len(s)
    BY <1>2
  <2>2. Tail(s)[i] = s[i + 1]
    BY <1>1
  <2>. QED  BY <1>2, <2>1, <2>2 DEF Range
<1>5. s[1] \in Range(s)
  BY <1>2 DEF Range
<1>6. Range(s) \subseteq {Head(s)} \union Range(Tail(s))
  BY <1>2, <1>3 DEF Range
<1>7. Range(Tail(s)) \subseteq Range(s)
  BY <1>2, <1>4 DEF Range
<1>. QED  BY <1>1, <1>2, <1>5, <1>6, <1>7

\* A thread has no message, or one.
LEMMA OneMessage ==
  /\ <<>> \in UNION {[1..n -> Message] : n \in 0..1} /\ Range(<<>>) = {} /\ Len(<<>>) = 0
  /\ \A m \in Message :
       /\ <<m>> \in UNION {[1..n -> Message] : n \in 0..1} /\ <<m>> \in Seq(Message)
       /\ Range(<<m>>) = {m} /\ Len(<<m>>) = 1 /\ Head(<<m>>) = m
<1>1. <<>> \in [1..0 -> Message]
  OBVIOUS
<1>2. <<>> \in UNION {[1..n -> Message] : n \in 0..1}
  BY <1>1
<1>3. Range(<<>>) = {} /\ Len(<<>>) = 0
  BY DEF Range
<1>4. ASSUME NEW m \in Message
      PROVE  /\ <<m>> \in UNION {[1..n -> Message] : n \in 0..1} /\ <<m>> \in Seq(Message)
             /\ Range(<<m>>) = {m} /\ Len(<<m>>) = 1 /\ Head(<<m>>) = m
  <2>1. <<m>> \in Seq(Message) /\ Len(<<m>>) = 1 /\ <<m>>[1] = m /\ Head(<<m>>) = m
    OBVIOUS
  <2>2. <<m>> \in [1..1 -> Message] /\ DOMAIN <<m>> = {1}
    OBVIOUS
  <2>3. Range(<<m>>) = {m}
    BY <2>1, <2>2 DEF Range
  <2>. QED  BY <2>1, <2>2, <2>3
<1>. QED  BY <1>2, <1>3, <1>4

LEMMA ThreadHolds ==
  ASSUME Shapes, NEW c \in Consumer
  PROVE  /\ thread[c] \in Seq(Message)
         /\ thread[c] = <<>> \/ \E m \in Message : thread[c] = <<m>>
<1>1. PICK n \in 0..1 : thread[c] \in [1..n -> Message]
  BY DEF Shapes, TypeOK
<1>2. CASE n = 0
  <2>1. thread[c] = <<>>
    BY <1>1, <1>2
  <2>. QED  BY <2>1
<1>3. CASE n = 1
  <2>1. thread[c][1] \in Message /\ thread[c] = <<thread[c][1]>>
    BY <1>1, <1>3
  <2>. QED  BY <2>1, OneMessage
<1>. QED  BY <1>2, <1>3

-----------------------------------------------------------------------------
(* Messages on their way.                                                  *)

LEMMA LoadTyped ==
  ASSUME Shapes, NEW c \in Consumer
  PROVE  /\ settled[c] \in Nat /\ queue[c] \in Seq(Message) /\ thread[c] \in Seq(Message)
         /\ Len(queue[c]) \in Nat /\ Len(thread[c]) \in Nat /\ Load(c) \in Nat
         /\ DOMAIN settled = Consumer /\ DOMAIN queue = Consumer /\ DOMAIN thread = Consumer
         /\ DOMAIN encoder = Consumer
<1>1. settled[c] \in Frame /\ DOMAIN settled = Consumer
  BY DEF Shapes, TypeOK
<1>2. settled[c] \in Nat
  BY <1>1 DEF Frame
<1>3. queue[c] \in Seq(Message) /\ DOMAIN queue = Consumer
  BY DEF Shapes
<1>4. thread[c] \in Seq(Message)
  BY ThreadHolds
<1>5. Len(queue[c]) \in Nat /\ Len(thread[c]) \in Nat
  BY <1>3, <1>4, LenProperties
<1>6. DOMAIN thread = Consumer /\ DOMAIN encoder = Consumer
  BY DEF Shapes, TypeOK
<1>. QED  BY <1>1, <1>2, <1>3, <1>4, <1>5, <1>6 DEF Load

\* A frame is settled.
LEMMA SettleLoad ==
  ASSUME Shapes, NEW c \in Consumer, Settle(c), UNCHANGED <<queue, thread>>
  PROVE  /\ settled' \in [Consumer -> Nat]
         /\ Load(c)' = Load(c) + 1
         /\ \A d \in Consumer : d # c => Load(d)' = Load(d)
<1>1. settled' = [settled EXCEPT ![c] = settled[c] + 1]
  BY DEF Settle
<1>2. \A d \in Consumer : settled[d] \in Nat /\ DOMAIN settled = Consumer
  BY LoadTyped
<1>3. settled \in [Consumer -> Nat]
  BY <1>2 DEF Shapes, TypeOK
<1>4. /\ settled' \in [Consumer -> Nat] /\ settled'[c] = settled[c] + 1
      /\ \A d \in Consumer : d # c => settled'[d] = settled[d]
  BY <1>1, <1>3
<1>5. queue' = queue /\ thread' = thread
  OBVIOUS
<1>6. \A d \in Consumer : Load(d)' = settled'[d] + Len(queue[d]) + Len(thread[d])
  BY <1>5 DEF Load
<1>7. Load(c)' = Load(c) + 1
  <2>1. settled[c] \in Nat /\ Len(queue[c]) \in Nat /\ Len(thread[c]) \in Nat
    BY LoadTyped
  <2>2. Load(c)' = (settled[c] + 1) + Len(queue[c]) + Len(thread[c])
    BY <1>4, <1>6
  <2>3. Load(c) = settled[c] + Len(queue[c]) + Len(thread[c])
    BY DEF Load
  <2>. QED  BY <2>1, <2>2, <2>3
<1>8. ASSUME NEW d \in Consumer, d # c
      PROVE  Load(d)' = Load(d)
  BY <1>4, <1>6, <1>8 DEF Load
<1>. QED  BY <1>4, <1>7, <1>8

\* What an output is offered it takes, or skips.
LEMMA OfferFlow ==
  ASSUME Shapes, NEW c \in Consumer, NEW m \in Message, Offer(c, m), UNCHANGED thread
  PROVE  /\ queue' \in [Consumer -> Seq(Message)]
         /\ \A d \in Consumer : Len(queue'[d]) =< Bound[d]
         /\ settled' \in [Consumer -> Nat]
         /\ Load(c)' = Load(c) + 1
         /\ \A d \in Consumer : d # c => Load(d)' = Load(d) /\ Waiting(d)' = Waiting(d)
         /\ Waiting(c)' \subseteq Waiting(c) \union {m}
<1>0. \A d \in Consumer : Len(queue[d]) =< Bound[d]
  BY DEF Shapes, TypeOK
<1>1. CASE Len(queue[c]) < Bound[c]
  <2>1. queue' = [queue EXCEPT ![c] = Append(queue[c], m)] /\ settled' = settled
    BY <1>1 DEF Offer
  <2>2. queue[c] \in Seq(Message) /\ Len(queue[c]) \in Nat /\ Len(thread[c]) \in Nat
        /\ settled[c] \in Nat
    BY LoadTyped
  <2>3. /\ Append(queue[c], m) \in Seq(Message)
        /\ Len(Append(queue[c], m)) = Len(queue[c]) + 1
    BY <2>2, AppendProperties
  <2>4. queue \in [Consumer -> Seq(Message)]
    BY DEF Shapes
  <2>5. /\ queue' \in [Consumer -> Seq(Message)] /\ queue'[c] = Append(queue[c], m)
        /\ \A d \in Consumer : d # c => queue'[d] = queue[d]
    BY <2>1, <2>3, <2>4
  <2>6. Range(queue'[c]) = Range(queue[c]) \union {m}
    BY <2>2, <2>5, RangeAppend
  <2>7. thread' = thread
    OBVIOUS
  <2>8. Bound[c] \in Nat
    BY BoundsType DEF Bound, Consumer
  <2>9. Len(queue'[c]) = Len(queue[c]) + 1 /\ Len(queue'[c]) =< Bound[c]
    BY <1>1, <2>2, <2>3, <2>5, <2>8
  <2>10. settled' \in [Consumer -> Nat]
    <3>1. \A d \in Consumer : settled[d] \in Nat
      BY LoadTyped
    <3>. QED  BY <2>1, <3>1 DEF Shapes, TypeOK
  <2>11. Load(c)' = Load(c) + 1
    <3>1. Load(c)' = settled[c] + (Len(queue[c]) + 1) + Len(thread[c])
      BY <2>1, <2>7, <2>9, Zenon DEF Load
    <3>2. Load(c) = settled[c] + Len(queue[c]) + Len(thread[c])
      BY DEF Load
    <3>3. \A i, j, k \in Nat : i + (j + 1) + k = (i + j + k) + 1
      OBVIOUS
    <3>4. settled[c] + (Len(queue[c]) + 1) + Len(thread[c])
           = (settled[c] + Len(queue[c]) + Len(thread[c])) + 1
      BY <2>2, <3>3, Zenon
    <3>5. Load(c)' = (settled[c] + Len(queue[c]) + Len(thread[c])) + 1
      BY <3>1, <3>4, Zenon
    <3>. QED  BY <3>2, <3>5, Zenon
  <2>12. \A d \in Consumer : d # c => Load(d)' = Load(d) /\ Waiting(d)' = Waiting(d)
    BY <2>1, <2>5, <2>7 DEF Load, Waiting
  <2>13. Waiting(c)' \subseteq Waiting(c) \union {m}
    BY <2>6, <2>7 DEF Waiting
  <2>14. \A d \in Consumer : Len(queue'[d]) =< Bound[d]
    BY <1>0, <2>5, <2>9
  <2>. QED  BY <2>5, <2>10, <2>11, <2>12, <2>13, <2>14, Zenon
<1>2. CASE ~(Len(queue[c]) < Bound[c])
  <2>1. Settle(c) /\ queue' = queue
    BY <1>2 DEF Offer
  <2>2. UNCHANGED <<queue, thread>>
    BY <2>1
  <2>3. \A d \in Consumer : Waiting(d)' = Waiting(d)
    BY <2>2 DEF Waiting
  <2>4. queue \in [Consumer -> Seq(Message)]
    BY DEF Shapes
  <2>. QED  BY <1>0, <2>1, <2>2, <2>3, <2>4, SettleLoad
<1>. QED  BY <1>1, <1>2

\* A thread takes the oldest message.
LEMMA TakeFlow ==
  ASSUME Shapes, NEW c \in Consumer, Take(c)
  PROVE  /\ queue' \in [Consumer -> Seq(Message)]
         /\ \A d \in Consumer : Len(queue'[d]) =< Bound[d]
         /\ thread' \in [Consumer -> UNION {[1..n -> Message] : n \in 0..1}]
         /\ \A d \in Consumer : Load(d)' = Load(d) /\ Waiting(d)' = Waiting(d)
<1>1. /\ thread[c] = <<>> /\ queue[c] # <<>> /\ settled' = settled
      /\ thread' = [thread EXCEPT ![c] = <<Head(queue[c])>>]
      /\ queue' = [queue EXCEPT ![c] = Tail(queue[c])]
  BY DEF Take
<1>2. queue[c] \in Seq(Message)
  BY LoadTyped
<1>3. /\ Range(queue[c]) = {Head(queue[c])} \union Range(Tail(queue[c]))
      /\ Head(queue[c]) \in Message /\ Tail(queue[c]) \in Seq(Message)
      /\ Len(queue[c]) \in Nat \ {0} /\ Len(Tail(queue[c])) = Len(queue[c]) - 1
  BY <1>1, <1>2, RangeHead
<1>4. queue \in [Consumer -> Seq(Message)]
      /\ thread \in [Consumer -> UNION {[1..n -> Message] : n \in 0..1}]
  BY DEF Shapes, TypeOK
<1>5. /\ queue' \in [Consumer -> Seq(Message)] /\ queue'[c] = Tail(queue[c])
      /\ \A d \in Consumer : d # c => queue'[d] = queue[d]
  BY <1>1, <1>3, <1>4
<1>6. /\ <<Head(queue[c])>> \in UNION {[1..n -> Message] : n \in 0..1}
      /\ Range(<<Head(queue[c])>>) = {Head(queue[c])} /\ Len(<<Head(queue[c])>>) = 1
      /\ Range(<<>>) = {} /\ Len(<<>>) = 0
  BY <1>3, OneMessage
<1>7. /\ thread' \in [Consumer -> UNION {[1..n -> Message] : n \in 0..1}]
      /\ thread'[c] = <<Head(queue[c])>>
      /\ \A d \in Consumer : d # c => thread'[d] = thread[d]
  BY <1>1, <1>4, <1>6
<1>8. \A d \in Consumer : Len(queue[d]) =< Bound[d]
  BY DEF Shapes, TypeOK
<1>9. Len(queue'[c]) =< Bound[c]
  <2>1. Bound[c] \in Nat /\ Len(queue[c]) =< Bound[c]
    BY <1>8, BoundsType DEF Bound, Consumer
  <2>. QED  BY <1>3, <1>5, <2>1
<1>10. Load(c)' = Load(c)
  <2>1. settled[c] \in Nat
    BY LoadTyped
  <2>2. Load(c)' = settled[c] + (Len(queue[c]) - 1) + 1
    BY <1>1, <1>3, <1>5, <1>6, <1>7 DEF Load
  <2>3. Load(c) = settled[c] + Len(queue[c]) + 0
    BY <1>1, <1>6 DEF Load
  <2>. QED  BY <1>3, <2>1, <2>2, <2>3
<1>11. Waiting(c)' = Waiting(c)
  <2>1. Waiting(c)' = Range(Tail(queue[c])) \union {Head(queue[c])}
    BY <1>5, <1>6, <1>7 DEF Waiting
  <2>2. Waiting(c) = Range(queue[c])
    BY <1>1, <1>6 DEF Waiting
  <2>. QED  BY <1>3, <2>1, <2>2
<1>12. \A d \in Consumer : d # c => Load(d)' = Load(d) /\ Waiting(d)' = Waiting(d)
  BY <1>1, <1>5, <1>7 DEF Load, Waiting
<1>13. \A d \in Consumer : Len(queue'[d]) =< Bound[d]
  BY <1>5, <1>8, <1>9
<1>. QED  BY <1>5, <1>7, <1>10, <1>11, <1>12, <1>13

\* A thread is done with its message, whatever became of it.
LEMMA DoneFlow ==
  ASSUME Shapes, NEW c \in Consumer, thread[c] # <<>>, Settle(c), UNCHANGED queue,
         thread' = [thread EXCEPT ![c] = <<>>]
  PROVE  /\ thread' \in [Consumer -> UNION {[1..n -> Message] : n \in 0..1}]
         /\ settled' \in [Consumer -> Nat]
         /\ Head(thread[c]) \in Message /\ Head(thread[c]) \in Waiting(c)
         /\ \A d \in Consumer : Load(d)' = Load(d) /\ Waiting(d)' \subseteq Waiting(d)
<1>1. PICK m \in Message : thread[c] = <<m>>
  BY ThreadHolds
<1>2. Range(<<m>>) = {m} /\ Len(<<m>>) = 1 /\ Head(<<m>>) = m
      /\ <<>> \in UNION {[1..n -> Message] : n \in 0..1} /\ Range(<<>>) = {} /\ Len(<<>>) = 0
  BY OneMessage
<1>3. thread \in [Consumer -> UNION {[1..n -> Message] : n \in 0..1}]
  BY DEF Shapes, TypeOK
<1>4. /\ thread' \in [Consumer -> UNION {[1..n -> Message] : n \in 0..1}]
      /\ thread'[c] = <<>>
      /\ \A d \in Consumer : d # c => thread'[d] = thread[d]
  BY <1>2, <1>3
<1>5. settled \in [Consumer -> Nat]
  <2>1. \A d \in Consumer : settled[d] \in Nat
    BY LoadTyped
  <2>. QED  BY <2>1 DEF Shapes, TypeOK
<1>6. settled' = [settled EXCEPT ![c] = settled[c] + 1]
  BY DEF Settle
<1>7. /\ settled' \in [Consumer -> Nat] /\ settled'[c] = settled[c] + 1
      /\ \A d \in Consumer : d # c => settled'[d] = settled[d]
  BY <1>5, <1>6
<1>8. queue' = queue
  OBVIOUS
<1>9. Load(c)' = Load(c)
  <2>1. settled[c] \in Nat /\ Len(queue[c]) \in Nat
    BY LoadTyped
  <2>2. Load(c)' = (settled[c] + 1) + Len(queue[c]) + 0
    BY <1>2, <1>4, <1>7, <1>8 DEF Load
  <2>3. Load(c) = settled[c] + Len(queue[c]) + 1
    BY <1>1, <1>2 DEF Load
  <2>. QED  BY <2>1, <2>2, <2>3
<1>10. Waiting(c) = Range(queue[c]) \union {m} /\ Waiting(c)' = Range(queue[c])
  BY <1>1, <1>2, <1>4, <1>8 DEF Waiting
<1>11. \A d \in Consumer : d # c => Load(d)' = Load(d) /\ Waiting(d)' = Waiting(d)
  BY <1>4, <1>7, <1>8 DEF Load, Waiting
<1>12. \A d \in Consumer : Load(d)' = Load(d) /\ Waiting(d)' \subseteq Waiting(d)
  BY <1>9, <1>10, <1>11
<1>. QED  BY <1>1, <1>2, <1>4, <1>7, <1>10, <1>12

-----------------------------------------------------------------------------
(* The GPU.                                                                *)

LEMMA GpuTyped ==
  ASSUME Shapes
  PROVE  /\ gpu \in Seq(Draws) /\ Len(gpu) \in Nat /\ DOMAIN gpu = 1..Len(gpu)
         /\ picture \in [Targets -> Frame]
<1>1. gpu \in Seq(Draws) /\ picture \in [Targets -> Frame]
  BY DEF Shapes, TypeOK, Draws, Targets
<1>. QED  BY <1>1, LenProperties

\* A draw decides what its target will show, and nothing else's.
LEMMA DrawShows ==
  ASSUME Shapes, NEW t \in Targets, NEW f \in Frame, UNCHANGED picture,
         gpu' = Append(gpu, [target |-> t, frame |-> f])
  PROVE  /\ WillShow(t, f)'
         /\ \A s, g : s # t /\ Shows(s, g) => Shows(s, g)'
         /\ \A s, g : s # t /\ WillShow(s, g) => WillShow(s, g)'
         /\ gpu' \in Seq(Draws) /\ Len(gpu') = Len(gpu) + 1
<1>. DEFINE d == [target |-> t, frame |-> f]
<1>1. d \in Draws /\ d.target = t /\ d.frame = f
  BY DEF Draws
<1>. HIDE DEF d
<1>2. gpu \in Seq(Draws) /\ Len(gpu) \in Nat /\ DOMAIN gpu = 1..Len(gpu)
  BY GpuTyped
<1>3. /\ gpu' \in Seq(Draws) /\ Len(gpu') = Len(gpu) + 1
      /\ \A i \in 1..Len(gpu) : gpu'[i] = gpu[i]
      /\ gpu'[Len(gpu) + 1] = d
  BY <1>1, <1>2, AppendProperties DEF d
<1>4. DOMAIN gpu' = 1..Len(gpu) + 1
  BY <1>2, <1>3, LenProperties
<1>5. /\ Len(gpu) + 1 \in 1..Len(gpu) + 1
      /\ \A j \in 1..Len(gpu) + 1 : ~(j > Len(gpu) + 1)
      /\ \A j \in 1..Len(gpu) + 1 : j = Len(gpu) + 1 \/ j \in 1..Len(gpu)
      /\ \A j \in 1..Len(gpu) : j \in 1..Len(gpu) + 1
  BY <1>2
<1>6. WillShow(t, f)'
  <2>1. \E i \in DOMAIN gpu' :
          /\ gpu'[i].target = t /\ gpu'[i].frame = f
          /\ \A j \in DOMAIN gpu' : j > i => gpu'[j].target # t
    BY <1>1, <1>3, <1>4, <1>5, Zenon
  <2>. QED  BY <2>1, Zenon DEF WillShow
<1>7. ASSUME NEW s, NEW g, s # t, Shows(s, g)
      PROVE  Shows(s, g)'
  <2>1. \A i \in 1..Len(gpu) : gpu[i].target # s
    BY <1>2, <1>7, Zenon DEF Shows
  <2>2. picture[s] = g
    BY <1>7, Zenon DEF Shows
  <2>3. \A i \in DOMAIN gpu' : gpu'[i].target # s
    BY <1>1, <1>3, <1>4, <1>5, <1>7, <2>1, Zenon
  <2>4. picture'[s] = g
    BY <2>2
  <2>. QED  BY <2>3, <2>4, Zenon DEF Shows
<1>8. ASSUME NEW s, NEW g, s # t, WillShow(s, g)
      PROVE  WillShow(s, g)'
  <2>1. CASE Shows(s, g)
    BY <1>7, <1>8, <2>1, Zenon DEF WillShow
  <2>2. CASE \E i \in DOMAIN gpu :
               /\ gpu[i].target = s /\ gpu[i].frame = g
               /\ \A j \in DOMAIN gpu : j > i => gpu[j].target # s
    <3>1. PICK i \in 1..Len(gpu) :
            /\ gpu[i].target = s /\ gpu[i].frame = g
            /\ \A j \in 1..Len(gpu) : j > i => gpu[j].target # s
      BY <1>2, <2>2, Zenon
    <3>2. \A j \in DOMAIN gpu' : j > i => gpu'[j].target # s
      BY <1>1, <1>3, <1>4, <1>5, <1>8, <3>1, Zenon
    <3>3. i \in DOMAIN gpu' /\ gpu'[i].target = s /\ gpu'[i].frame = g
      BY <1>3, <1>4, <1>5, <3>1, Zenon
    <3>. QED  BY <3>2, <3>3, Zenon DEF WillShow
  <2>. QED  BY <1>8, <2>1, <2>2, Zenon DEF WillShow
<1>. QED  BY <1>3, <1>6, <1>7, <1>8, Zenon

\* A completed draw leaves what every target will show.
LEMMA CompletedShows ==
  ASSUME Shapes, GpuCompletes
  PROVE  /\ \A s \in Targets : \A g : Shows(s, g) => Shows(s, g)'
         /\ \A s \in Targets : \A g : WillShow(s, g) => WillShow(s, g)'
         /\ gpu' \in Seq(Draws) /\ Len(gpu') =< Len(gpu)
         /\ picture' \in [Targets -> Frame]
<1>1. /\ gpu # <<>> /\ gpu' = Tail(gpu)
      /\ picture' = [picture EXCEPT ![Head(gpu).target] = Head(gpu).frame]
  BY DEF GpuCompletes
<1>2. /\ gpu \in Seq(Draws) /\ Len(gpu) \in Nat /\ DOMAIN gpu = 1..Len(gpu)
      /\ picture \in [Targets -> Frame]
  BY GpuTyped
<1>3. /\ Head(gpu) \in Draws /\ Head(gpu) = gpu[1]
      /\ gpu' \in Seq(Draws) /\ Len(gpu') = Len(gpu) - 1
      /\ \A i \in 1..Len(gpu') : gpu'[i] = gpu[i + 1]
  BY <1>1, <1>2, HeadTailProperties
<1>4. DOMAIN gpu' = 1..Len(gpu) - 1 /\ Len(gpu) # 0
  BY <1>1, <1>2, <1>3, LenProperties, EmptySeq
<1>5. /\ 1 \in 1..Len(gpu)
      /\ \A i \in 1..Len(gpu) - 1 : i + 1 \in 1..Len(gpu) /\ i + 1 > 1
      /\ \A i \in 1..Len(gpu) : i # 1 => i - 1 \in 1..Len(gpu) - 1 /\ (i - 1) + 1 = i
      /\ \A i \in 1..Len(gpu), j \in 1..Len(gpu) - 1 : j > i - 1 => j + 1 > i
  BY <1>2, <1>4
<1>6. \A i \in 1..Len(gpu) - 1 : gpu'[i] = gpu[i + 1]
  BY <1>3, Zenon
<1>7. /\ Head(gpu).target \in Targets /\ Head(gpu).frame \in Frame
  BY <1>3 DEF Draws
<1>8. /\ picture' \in [Targets -> Frame]
      /\ picture'[Head(gpu).target] = Head(gpu).frame
      /\ \A s \in Targets : s # Head(gpu).target => picture'[s] = picture[s]
  BY <1>1, <1>2, <1>7
<1>9. ASSUME NEW s \in Targets, NEW g, Shows(s, g)
      PROVE  Shows(s, g)'
  <2>1. (\A i \in 1..Len(gpu) : gpu[i].target # s) /\ picture[s] = g
    BY <1>2, <1>9, Zenon DEF Shows
  <2>2. s # Head(gpu).target
    BY <1>3, <1>5, <2>1, Zenon
  <2>3. \A i \in DOMAIN gpu' : gpu'[i].target # s
    BY <1>4, <1>5, <1>6, <2>1, Zenon
  <2>4. picture'[s] = g
    BY <1>8, <2>1, <2>2, Zenon
  <2>. QED  BY <2>3, <2>4, Zenon DEF Shows
<1>10. ASSUME NEW s \in Targets, NEW g, WillShow(s, g)
       PROVE  WillShow(s, g)'
  <2>1. CASE Shows(s, g)
    BY <1>9, <2>1, Zenon DEF WillShow
  <2>2. CASE \E i \in DOMAIN gpu :
               /\ gpu[i].target = s /\ gpu[i].frame = g
               /\ \A j \in DOMAIN gpu : j > i => gpu[j].target # s
    <3>1. PICK i \in 1..Len(gpu) :
            /\ gpu[i].target = s /\ gpu[i].frame = g
            /\ \A j \in 1..Len(gpu) : j > i => gpu[j].target # s
      BY <1>2, <2>2, Zenon
    <3>2. CASE i = 1
      <4>1. \A k \in 1..Len(gpu) - 1 : gpu[k + 1].target # s
        BY <1>5, <3>1, <3>2, Zenon
      <4>2. \A k \in DOMAIN gpu' : gpu'[k].target # s
        BY <1>4, <1>6, <4>1, Zenon
      <4>3. picture'[s] = g
        BY <1>3, <1>8, <3>1, <3>2, Zenon
      <4>. QED  BY <4>2, <4>3, Zenon DEF WillShow, Shows
    <3>3. CASE i # 1
      <4>1. i - 1 \in 1..Len(gpu) - 1 /\ (i - 1) + 1 = i
        BY <1>5, <3>3
      <4>2. gpu'[i - 1].target = s /\ gpu'[i - 1].frame = g
        <5>1. gpu'[i - 1] = gpu[i]
          BY <1>6, <4>1
        <5>. QED  BY <3>1, <5>1
      <4>3. \A k \in DOMAIN gpu' : k > i - 1 => gpu'[k].target # s
        BY <1>4, <1>5, <1>6, <3>1, Zenon
      <4>. QED  BY <1>4, <4>1, <4>2, <4>3, Zenon DEF WillShow
    <3>. QED  BY <3>2, <3>3
  <2>. QED  BY <1>10, <2>1, <2>2, Zenon DEF WillShow
<1>11. Len(gpu') =< Len(gpu)
  BY <1>2, <1>3
<1>. QED  BY <1>3, <1>8, <1>9, <1>10, <1>11, Zenon

\* Who has waited for a draw sees it.
LEMMA DrawnShows ==
  ASSUME NEW m, Drawn(m), WillShow(m.surface, m.frame)
  PROVE  Shows(m.surface, m.frame)
  BY Zenon DEF Drawn, WillShow

LEMMA ShowsIsShown ==
  ASSUME NEW t, NEW f, gpu = <<>>, WillShow(t, f)
  PROVE  picture[t] = f
<1>1. DOMAIN gpu = {}
  OBVIOUS
<1>. QED  BY <1>1, Zenon DEF WillShow, Shows

\* With targets and draws untouched, each shows what it did.
LEMMA PictureStands ==
  ASSUME UNCHANGED <<gpu, picture>>
  PROVE  \A s, g : (Shows(s, g)' <=> Shows(s, g)) /\ (WillShow(s, g)' <=> WillShow(s, g))
<1>1. \A s, g : Shows(s, g)' <=> Shows(s, g)
  BY DEF Shows
<1>. QED  BY <1>1 DEF WillShow

-----------------------------------------------------------------------------
(* The steps.                                                              *)

LEMMA ShapesKept ==
  ASSUME Shapes, AccountInv', setup' = setup, frame' \in Frame, newest' \in Frame,
         tick' \in Ticks,
         tick'.at = "loan" => tick'.candidate \in Shared,
         tick'.at = "own" => tick'.candidate \in Own,
         gpu' \in Seq(Draws), Len(gpu') =< MaxPending, picture' \in [Targets -> Frame],
         queue' \in [Consumer -> Seq(Message)],
         \A c \in Consumer : Len(queue'[c]) =< Bound[c],
         thread' \in [Consumer -> UNION {[1..n -> Message] : n \in 0..1}],
         encoder' \in [Consumer -> SUBSET Reading],
         \A c \in Consumer :
           IsFiniteSet(encoder'[c]) /\ Cardinality(encoder'[c]) =< EncoderBacklog,
         settled' \in [Consumer -> Nat]
  PROVE  Shapes'
<1>1. settled' \in [Consumer -> Frame]
  <2>1. ASSUME NEW c \in Consumer
        PROVE  settled'[c] \in Frame
    <3>1. queue'[c] \in Seq(Message) /\ Len(queue'[c]) \in Nat /\ settled'[c] \in Nat
      BY LenProperties
    <3>2. Len(thread'[c]) \in Nat
      <4>1. PICK n \in 0..1 : thread'[c] \in [1..n -> Message]
        OBVIOUS
      <4>2. Len(thread'[c]) = n
        BY <4>1
      <4>. QED  BY <4>2
    <3>3. Load(c)' = settled'[c] + Len(queue'[c]) + Len(thread'[c])
      BY DEF Load
    <3>4. frame' \in 0..MaxFrame /\ MaxFrame \in Nat
      BY LimitsType DEF Frame
    <3>5. (Load(c) + (IF Owes(c) THEN 1 ELSE 0) =< frame)'
      BY DEF AccountInv
    <3>6. settled'[c] \in 0..MaxFrame
      BY <3>1, <3>2, <3>3, <3>4, <3>5
    <3>. QED  BY <3>6 DEF Frame
  <2>. QED  BY <2>1
<1>2. setup \in Setups
  BY DEF Shapes, TypeOK
<1>3. \A c \in Consumer : encoder'[c] \subseteq [surface : Surface, frame : Frame]
  BY DEF Reading
<1>. QED  BY <1>1, <1>2, <1>3 DEF Shapes, TypeOK, Ticks, Draws, Targets

\* What holds of the types before a step, in the same words.
LEMMA ShapesNow ==
  ASSUME Shapes
  PROVE  /\ setup \in [record : {"off", "zeroCopy", "cpuReadback"}, stream : BOOLEAN]
         /\ frame \in Frame /\ newest \in Frame /\ frame \in Nat
         /\ tick \in Ticks
         /\ gpu \in Seq(Draws) /\ Len(gpu) =< MaxPending /\ picture \in [Targets -> Frame]
         /\ queue \in [Consumer -> Seq(Message)]
         /\ \A c \in Consumer : Len(queue[c]) =< Bound[c]
         /\ thread \in [Consumer -> UNION {[1..n -> Message] : n \in 0..1}]
         /\ encoder \in [Consumer -> SUBSET Reading]
         /\ \A c \in Consumer :
              IsFiniteSet(encoder[c]) /\ Cardinality(encoder[c]) =< EncoderBacklog
         /\ settled \in [Consumer -> Nat]
<1>1. \A c \in Consumer : settled[c] \in Nat
  BY LoadTyped
<1>2. settled \in [Consumer -> Nat]
  BY <1>1 DEF Shapes, TypeOK
<1>3. frame \in Frame /\ frame \in Nat
  BY LimitsType DEF Shapes, TypeOK, Frame
<1>4. setup \in [record : {"off", "zeroCopy", "cpuReadback"}, stream : BOOLEAN]
  BY SetupsType DEF Shapes, TypeOK
<1>5. gpu \in Seq(Draws) /\ picture \in [Targets -> Frame]
  BY GpuTyped
<1>6. tick \in Ticks
  BY DEF Shapes, TypeOK, Ticks
<1>. QED  BY <1>2, <1>3, <1>4, <1>5, <1>6 DEF Shapes, TypeOK

\* A part of the tick that only looks for a surface.
Looking ==
  UNCHANGED <<setup, newest, gpu, picture, queue, thread, encoder>>

LEMMA LookingKeeps ==
  ASSUME Shapes, MessageInv, EncoderInv, Looking
  PROVE  /\ MessageInv' /\ EncoderInv'
         /\ \A c \in Consumer : Waiting(c)' = Waiting(c)
         /\ \A s : Unowned(s)' <=> Unowned(s)
         /\ \A s : EncoderHas(s)' <=> EncoderHas(s)
         /\ \A s, g : WillShow(s, g)' <=> WillShow(s, g)
         /\ CopyIsCurrent' <=> CopyIsCurrent
<1>1. UNCHANGED <<gpu, picture>> /\ queue' = queue /\ thread' = thread /\ encoder' = encoder
  BY DEF Looking
<1>2. \A s, g : (Shows(s, g)' <=> Shows(s, g)) /\ (WillShow(s, g)' <=> WillShow(s, g))
  BY <1>1, PictureStands
<1>3. \A c \in Consumer : Waiting(c)' = Waiting(c)
  BY <1>1 DEF Waiting
<1>4. MessageInv'
  BY <1>2, <1>3, Zenon DEF MessageInv
<1>5. EncoderInv'
  BY <1>1, <1>2, Zenon DEF EncoderInv
<1>6. \A s : Unowned(s)' <=> Unowned(s)
  BY <1>3, Zenon DEF Unowned
<1>7. \A s : EncoderHas(s)' <=> EncoderHas(s)
  BY <1>1, Zenon DEF EncoderHas
<1>8. CopyIsCurrent' <=> CopyIsCurrent
  BY <1>1 DEF CopyIsCurrent
<1>. QED  BY <1>2, <1>3, <1>4, <1>5, <1>6, <1>7, <1>8, Zenon

\* A take that is read back: the tick has no surface, before and after.
LEMMA LookingCopies ==
  ASSUME Shapes, MessageInv, EncoderInv, CopyInv, Looking,
         setup.record = "cpuReadback" /\ ~setup.stream =>
           tick'.at \notin {"loan", "own"} /\ tick'.loan = View /\ tick'.own = View
  PROVE  CopyInv'
<1>1. /\ \A c \in Consumer : Waiting(c)' = Waiting(c)
      /\ \A s, g : WillShow(s, g)' <=> WillShow(s, g)
      /\ CopyIsCurrent' <=> CopyIsCurrent
  BY LookingKeeps
<1>2. setup' = setup /\ newest' = newest
  BY DEF Looking
<1>3. "record" \in Consumer
  BY DEF Consumer
<1>. QED  BY <1>1, <1>2, <1>3 DEF CopyInv

\* Settle, seen from its parts: nothing else of the outputs moves.
LEMMA LookingSettles ==
  ASSUME Shapes, NEW c \in Consumer, Settle(c), Looking
  PROVE  /\ settled' \in [Consumer -> Nat]
         /\ Load(c)' = Load(c) + 1
         /\ \A d \in Consumer : d # c => Load(d)' = Load(d)
<1>1. UNCHANGED <<queue, thread>>
  BY DEF Looking
<1>. QED  BY <1>1, SettleLoad

LEMMA LookingLoads ==
  ASSUME Shapes, UNCHANGED settled, Looking
  PROVE  settled' \in [Consumer -> Nat] /\ \A d \in Consumer : Load(d)' = Load(d)
<1>1. queue' = queue /\ thread' = thread /\ settled' = settled
  BY DEF Looking
<1>. QED  BY <1>1, ShapesNow DEF Load

LEMMA LookingShapes ==
  ASSUME Shapes, AccountInv', Looking, frame' \in Frame, tick' \in Ticks,
         tick'.at = "loan" => tick'.candidate \in Shared,
         tick'.at = "own" => tick'.candidate \in Own,
         settled' \in [Consumer -> Nat]
  PROVE  Shapes'
<1>1. /\ setup' = setup /\ newest' = newest /\ gpu' = gpu /\ picture' = picture
      /\ queue' = queue /\ thread' = thread /\ encoder' = encoder
  BY DEF Looking
<1>. QED  BY <1>1, ShapesNow, ShapesKept

\* acquire's choice is a surface of the pool that no message refers to.
LEMMA ScanFinds ==
  ASSUME NEW pool, pool \subseteq Nat \ {0},
         NEW left, left = {s \in pool : s > tick.candidate /\ LetGo(1, s)}, left # {}
  PROVE  Min(left) \in pool /\ Unowned(Min(left))
<1>1. left \subseteq Nat
  OBVIOUS
<1>2. Min(left) \in left
  BY <1>1, LeastExists
<1>3. Min(left) \in pool /\ ~Owned(Min(left))
  BY <1>2, Zenon DEF LetGo
<1>4. ASSUME NEW s, ~Owned(s)
      PROVE  Unowned(s)
  BY <1>4, Zenon DEF Owned, Unowned, Waiting
<1>. QED  BY <1>3, <1>4, Zenon

LEMMA LoanScanKeeps == TapInv /\ LoanScan => TapInv'
<1>. SUFFICES ASSUME TapInv, LoanScan
     PROVE  TapInv'
  OBVIOUS
<1>. USE DEF TapInv
<1>1. /\ setup.record = "zeroCopy" /\ Looking
      /\ \/ tick.at = "idle" /\ frame < MaxFrame /\ frame' = frame + 1
         \/ tick.at = "loan" /\ frame' = frame
  BY DEF LoanScan, Looking, outputVars
<1>2. tick \in Ticks /\ frame \in Frame /\ frame \in Nat
  BY ShapesNow
<1>3. frame' \in Frame /\ frame' \in Nat
  BY <1>1, <1>2, LimitsType DEF Frame
<1>4. MessageInv' /\ EncoderInv'
  BY <1>1, LookingKeeps
<1>5. \A d \in Consumer : Load(d) \in Nat /\ Load(d) + (IF Owes(d) THEN 1 ELSE 0) =< frame
  BY LoadTyped DEF AccountInv
<1>6. \A d \in Consumer : (tick.at = "idle" => ~Owes(d)) /\ (tick.at = "loan" => Owes(d))
  BY DEF Owes
<1>7. \A d \in Consumer : Load(d) + 1 =< frame'
  BY <1>1, <1>2, <1>5, <1>6
<1>8. setup' = setup
  BY <1>1 DEF Looking
<1>. DEFINE left == {s \in Shared : s > tick.candidate /\ LetGo(1, s)}
<1>9. CASE left # {}
  <2>1. tick' = [tick EXCEPT !.at = "loan", !.candidate = Min(left)] /\ settled' = settled
    BY <1>9 DEF LoanScan, Scan
  <2>2. PICK s \in Shared : s = Min(left) /\ Unowned(s)
    BY <1>9, Pools, ScanFinds
  <2>. HIDE DEF left
  <2>3. /\ tick' \in Ticks /\ tick'.at = "loan" /\ tick'.candidate = s
        /\ tick'.drew = tick.drew
    BY <1>2, <2>1, <2>2, Pools DEF Ticks
  <2>4. settled' \in [Consumer -> Nat] /\ \A d \in Consumer : Load(d)' = Load(d)
    BY <1>1, <2>1, LookingLoads
  <2>5. AccountInv'
    <3>1. ASSUME NEW d \in Consumer
          PROVE  (Load(d) + (IF Owes(d) THEN 1 ELSE 0))' =< frame'
      BY <1>2, <1>3, <1>5, <1>7, <2>4
    <3>. QED  BY <3>1 DEF AccountInv
  <2>6. Shapes'
    BY <1>1, <1>3, <2>2, <2>3, <2>4, <2>5, LookingShapes
  <2>7. TickInv'
    <3>1. Unowned(s)'
      BY <1>1, <2>2, LookingKeeps
    <3>2. tick.drew = FALSE
      BY <1>1, <1>2 DEF TickInv, Ticks
    <3>. QED  BY <2>3, <3>1, <3>2 DEF TickInv
  <2>8. CopyInv'
    BY <1>1, LookingCopies
  <2>. QED  BY <1>4, <2>5, <2>6, <2>7, <2>8
<1>10. CASE left = {}
  <2>1. tick' = [Idle EXCEPT !.at = "stream"] /\ Settle("record")
    BY <1>10 DEF LoanScan, Scan
  <2>2. /\ tick' \in Ticks /\ tick'.at = "stream" /\ tick'.loan = View
        /\ tick'.drew = FALSE
    BY <2>1 DEF Ticks, Idle
  <2>3. "record" \in Consumer
    BY DEF Consumer
  <2>4. /\ settled' \in [Consumer -> Nat] /\ Load("record")' = Load("record") + 1
        /\ \A d \in Consumer : d # "record" => Load(d)' = Load(d)
    BY <1>1, <2>1, <2>3, LookingSettles
  <2>5. AccountInv'
    <3>1. ~Owes("record")'
      BY <1>1, <1>8, <2>2 DEF Owes
    <3>2. ASSUME NEW d \in Consumer
          PROVE  (Load(d) + (IF Owes(d) THEN 1 ELSE 0))' =< frame'
      <4>1. CASE d = "record"
        BY <1>5, <1>7, <2>3, <2>4, <3>1, <4>1
      <4>2. CASE d # "record"
        BY <1>3, <1>5, <1>7, <2>4, <4>2
      <4>. QED  BY <4>1, <4>2
    <3>. QED  BY <3>2 DEF AccountInv
  <2>6. Shapes'
    BY <1>1, <1>3, <2>2, <2>4, <2>5, LookingShapes
  <2>7. TickInv'
    BY <2>2 DEF TickInv
  <2>8. CopyInv'
    BY <1>1, LookingCopies
  <2>. QED  BY <1>4, <2>5, <2>6, <2>7, <2>8
<1>. QED  BY <1>9, <1>10

LEMMA OwnScanKeeps == TapInv /\ OwnScan => TapInv'
<1>. SUFFICES ASSUME TapInv, OwnScan
     PROVE  TapInv'
  OBVIOUS
<1>. USE DEF TapInv
<1>1. /\ Looking /\ frame' = frame
      /\ \/ tick.at = "stream" /\ setup.stream
         \/ tick.at = "own"
  BY DEF OwnScan, Looking, outputVars
<1>2. tick \in Ticks /\ frame \in Frame /\ frame \in Nat
  BY ShapesNow
<1>3. MessageInv' /\ EncoderInv'
  BY <1>1, LookingKeeps
<1>4. \A d \in Consumer : Load(d) \in Nat /\ Load(d) + (IF Owes(d) THEN 1 ELSE 0) =< frame
  BY LoadTyped DEF AccountInv
<1>5. setup' = setup /\ frame' \in Frame
  BY <1>1, <1>2 DEF Looking
<1>6. ~(setup.record = "cpuReadback" /\ ~setup.stream)
  BY <1>1 DEF CopyInv
<1>7. CopyInv'
  BY <1>1, <1>6, LookingCopies
<1>8. Consumer = {"record", "stream"}
  BY DEF Consumer
<1>9. Owes("stream")
  BY <1>1 DEF Owes
<1>. DEFINE left == {s \in Own : s > tick.candidate /\ LetGo(1, s)}
<1>10. CASE left # {}
  <2>1. tick' = [tick EXCEPT !.at = "own", !.candidate = Min(left)] /\ settled' = settled
    BY <1>10 DEF OwnScan, Scan
  <2>2. PICK s \in Own : s = Min(left) /\ Unowned(s)
    BY <1>10, Pools, ScanFinds
  <2>. HIDE DEF left
  <2>3. /\ tick' \in Ticks /\ tick'.at = "own" /\ tick'.candidate = s
        /\ tick'.drew = tick.drew /\ tick'.loan = tick.loan
    BY <1>2, <2>1, <2>2, Pools DEF Ticks
  <2>4. settled' \in [Consumer -> Nat] /\ \A d \in Consumer : Load(d)' = Load(d)
    BY <1>1, <2>1, LookingLoads
  <2>5. AccountInv'
    <3>1. Owes("record")' <=> Owes("record")
      BY <1>1, <1>5, <2>3 DEF Owes
    <3>2. Owes("stream")' <=> Owes("stream")
      BY <1>9, <2>3 DEF Owes
    <3>3. \A d \in Consumer : Owes(d)' <=> Owes(d)
      BY <1>8, <3>1, <3>2
    <3>. QED  BY <1>1, <1>4, <2>4, <3>3 DEF AccountInv
  <2>6. Shapes'
    BY <1>1, <1>5, <2>2, <2>3, <2>4, <2>5, LookingShapes
  <2>7. TickInv'
    <3>1. Unowned(s)'
      BY <1>1, <2>2, LookingKeeps
    <3>2. tick.drew = FALSE
      BY <1>1, <1>2 DEF TickInv, Ticks
    <3>. QED  BY <2>3, <3>1, <3>2 DEF TickInv
  <2>. QED  BY <1>3, <1>7, <2>5, <2>6, <2>7
<1>11. CASE left = {}
  <2>1. tick' = [Idle EXCEPT !.at = "draw"] /\ Settle("stream")
    BY <1>11 DEF OwnScan, Scan
  <2>2. /\ tick' \in Ticks /\ tick'.at = "draw" /\ tick'.loan = View /\ tick'.own = View
        /\ tick'.drew = FALSE
    BY <2>1 DEF Ticks, Idle
  <2>3. /\ settled' \in [Consumer -> Nat] /\ Load("stream")' = Load("stream") + 1
        /\ \A d \in Consumer : d # "stream" => Load(d)' = Load(d)
    BY <1>1, <1>8, <2>1, LookingSettles
  <2>4. Target' = View
    BY <2>2 DEF Target
  <2>5. AccountInv'
    <3>1. ~Owes("stream")'
      BY <2>2, <2>4 DEF Owes
    <3>2. Owes("record")' => Owes("record")
      BY <1>1, <1>5, <2>2 DEF Owes
    <3>3. (Load("stream") + (IF Owes("stream") THEN 1 ELSE 0))' =< frame'
      BY <1>1, <1>4, <1>8, <1>9, <2>3, <3>1
    <3>4. (Load("record") + (IF Owes("record") THEN 1 ELSE 0))' =< frame'
      <4>1. /\ Load("record")' = Load("record") /\ Load("record") \in Nat
            /\ Load("record") + (IF Owes("record") THEN 1 ELSE 0) =< frame
        BY <1>4, <1>8, <2>3
      <4>. QED  BY <1>1, <1>2, <3>2, <4>1
    <3>. QED  BY <1>8, <3>3, <3>4 DEF AccountInv
  <2>6. Shapes'
    BY <1>1, <1>5, <2>2, <2>3, <2>5, LookingShapes
  <2>7. TickInv'
    BY <2>2, <2>4 DEF TickInv
  <2>. QED  BY <1>3, <1>7, <2>5, <2>6, <2>7
<1>. QED  BY <1>10, <1>11

\* A tick that takes a surface, or goes without one, settles nothing.
LEMMA TakingKeeps ==
  ASSUME TapInv, Looking, UNCHANGED settled, frame' \in Frame, tick' \in Ticks,
         tick'.at \in {"stream", "draw"}, tick'.drew = FALSE,
         \A d \in Consumer :
           Load(d) + (IF Owes(d)' THEN 1 ELSE 0) =< frame',
         tick'.at = "draw" /\ Target' # View => Unowned(Target)' /\ ~EncoderHas(Target)',
         setup.record = "cpuReadback" /\ ~setup.stream =>
           tick'.loan = View /\ tick'.own = View
  PROVE  TapInv'
<1>. USE DEF TapInv
<1>1. MessageInv' /\ EncoderInv'
  BY LookingKeeps
<1>2. settled' \in [Consumer -> Nat] /\ \A d \in Consumer : Load(d)' = Load(d)
  BY LookingLoads
<1>3. AccountInv'
  BY <1>2, Zenon DEF AccountInv
<1>4. Shapes'
  BY <1>2, <1>3, LookingShapes
<1>5. TickInv'
  BY DEF TickInv
<1>6. CopyInv'
  BY LookingCopies
<1>. QED  BY <1>1, <1>3, <1>4, <1>5, <1>6

LEMMA LoanTakenKeeps == TapInv /\ LoanTaken => TapInv'
<1>. SUFFICES ASSUME TapInv, LoanTaken
     PROVE  TapInv'
  OBVIOUS
<1>1. /\ tick.at = "loan" /\ ~EncoderHas(tick.candidate)
      /\ tick' = [Idle EXCEPT !.at = "draw", !.loan = tick.candidate]
      /\ Looking /\ settled' = settled /\ frame' = frame
  BY DEF LoanTaken, LetGo, Looking, outputVars
<1>2. tick.candidate \in Shared /\ Unowned(tick.candidate)
  BY <1>1 DEF TapInv, Shapes, TickInv
<1>3. PICK s \in Shared : s = tick.candidate
  BY <1>2
<1>4. /\ tick' \in Ticks /\ tick'.at = "draw" /\ tick'.loan = s /\ tick'.own = View
      /\ tick'.drew = FALSE
  BY <1>1, <1>3, Pools DEF Ticks, Idle
<1>5. Target' = s /\ s # View
  BY <1>3, <1>4, Pools DEF Target
<1>6. Unowned(s)' /\ ~EncoderHas(s)'
  BY <1>1, <1>2, <1>3, LookingKeeps DEF TapInv
<1>7. \A d \in Consumer : Load(d) + (IF Owes(d)' THEN 1 ELSE 0) =< frame'
  <2>1. \A d \in Consumer : Owes(d)
    BY <1>1 DEF Owes
  <2>2. \A d \in Consumer : Load(d) \in Nat /\ Load(d) + 1 =< frame
    BY <2>1, LoadTyped DEF TapInv, AccountInv
  <2>3. frame \in Nat /\ frame' = frame
    BY <1>1, ShapesNow DEF TapInv
  <2>. QED  BY <2>2, <2>3
<1>8. Unowned(Target)' /\ ~EncoderHas(Target)'
  BY <1>5, <1>6
<1>9. frame' \in Frame
  BY <1>1, ShapesNow DEF TapInv
<1>10. ~(setup.record = "cpuReadback" /\ ~setup.stream)
  BY <1>1 DEF TapInv, CopyInv
<1>. QED  BY <1>1, <1>4, <1>7, <1>8, <1>9, <1>10, TakingKeeps

LEMMA OwnTakenKeeps == TapInv /\ OwnTaken => TapInv'
<1>. SUFFICES ASSUME TapInv, OwnTaken
     PROVE  TapInv'
  OBVIOUS
<1>1. /\ tick.at = "own" /\ ~EncoderHas(tick.candidate)
      /\ tick' = [Idle EXCEPT !.at = "draw", !.own = tick.candidate]
      /\ Looking /\ settled' = settled /\ frame' = frame
  BY DEF OwnTaken, LetGo, Looking, outputVars
<1>2. tick.candidate \in Own /\ Unowned(tick.candidate)
  BY <1>1 DEF TapInv, Shapes, TickInv
<1>3. PICK s \in Own : s = tick.candidate
  BY <1>2
<1>4. /\ tick' \in Ticks /\ tick'.at = "draw" /\ tick'.loan = View /\ tick'.own = s
      /\ tick'.drew = FALSE
  BY <1>1, <1>3, Pools DEF Ticks, Idle
<1>5. Target' = s /\ s # View
  BY <1>3, <1>4, Pools DEF Target
<1>6. Unowned(s)' /\ ~EncoderHas(s)'
  BY <1>1, <1>2, <1>3, LookingKeeps DEF TapInv
<1>7. \A d \in Consumer : Load(d) + (IF Owes(d)' THEN 1 ELSE 0) =< frame'
  <2>1. \A d \in Consumer : Owes(d)' => Owes(d)
    BY <1>1, <1>4 DEF Owes, Looking
  <2>2. \A d \in Consumer :
          Load(d) \in Nat /\ Load(d) + (IF Owes(d) THEN 1 ELSE 0) =< frame
    BY LoadTyped DEF TapInv, AccountInv
  <2>3. frame \in Nat /\ frame' = frame
    BY <1>1, ShapesNow DEF TapInv
  <2>. QED  BY <2>1, <2>2, <2>3
<1>8. Unowned(Target)' /\ ~EncoderHas(Target)'
  BY <1>5, <1>6
<1>9. frame' \in Frame
  BY <1>1, ShapesNow DEF TapInv
<1>10. ~(setup.record = "cpuReadback" /\ ~setup.stream)
  BY <1>1 DEF TapInv, CopyInv
<1>. QED  BY <1>1, <1>4, <1>7, <1>8, <1>9, <1>10, TakingKeeps

LEMMA NoLoanKeeps == TapInv /\ NoLoan => TapInv'
<1>. SUFFICES ASSUME TapInv, NoLoan
     PROVE  TapInv'
  OBVIOUS
<1>1. /\ tick.at = "idle" /\ frame < MaxFrame /\ frame' = frame + 1
      /\ tick' = [Idle EXCEPT !.at = "stream"]
      /\ Looking /\ settled' = settled
  BY DEF NoLoan, Looking, outputVars
<1>2. /\ tick' \in Ticks /\ tick'.at = "stream" /\ tick'.loan = View /\ tick'.own = View
      /\ tick'.drew = FALSE
  BY <1>1 DEF Ticks, Idle
<1>3. frame \in Frame /\ frame \in Nat
  BY ShapesNow DEF TapInv
<1>4. frame' \in Frame /\ frame' \in Nat
  BY <1>1, <1>3, LimitsType DEF Frame
<1>5. \A d \in Consumer : Load(d) + (IF Owes(d)' THEN 1 ELSE 0) =< frame'
  <2>1. \A d \in Consumer : Load(d) \in Nat /\ Load(d) + (IF Owes(d) THEN 1 ELSE 0) =< frame
    BY LoadTyped DEF TapInv, AccountInv
  <2>. QED  BY <1>1, <1>3, <2>1
<1>. QED  BY <1>1, <1>2, <1>4, <1>5, TakingKeeps

LEMMA NoOwnKeeps == TapInv /\ NoOwn => TapInv'
<1>. SUFFICES ASSUME TapInv, NoOwn
     PROVE  TapInv'
  OBVIOUS
<1>1. /\ tick.at = "stream" /\ frame' = frame
      /\ tick' = [Idle EXCEPT !.at = "draw"]
      /\ Looking /\ settled' = settled
  BY DEF NoOwn, Looking, outputVars
<1>2. /\ tick' \in Ticks /\ tick'.at = "draw" /\ tick'.loan = View /\ tick'.own = View
      /\ tick'.drew = FALSE
  BY <1>1 DEF Ticks, Idle
<1>3. Target' = View
  BY <1>2 DEF Target
<1>4. frame \in Nat /\ frame' \in Frame
  BY <1>1, ShapesNow DEF TapInv
<1>5. \A d \in Consumer : Load(d) + (IF Owes(d)' THEN 1 ELSE 0) =< frame'
  <2>1. \A d \in Consumer : Load(d) \in Nat /\ Load(d) + (IF Owes(d) THEN 1 ELSE 0) =< frame
    BY LoadTyped DEF TapInv, AccountInv
  <2>2. \A d \in Consumer : Owes(d)' => Owes(d)
    BY <1>1, <1>2, <1>3 DEF Owes, Looking
  <2>. QED  BY <1>1, <1>4, <2>1, <2>2
<1>. QED  BY <1>1, <1>2, <1>3, <1>4, <1>5, TakingKeeps

\* A drawn surface is where nobody reads, and will show the tick's frame.
LEMMA DrawKeeps == TapInv /\ Draw => TapInv'
<1>. SUFFICES ASSUME TapInv, Draw
     PROVE  TapInv'
  OBVIOUS
<1>. USE DEF TapInv
<1>1. /\ tick.at = "draw" /\ setup' = setup /\ frame' = frame /\ picture' = picture
      /\ settled' = settled /\ queue' = queue /\ thread' = thread /\ encoder' = encoder
  BY DEF Draw, outputVars
<1>2. tick \in Ticks /\ frame \in Frame /\ newest \in Frame
  BY ShapesNow
<1>3. /\ \A c \in Consumer : Waiting(c)' = Waiting(c)
      /\ \A d \in Consumer : Load(d)' = Load(d)
      /\ CopyIsCurrent' <=> CopyIsCurrent
  BY <1>1 DEF Waiting, Load, CopyIsCurrent
<1>4. "record" \in Consumer
  BY DEF Consumer
<1>5. CASE /\ Len(gpu) < MaxPending
           /\ gpu' = Append(gpu, [target |-> Target, frame |-> frame])
           /\ newest' = frame
           /\ tick' = [tick EXCEPT !.at = "record", !.drew = TRUE]
  <2>1. /\ tick' \in Ticks /\ tick'.at = "record" /\ tick'.loan = tick.loan
        /\ tick'.own = tick.own /\ tick'.drew = TRUE
    BY <1>2, <1>5 DEF Ticks
  <2>2. Target' = Target
    BY <2>1 DEF Target
  <2>3. PICK t \in Targets : t = Target
    BY <1>2, Pools DEF Target, Targets, Ticks
  <2>4. gpu' = Append(gpu, [target |-> t, frame |-> frame])
    BY <1>5, <2>3
  <2>4a. PICK f \in Frame : f = frame
    BY <1>2
  <2>4b. gpu' = Append(gpu, [target |-> t, frame |-> f])
    BY <2>4, <2>4a
  <2>5. /\ WillShow(t, f)'
        /\ \A s, g : s # t /\ Shows(s, g) => Shows(s, g)'
        /\ \A s, g : s # t /\ WillShow(s, g) => WillShow(s, g)'
        /\ gpu' \in Seq(Draws) /\ Len(gpu') = Len(gpu) + 1
    BY <1>1, <2>4b, DrawShows
  <2>6. t # View => Unowned(t) /\ ~EncoderHas(t)
    BY <1>1, <2>3 DEF TickInv
  <2>7. MessageInv'
    <3>1. ASSUME NEW c \in Consumer, NEW m \in Waiting(c), m.surface # View
          PROVE  WillShow(m.surface, m.frame)'
      <4>1. m.surface # t
        BY <2>6, <3>1 DEF Unowned
      <4>2. WillShow(m.surface, m.frame)
        BY <3>1 DEF MessageInv
      <4>. QED  BY <2>5, <4>1, <4>2
    <3>. QED  BY <1>3, <3>1, Zenon DEF MessageInv
  <2>8. EncoderInv'
    <3>1. ASSUME NEW c \in Consumer, NEW e \in encoder[c]
          PROVE  Shows(e.surface, e.frame)'
      <4>1. e.surface \in Surface
        BY <1>1, ShapesNow DEF Reading
      <4>2. e.surface # t
        BY <2>6, <4>1, Pools DEF EncoderHas
      <4>3. Shows(e.surface, e.frame)
        BY <3>1 DEF EncoderInv
      <4>. QED  BY <2>5, <4>2, <4>3
    <3>. QED  BY <1>1, <3>1, Zenon DEF EncoderInv
  <2>9. WillShow(Target, frame)'
    BY <1>1, <2>2, <2>3, <2>4a, <2>5
  <2>10. TickInv'
    BY <2>1, <2>9 DEF TickInv
  <2>11. AccountInv'
    <3>1. \A d \in Consumer : Owes(d)' => Owes(d)
      BY <1>1, <2>1, <2>2 DEF Owes
    <3>2. \A d \in Consumer : Load(d) \in Nat
                              /\ Load(d) + (IF Owes(d) THEN 1 ELSE 0) =< frame
      BY LoadTyped DEF AccountInv
    <3>3. frame \in Nat
      BY ShapesNow
    <3>4. \A d \in Consumer : Load(d) + (IF Owes(d)' THEN 1 ELSE 0) =< frame
      BY <3>1, <3>2, <3>3
    <3>. QED  BY <1>1, <1>3, <3>4, Zenon DEF AccountInv
  <2>12. Shapes'
    <3>1. Len(gpu') =< MaxPending
      <4>1. Len(gpu) \in Nat /\ MaxPending \in Nat
        BY GpuTyped, LimitsType
      <4>. QED  BY <1>5, <2>5, <4>1
    <3>2. newest' \in Frame
      BY <1>2, <1>5
    <3>. QED  BY <1>1, <2>1, <2>5, <2>11, <3>1, <3>2, ShapesNow, ShapesKept
  <2>13. CopyInv'
    <3>1. ASSUME setup.record = "cpuReadback", ~setup.stream
          PROVE  WillShow(View, newest)'
      <4>1. t = View
        BY <2>3, <3>1 DEF CopyInv, Target
      <4>2. newest' = f
        BY <1>5, <2>4a
      <4>. QED  BY <2>5, <4>1, <4>2
    <3>. QED  BY <1>1, <1>3, <1>4, <2>1, <3>1 DEF CopyInv
  <2>. QED  BY <2>7, <2>8, <2>10, <2>11, <2>12, <2>13
<1>6. CASE /\ tick' = [tick EXCEPT !.at = "record"]
           /\ gpu' = gpu /\ newest' = newest
  <2>1. /\ tick' \in Ticks /\ tick'.at = "record" /\ tick'.loan = tick.loan
        /\ tick'.own = tick.own /\ tick'.drew = FALSE
    <3>1. tick.drew = FALSE
      BY <1>1, <1>2 DEF TickInv, Ticks
    <3>. QED  BY <1>2, <1>6, <3>1 DEF Ticks
  <2>2. Target' = Target
    BY <2>1 DEF Target
  <2>3. Looking
    BY <1>1, <1>6 DEF Looking
  <2>4. AccountInv'
    <3>1. \A d \in Consumer : Owes(d)' => Owes(d)
      BY <1>1, <2>1, <2>2 DEF Owes
    <3>2. \A d \in Consumer : Load(d) \in Nat
                              /\ Load(d) + (IF Owes(d) THEN 1 ELSE 0) =< frame
      BY LoadTyped DEF AccountInv
    <3>3. frame \in Nat
      BY ShapesNow
    <3>4. \A d \in Consumer : Load(d) + (IF Owes(d)' THEN 1 ELSE 0) =< frame
      BY <3>1, <3>2, <3>3
    <3>. QED  BY <1>1, <1>3, <3>4, Zenon DEF AccountInv
  <2>5. Shapes'
    BY <1>1, <1>2, <2>1, <2>3, <2>4, ShapesNow, LookingShapes
  <2>6. TickInv'
    BY <2>1 DEF TickInv
  <2>7. CopyInv'
    BY <2>1, <2>3, LookingCopies DEF CopyInv
  <2>. QED  BY <2>3, <2>4, <2>5, <2>6, <2>7, LookingKeeps
<1>. QED  BY <1>5, <1>6 DEF Draw

\* Whatever is handed to an output shows what it says, or will.
LEMMA HandingKeeps ==
  ASSUME TapInv, UNCHANGED <<setup, frame, newest, gpu, picture, thread, encoder>>,
         tick' \in Ticks, tick'.at \in {"hand", "idle"},
         tick'.drew => tick'.at = "hand" /\ WillShow(Target, frame)',
         setup.record = "cpuReadback" /\ ~setup.stream =>
           tick'.loan = View /\ tick'.own = View,
         queue' \in [Consumer -> Seq(Message)],
         \A d \in Consumer : Len(queue'[d]) =< Bound[d],
         settled' \in [Consumer -> Nat],
         \A d \in Consumer : Load(d)' + (IF Owes(d)' THEN 1 ELSE 0) =< frame,
         \A d \in Consumer : \A m \in Waiting(d)' :
           \/ m \in Waiting(d)
           \/ m.surface # View /\ WillShow(m.surface, m.frame)
           \/ /\ m.surface = View /\ setup.record = "cpuReadback"
              /\ ~setup.stream => m.copy = m.frame
  PROVE  TapInv'
<1>. USE DEF TapInv
<1>1. \A s, g : (Shows(s, g)' <=> Shows(s, g)) /\ (WillShow(s, g)' <=> WillShow(s, g))
  BY PictureStands
<1>2. /\ setup' = setup /\ frame' = frame /\ newest' = newest /\ gpu' = gpu
      /\ picture' = picture /\ thread' = thread /\ encoder' = encoder
  OBVIOUS
<1>3. MessageInv'
  <2>1. ASSUME NEW c \in Consumer, NEW m \in Waiting(c)', m.surface # View
        PROVE  WillShow(m.surface, m.frame)'
    <3>1. m \in Waiting(c) \/ WillShow(m.surface, m.frame)
      BY <2>1, Zenon
    <3>2. WillShow(m.surface, m.frame)
      BY <2>1, <3>1, Zenon DEF MessageInv
    <3>. QED  BY <1>1, <3>2, Zenon
  <2>. QED  BY <2>1, Zenon DEF MessageInv
<1>4. EncoderInv'
  BY <1>1, <1>2, Zenon DEF EncoderInv
<1>5. AccountInv'
  BY <1>2, Zenon DEF AccountInv
<1>6. Shapes'
  BY <1>2, <1>5, ShapesNow, ShapesKept
<1>7. TickInv'
  BY DEF TickInv
<1>8. CopyInv'
  <2>1. "record" \in Consumer
    BY DEF Consumer
  <2>2. ASSUME setup.record # "cpuReadback", NEW m \in Waiting("record")'
        PROVE  m.surface # View
    BY <2>1, <2>2, Zenon DEF CopyInv
  <2>3. ASSUME setup.record = "cpuReadback", ~setup.stream, NEW m \in Waiting("record")',
               m.surface = View
        PROVE  m.copy = m.frame
    BY <2>1, <2>3, Zenon DEF CopyInv, CopyIsCurrent, Waiting
  <2>4. ASSUME setup.record = "cpuReadback", ~setup.stream
        PROVE  CopyIsCurrent'
    BY <2>3, <2>4, Zenon DEF CopyIsCurrent, Waiting
  <2>5. ASSUME setup.record = "cpuReadback", ~setup.stream
        PROVE  WillShow(View, newest)'
    BY <1>1, <1>2, <2>5 DEF CopyInv
  <2>. QED  BY <1>2, <2>2, <2>4, <2>5 DEF CopyInv
<1>. QED  BY <1>3, <1>4, <1>5, <1>6, <1>7, <1>8

LEMMA EndTapFrameKeeps == TapInv /\ EndTapFrame => TapInv'
<1>. SUFFICES ASSUME TapInv, EndTapFrame
     PROVE  TapInv'
  OBVIOUS
<1>. USE DEF TapInv
<1>1. /\ tick.at = "record" /\ tick' = [tick EXCEPT !.at = "hand"]
      /\ UNCHANGED <<setup, frame, newest, gpu, picture, thread, encoder>>
  BY DEF EndTapFrame
<1>2. tick \in Ticks /\ frame \in Frame /\ newest \in Frame /\ frame \in Nat
      /\ picture \in [Targets -> Frame]
  BY ShapesNow
<1>3. /\ tick' \in Ticks /\ tick'.at = "hand" /\ tick'.loan = tick.loan
      /\ tick'.own = tick.own /\ tick'.drew = tick.drew
  BY <1>1, <1>2 DEF Ticks
<1>4. Target' = Target
  BY <1>3 DEF Target
<1>5. tick'.drew => WillShow(Target, frame)'
  <2>1. \A s, g : WillShow(s, g)' <=> WillShow(s, g)
    BY <1>1, PictureStands
  <2>2. PICK t, f : t = Target /\ f = frame
    OBVIOUS
  <2>3. tick'.drew => WillShow(t, f)
    BY <1>1, <1>3, <2>2 DEF TickInv
  <2>4. Target' = t /\ frame' = f
    BY <1>1, <1>4, <2>2
  <2>. QED  BY <2>1, <2>3, <2>4
<1>6. setup.record = "cpuReadback" /\ ~setup.stream => tick'.loan = View /\ tick'.own = View
  BY <1>3 DEF CopyInv
<1>7. Consumer = {"record", "stream"}
  BY DEF Consumer
<1>8. ~Owes("record")' /\ (Owes("stream")' <=> Owes("stream"))
  BY <1>1, <1>3, <1>4 DEF Owes
<1>9. \A d \in Consumer : Load(d) \in Nat /\ Load(d) + (IF Owes(d) THEN 1 ELSE 0) =< frame
  BY LoadTyped DEF AccountInv
<1>10. \/ UNCHANGED <<queue, settled>>
       \/ /\ setup.record = "cpuReadback" \/ tick.loan # View
          /\ Settle("record") /\ UNCHANGED queue
       \/ /\ tick.loan # View /\ tick.drew
          /\ Offer("record", [surface |-> tick.loan, frame |-> frame, copy |-> 0])
       \/ ReadBack
  BY Zenon DEF EndTapFrame
<1>11. CASE UNCHANGED <<queue, settled>>
  <2>1. \A d \in Consumer : Load(d)' = Load(d) /\ Waiting(d)' = Waiting(d)
    BY <1>1, <1>11 DEF Load, Waiting
  <2>2. \A d \in Consumer : Load(d)' + (IF Owes(d)' THEN 1 ELSE 0) =< frame
    <3>1. Load("record")' + (IF Owes("record")' THEN 1 ELSE 0) =< frame
      BY <1>2, <1>7, <1>8, <1>9, <2>1
    <3>2. Load("stream")' + (IF Owes("stream")' THEN 1 ELSE 0) =< frame
      BY <1>7, <1>8, <1>9, <2>1
    <3>. QED  BY <1>7, <3>1, <3>2
  <2>3. /\ queue' \in [Consumer -> Seq(Message)] /\ settled' \in [Consumer -> Nat]
        /\ \A d \in Consumer : Len(queue'[d]) =< Bound[d]
    BY <1>11, ShapesNow
  <2>. QED  BY <1>1, <1>3, <1>5, <1>6, <2>1, <2>2, <2>3, HandingKeeps
<1>12. CASE /\ setup.record = "cpuReadback" \/ tick.loan # View
            /\ Settle("record") /\ UNCHANGED queue
  <2>1. UNCHANGED <<queue, thread>>
    BY <1>1, <1>12
  <2>2. /\ settled' \in [Consumer -> Nat] /\ Load("record")' = Load("record") + 1
        /\ \A d \in Consumer : d # "record" => Load(d)' = Load(d)
    BY <1>7, <1>12, <2>1, SettleLoad
  <2>3. \A d \in Consumer : Waiting(d)' = Waiting(d)
    BY <2>1 DEF Waiting
  <2>4. Owes("record")
    BY <1>1, <1>12 DEF Owes
  <2>5. \A d \in Consumer : Load(d)' + (IF Owes(d)' THEN 1 ELSE 0) =< frame
    <3>1. Load("record")' + (IF Owes("record")' THEN 1 ELSE 0) =< frame
      BY <1>7, <1>8, <1>9, <2>2, <2>4
    <3>2. Load("stream")' + (IF Owes("stream")' THEN 1 ELSE 0) =< frame
      BY <1>7, <1>8, <1>9, <2>2
    <3>. QED  BY <1>7, <3>1, <3>2
  <2>6. /\ queue' \in [Consumer -> Seq(Message)]
        /\ \A d \in Consumer : Len(queue'[d]) =< Bound[d]
    BY <1>12, ShapesNow
  <2>. QED  BY <1>1, <1>3, <1>5, <1>6, <2>2, <2>3, <2>5, <2>6, HandingKeeps
<1>13. ASSUME NEW m \in Message, Offer("record", m), Owes("record"),
              \/ m.surface # View /\ WillShow(m.surface, m.frame)
              \/ /\ m.surface = View /\ setup.record = "cpuReadback"
                 /\ ~setup.stream => m.copy = m.frame
       PROVE  TapInv'
  <2>1. UNCHANGED thread
    BY <1>1
  <2>2. /\ queue' \in [Consumer -> Seq(Message)]
        /\ \A d \in Consumer : Len(queue'[d]) =< Bound[d]
        /\ settled' \in [Consumer -> Nat]
        /\ Load("record")' = Load("record") + 1
        /\ \A d \in Consumer : d # "record" => Load(d)' = Load(d) /\ Waiting(d)' = Waiting(d)
        /\ Waiting("record")' \subseteq Waiting("record") \union {m}
    BY <1>7, <1>13, <2>1, OfferFlow
  <2>3. \A d \in Consumer : Load(d)' + (IF Owes(d)' THEN 1 ELSE 0) =< frame
    <3>1. Load("record")' + (IF Owes("record")' THEN 1 ELSE 0) =< frame
      BY <1>7, <1>8, <1>9, <1>13, <2>2
    <3>2. Load("stream")' + (IF Owes("stream")' THEN 1 ELSE 0) =< frame
      BY <1>7, <1>8, <1>9, <2>2
    <3>. QED  BY <1>7, <3>1, <3>2
  <2>4. \A d \in Consumer : \A n \in Waiting(d)' : n \in Waiting(d) \/ n = m
    BY <2>2
  <2>5. \A d \in Consumer : \A n \in Waiting(d)' :
          \/ n \in Waiting(d)
          \/ n.surface # View /\ WillShow(n.surface, n.frame)
          \/ /\ n.surface = View /\ setup.record = "cpuReadback"
             /\ ~setup.stream => n.copy = n.frame
    BY <1>13, <2>4, Zenon
  <2>. QED  BY <1>1, <1>3, <1>5, <1>6, <2>2, <2>3, <2>5, HandingKeeps
<1>14. CASE /\ tick.loan # View /\ tick.drew
            /\ Offer("record", [surface |-> tick.loan, frame |-> frame, copy |-> 0])
  <2>. DEFINE m == [surface |-> tick.loan, frame |-> frame, copy |-> 0]
  <2>1. m \in Message /\ m.surface = tick.loan /\ m.frame = frame
    <3>1. 0 \in Frame
      BY LimitsType DEF Frame
    <3>. QED  BY <1>2, <3>1, Pools DEF Message, Ticks
  <2>2. Owes("record")
    BY <1>1, <1>14 DEF Owes
  <2>3. WillShow(tick.loan, frame)
    BY <1>1, <1>14 DEF TickInv, Target
  <2>. HIDE DEF m
  <2>4. Offer("record", m)
    BY <1>14 DEF m
  <2>. QED  BY <1>13, <1>14, <2>1, <2>2, <2>3, <2>4
<1>15. CASE ReadBack
  <2>. DEFINE m == [surface |-> View, frame |-> newest, copy |-> picture[View]]
  <2>1. setup.record = "cpuReadback" /\ gpu = <<>> /\ Offer("record", m)
    BY <1>15 DEF ReadBack
  <2>2. m \in Message /\ m.surface = View /\ m.frame = newest /\ m.copy = picture[View]
    <3>1. View \in Targets
      BY DEF Targets
    <3>. QED  BY <1>2, <3>1 DEF Message
  <2>3. ~setup.stream => m.copy = m.frame
    BY <2>1, <2>2, ShowsIsShown DEF CopyInv
  <2>4. Owes("record")
    BY <1>1, <2>1 DEF Owes
  <2>. HIDE DEF m
  <2>. QED  BY <1>13, <2>1, <2>2, <2>3, <2>4
<1>. QED  BY <1>10, <1>11, <1>12, <1>14, <1>15

LEMMA HandOffStreamKeeps == TapInv /\ HandOffStream => TapInv'
<1>. SUFFICES ASSUME TapInv, HandOffStream
     PROVE  TapInv'
  OBVIOUS
<1>. USE DEF TapInv
<1>1. /\ tick.at = "hand" /\ tick' = Idle
      /\ UNCHANGED <<setup, frame, newest, gpu, picture, thread, encoder>>
  BY DEF HandOffStream
<1>2. tick \in Ticks /\ frame \in Frame /\ frame \in Nat
  BY ShapesNow
<1>3. /\ tick' \in Ticks /\ tick'.at = "idle" /\ tick'.loan = View /\ tick'.own = View
      /\ tick'.drew = FALSE
  BY <1>1 DEF Ticks, Idle
<1>4. Consumer = {"record", "stream"}
  BY DEF Consumer
<1>5. \A d \in Consumer : ~Owes(d)'
  BY <1>3 DEF Owes
<1>6. \A d \in Consumer : Load(d) \in Nat /\ Load(d) + (IF Owes(d) THEN 1 ELSE 0) =< frame
  BY LoadTyped DEF AccountInv
<1>7. CASE UNCHANGED <<queue, settled>>
  <2>1. \A d \in Consumer : Load(d)' = Load(d) /\ Waiting(d)' = Waiting(d)
    BY <1>1, <1>7 DEF Load, Waiting
  <2>2. \A d \in Consumer : Load(d)' + (IF Owes(d)' THEN 1 ELSE 0) =< frame
    BY <1>2, <1>5, <1>6, <2>1
  <2>3. /\ queue' \in [Consumer -> Seq(Message)] /\ settled' \in [Consumer -> Nat]
        /\ \A d \in Consumer : Len(queue'[d]) =< Bound[d]
    BY <1>7, ShapesNow
  <2>. QED  BY <1>1, <1>3, <2>1, <2>2, <2>3, HandingKeeps
<1>8. CASE Target # View /\ Settle("stream") /\ UNCHANGED queue
  <2>1. UNCHANGED <<queue, thread>>
    BY <1>1, <1>8
  <2>2. /\ settled' \in [Consumer -> Nat] /\ Load("stream")' = Load("stream") + 1
        /\ \A d \in Consumer : d # "stream" => Load(d)' = Load(d)
    BY <1>4, <1>8, <2>1, SettleLoad
  <2>3. \A d \in Consumer : Waiting(d)' = Waiting(d)
    BY <2>1 DEF Waiting
  <2>4. Owes("stream")
    BY <1>1, <1>8 DEF Owes
  <2>5. \A d \in Consumer : Load(d)' + (IF Owes(d)' THEN 1 ELSE 0) =< frame
    BY <1>2, <1>4, <1>5, <1>6, <2>2, <2>4
  <2>6. /\ queue' \in [Consumer -> Seq(Message)]
        /\ \A d \in Consumer : Len(queue'[d]) =< Bound[d]
    BY <1>8, ShapesNow
  <2>. QED  BY <1>1, <1>3, <2>2, <2>3, <2>5, <2>6, HandingKeeps
<1>9. CASE /\ Target # View /\ tick.drew
           /\ Offer("stream", [surface |-> Target, frame |-> frame, copy |-> 0])
  <2>. DEFINE m == [surface |-> Target, frame |-> frame, copy |-> 0]
  <2>1. m \in Message /\ m.surface = Target /\ m.frame = frame
    <3>1. 0 \in Frame
      BY LimitsType DEF Frame
    <3>2. Target \in {View} \union Surface
      BY <1>2, Pools DEF Target, Ticks
    <3>. QED  BY <1>2, <3>1, <3>2 DEF Message
  <2>2. Owes("stream")
    BY <1>1, <1>9 DEF Owes
  <2>3. WillShow(Target, frame)
    BY <1>1, <1>9 DEF TickInv
  <2>. HIDE DEF m
  <2>4. Offer("stream", m)
    BY <1>9 DEF m
  <2>5. UNCHANGED thread
    BY <1>1
  <2>6. /\ queue' \in [Consumer -> Seq(Message)]
        /\ \A d \in Consumer : Len(queue'[d]) =< Bound[d]
        /\ settled' \in [Consumer -> Nat]
        /\ Load("stream")' = Load("stream") + 1
        /\ \A d \in Consumer : d # "stream" => Load(d)' = Load(d) /\ Waiting(d)' = Waiting(d)
        /\ Waiting("stream")' \subseteq Waiting("stream") \union {m}
    BY <1>4, <2>1, <2>4, <2>5, OfferFlow
  <2>7. \A d \in Consumer : Load(d)' + (IF Owes(d)' THEN 1 ELSE 0) =< frame
    BY <1>2, <1>4, <1>5, <1>6, <2>2, <2>6
  <2>8. \A d \in Consumer : \A n \in Waiting(d)' : n \in Waiting(d) \/ n = m
    BY <2>6
  <2>9. m.surface # View /\ WillShow(m.surface, m.frame)
    BY <1>9, <2>1, <2>3
  <2>10. \A d \in Consumer : \A n \in Waiting(d)' :
           \/ n \in Waiting(d)
           \/ n.surface # View /\ WillShow(n.surface, n.frame)
           \/ /\ n.surface = View /\ setup.record = "cpuReadback"
              /\ ~setup.stream => n.copy = n.frame
    BY <2>8, <2>9, Zenon
  <2>. QED  BY <1>1, <1>3, <2>6, <2>7, <2>10, HandingKeeps
<1>10. \/ UNCHANGED <<queue, settled>>
       \/ Target # View /\ Settle("stream") /\ UNCHANGED queue
       \/ /\ Target # View /\ tick.drew
          /\ Offer("stream", [surface |-> Target, frame |-> frame, copy |-> 0])
  BY Zenon DEF HandOffStream
<1>. QED  BY <1>7, <1>8, <1>9, <1>10

LEMMA GpuCompletesKeeps == TapInv /\ GpuCompletes => TapInv'
<1>. SUFFICES ASSUME TapInv, GpuCompletes
     PROVE  TapInv'
  OBVIOUS
<1>. USE DEF TapInv
<1>1. /\ setup' = setup /\ frame' = frame /\ tick' = tick /\ newest' = newest
      /\ settled' = settled /\ queue' = queue /\ thread' = thread /\ encoder' = encoder
  BY DEF GpuCompletes, outputVars
<1>2. /\ \A s \in Targets : \A g : Shows(s, g) => Shows(s, g)'
      /\ \A s \in Targets : \A g : WillShow(s, g) => WillShow(s, g)'
      /\ gpu' \in Seq(Draws) /\ Len(gpu') =< Len(gpu)
      /\ picture' \in [Targets -> Frame]
  BY CompletedShows
<1>3. /\ \A c \in Consumer : Waiting(c)' = Waiting(c)
      /\ CopyIsCurrent' <=> CopyIsCurrent
  BY <1>1 DEF Waiting, CopyIsCurrent
<1>4. \A c \in Consumer : \A m \in Waiting(c) : m \in Message
  <2>1. ASSUME NEW c \in Consumer
        PROVE  queue[c] \in Seq(Message) /\ thread[c] \in Seq(Message)
    BY LoadTyped
  <2>. QED  BY <2>1, ElementOfSeq, LenProperties DEF Waiting, Range
<1>5. MessageInv'
  <2>1. ASSUME NEW c \in Consumer, NEW m \in Waiting(c), m.surface # View
        PROVE  WillShow(m.surface, m.frame)'
    <3>1. m.surface \in Targets
      BY <1>4 DEF Message, Targets
    <3>2. WillShow(m.surface, m.frame)
      BY <2>1 DEF MessageInv
    <3>. QED  BY <1>2, <3>1, <3>2, Zenon
  <2>. QED  BY <1>3, <2>1, Zenon DEF MessageInv
<1>6. EncoderInv'
  <2>1. ASSUME NEW c \in Consumer, NEW e \in encoder[c]
        PROVE  Shows(e.surface, e.frame)'
    <3>1. e.surface \in Targets
      BY ShapesNow DEF Reading, Targets
    <3>2. Shows(e.surface, e.frame)
      BY DEF EncoderInv
    <3>. QED  BY <1>2, <3>1, <3>2, Zenon
  <2>. QED  BY <1>1, <2>1, Zenon DEF EncoderInv
<1>7. AccountInv'
  <2>1. \A c \in Consumer : Load(c)' = Load(c) /\ (Owes(c)' <=> Owes(c))
    BY <1>1 DEF Load, Owes, Target
  <2>. QED  BY <1>1, <2>1 DEF AccountInv
<1>8. Shapes'
  <2>1. Len(gpu') =< MaxPending
    <3>1. Len(gpu) \in Nat /\ MaxPending \in Nat /\ Len(gpu') \in Nat
      BY <1>2, GpuTyped, LimitsType, LenProperties
    <3>. QED  BY <1>2, <3>1, ShapesNow
  <2>. QED  BY <1>1, <1>2, <1>7, <2>1, ShapesNow, ShapesKept DEF Shapes
<1>9. TickInv'
  <2>1. Target' = Target
    BY <1>1 DEF Target
  <2>2. (\A s : Unowned(s)' <=> Unowned(s)) /\ (\A s : EncoderHas(s)' <=> EncoderHas(s))
    BY <1>1, <1>3, Zenon DEF Unowned, EncoderHas
  <2>3. Target \in Targets
    BY ShapesNow, Pools DEF Target, Ticks, Targets
  <2>4. PICK t, f, s : t = Target /\ f = frame /\ s = tick.candidate
    OBVIOUS
  <2>5. WillShow(t, f) => WillShow(t, f)'
    BY <1>2, <2>3, <2>4, Zenon
  <2>. QED  BY <1>1, <2>1, <2>2, <2>4, <2>5 DEF TickInv
<1>10. CopyInv'
  <2>1. "record" \in Consumer /\ View \in Targets
    BY DEF Consumer, Targets
  <2>2. PICK f : f = newest
    OBVIOUS
  <2>3. WillShow(View, f) => WillShow(View, f)'
    BY <1>2, <2>1, Zenon
  <2>. QED  BY <1>1, <1>3, <2>1, <2>2, <2>3 DEF CopyInv
<1>. QED  BY <1>5, <1>6, <1>7, <1>8, <1>9, <1>10

\* The threads and the encoders add no reader that was not there.
LEMMA ThreadStepKeeps ==
  ASSUME TapInv, UNCHANGED loopVars,
         queue' \in [Consumer -> Seq(Message)],
         \A d \in Consumer : Len(queue'[d]) =< Bound[d],
         thread' \in [Consumer -> UNION {[1..n -> Message] : n \in 0..1}],
         encoder' \in [Consumer -> SUBSET Reading],
         \A d \in Consumer :
           IsFiniteSet(encoder'[d]) /\ Cardinality(encoder'[d]) =< EncoderBacklog,
         settled' \in [Consumer -> Nat],
         \A d \in Consumer : Load(d)' = Load(d) /\ Waiting(d)' \subseteq Waiting(d),
         \A d \in Consumer : \A e \in encoder'[d] :
           \/ e \in encoder[d]
           \/ /\ Shows(e.surface, e.frame)
              /\ \E m \in Waiting(d) : m.surface = e.surface
  PROVE  TapInv'
<1>. USE DEF TapInv
<1>1. /\ setup' = setup /\ frame' = frame /\ tick' = tick /\ newest' = newest
      /\ gpu' = gpu /\ picture' = picture
  BY DEF loopVars
<1>2. \A s, g : (Shows(s, g)' <=> Shows(s, g)) /\ (WillShow(s, g)' <=> WillShow(s, g))
  BY <1>1, PictureStands
<1>3. MessageInv'
  BY <1>2, Zenon DEF MessageInv
<1>4. EncoderInv'
  BY <1>2, Zenon DEF EncoderInv
<1>5. AccountInv'
  <2>1. \A c \in Consumer : Owes(c)' <=> Owes(c)
    BY <1>1 DEF Owes, Target
  <2>. QED  BY <1>1, <2>1 DEF AccountInv
<1>6. Shapes'
  BY <1>1, <1>5, ShapesNow, ShapesKept DEF Shapes
<1>7. TickInv'
  <2>1. Target' = Target
    BY <1>1 DEF Target
  <2>2. \A s : Unowned(s) => Unowned(s)'
    BY Zenon DEF Unowned
  <2>3. ASSUME NEW s, Unowned(s), ~EncoderHas(s)
        PROVE  ~EncoderHas(s)'
    <3>1. SUFFICES ASSUME NEW d \in Consumer, NEW e \in encoder'[d], e.surface = s
                   PROVE  FALSE
      BY DEF EncoderHas
    <3>2. e \notin encoder[d]
      BY <2>3, <3>1, Zenon DEF EncoderHas
    <3>3. PICK m \in Waiting(d) : m.surface = e.surface
      BY <3>2, Zenon
    <3>. QED  BY <2>3, <3>1, <3>3, Zenon DEF Unowned
  <2>4. PICK t, f, s : t = Target /\ f = frame /\ s = tick.candidate
    OBVIOUS
  <2>5. WillShow(t, f) => WillShow(t, f)'
    BY <1>2, Zenon
  <2>. QED  BY <1>1, <2>1, <2>2, <2>3, <2>4, <2>5 DEF TickInv
<1>8. CopyInv'
  <2>1. "record" \in Consumer
    BY DEF Consumer
  <2>2. Waiting("record")' \subseteq Waiting("record")
    BY <2>1
  <2>3. CopyIsCurrent => CopyIsCurrent'
    BY <2>2, Zenon DEF CopyIsCurrent, Waiting
  <2>4. PICK f : f = newest
    OBVIOUS
  <2>5. WillShow(View, f) => WillShow(View, f)'
    BY <1>2, Zenon
  <2>. QED  BY <1>1, <2>2, <2>3, <2>4, <2>5 DEF CopyInv
<1>. QED  BY <1>3, <1>4, <1>5, <1>6, <1>7, <1>8

LEMMA ThreadsKeep == TapInv /\ Threads => TapInv'
<1>. SUFFICES ASSUME TapInv, NEW c \in Consumer, Take(c) \/ Encode(c) \/ Drop(c) \/ Release(c)
     PROVE  TapInv'
  BY DEF Threads
<1>0. Shapes
  BY DEF TapInv
<1>1. CASE Take(c)
  <2>1. UNCHANGED loopVars /\ encoder' = encoder /\ settled' = settled
    BY <1>1 DEF Take
  <2>2. /\ queue' \in [Consumer -> Seq(Message)]
        /\ \A d \in Consumer : Len(queue'[d]) =< Bound[d]
        /\ thread' \in [Consumer -> UNION {[1..n -> Message] : n \in 0..1}]
        /\ \A d \in Consumer : Load(d)' = Load(d) /\ Waiting(d)' = Waiting(d)
    BY <1>0, <1>1, TakeFlow
  <2>3. \A d \in Consumer : Load(d)' = Load(d) /\ Waiting(d)' \subseteq Waiting(d)
    BY <2>2
  <2>4. \A d \in Consumer : \A e \in encoder'[d] : e \in encoder[d]
    BY <2>1
  <2>. QED  BY <1>0, <2>1, <2>2, <2>3, <2>4, ShapesNow, ThreadStepKeeps
<1>2. CASE Encode(c)
  <2>. DEFINE m == Head(thread[c])
              kept == IF m.surface = View THEN encoder[c]
                      ELSE encoder[c] \union {[surface |-> m.surface, frame |-> m.frame]}
  <2>1. /\ thread[c] # <<>> /\ Drawn(m) /\ encoder' = [encoder EXCEPT ![c] = kept]
        /\ Cardinality(encoder'[c]) <= EncoderBacklog /\ Settle(c)
        /\ thread' = [thread EXCEPT ![c] = <<>>] /\ UNCHANGED loopVars /\ queue' = queue
    BY <1>2 DEF Encode
  <2>2. /\ thread' \in [Consumer -> UNION {[1..n -> Message] : n \in 0..1}]
        /\ settled' \in [Consumer -> Nat] /\ m \in Message /\ m \in Waiting(c)
        /\ \A d \in Consumer : Load(d)' = Load(d) /\ Waiting(d)' \subseteq Waiting(d)
    BY <1>0, <2>1, DoneFlow
  <2>3. encoder \in [Consumer -> SUBSET Reading]
        /\ \A d \in Consumer :
             IsFiniteSet(encoder[d]) /\ Cardinality(encoder[d]) =< EncoderBacklog
    BY <1>0, ShapesNow
  <2>4. m.surface # View => Shows(m.surface, m.frame)
    BY <2>1, <2>2, DrawnShows DEF TapInv, MessageInv
  <2>. HIDE DEF m
  <2>5. kept \in SUBSET Reading
    BY <2>2, <2>3 DEF Message, Reading
  <2>6. IsFiniteSet(kept)
    BY <2>3, FS_AddElement
  <2>7. \A e \in kept : \/ e \in encoder[c]
                        \/ /\ Shows(e.surface, e.frame)
                           /\ \E n \in Waiting(c) : n.surface = e.surface
    BY <2>2, <2>4
  <2>. HIDE DEF kept
  <2>8. /\ encoder' \in [Consumer -> SUBSET Reading] /\ encoder'[c] = kept
        /\ \A d \in Consumer : d # c => encoder'[d] = encoder[d]
    BY <2>1, <2>3, <2>5
  <2>9. \A d \in Consumer :
          IsFiniteSet(encoder'[d]) /\ Cardinality(encoder'[d]) =< EncoderBacklog
    BY <2>1, <2>3, <2>6, <2>8
  <2>10. \A d \in Consumer : \A e \in encoder'[d] :
           \/ e \in encoder[d]
           \/ /\ Shows(e.surface, e.frame)
              /\ \E n \in Waiting(d) : n.surface = e.surface
    BY <2>7, <2>8, Zenon
  <2>11. /\ queue' \in [Consumer -> Seq(Message)]
         /\ \A d \in Consumer : Len(queue'[d]) =< Bound[d]
    BY <1>0, <2>1, ShapesNow
  <2>. QED  BY <2>1, <2>2, <2>8, <2>9, <2>10, <2>11, ThreadStepKeeps
<1>3. CASE Drop(c)
  <2>1. /\ thread[c] # <<>> /\ Settle(c) /\ thread' = [thread EXCEPT ![c] = <<>>]
        /\ UNCHANGED loopVars /\ queue' = queue /\ encoder' = encoder
    BY <1>3 DEF Drop
  <2>2. /\ thread' \in [Consumer -> UNION {[1..n -> Message] : n \in 0..1}]
        /\ settled' \in [Consumer -> Nat]
        /\ \A d \in Consumer : Load(d)' = Load(d) /\ Waiting(d)' \subseteq Waiting(d)
    BY <1>0, <2>1, DoneFlow
  <2>3. /\ queue' \in [Consumer -> Seq(Message)]
        /\ \A d \in Consumer : Len(queue'[d]) =< Bound[d]
    BY <1>0, <2>1, ShapesNow
  <2>4. \A d \in Consumer : \A e \in encoder'[d] : e \in encoder[d]
    BY <2>1
  <2>. QED  BY <1>0, <2>1, <2>2, <2>3, <2>4, ShapesNow, ThreadStepKeeps
<1>4. CASE Release(c)
  <2>1. PICK x \in encoder[c] : encoder' = [encoder EXCEPT ![c] = encoder[c] \ {x}]
    BY <1>4 DEF Release
  <2>2. UNCHANGED loopVars /\ queue' = queue /\ thread' = thread /\ settled' = settled
    BY <1>4 DEF Release
  <2>3. encoder \in [Consumer -> SUBSET Reading]
        /\ \A d \in Consumer :
             IsFiniteSet(encoder[d]) /\ Cardinality(encoder[d]) =< EncoderBacklog
    BY <1>0, ShapesNow
  <2>4. /\ encoder' \in [Consumer -> SUBSET Reading] /\ encoder'[c] = encoder[c] \ {x}
        /\ \A d \in Consumer : d # c => encoder'[d] = encoder[d]
    BY <2>1, <2>3
  <2>5. IsFiniteSet(encoder[c] \ {x}) /\ Cardinality(encoder[c] \ {x}) =< EncoderBacklog
    <3>1. IsFiniteSet(encoder[c] \ {x})
          /\ Cardinality(encoder[c] \ {x}) = Cardinality(encoder[c]) - 1
      BY <2>3, FS_RemoveElement
    <3>2. Cardinality(encoder[c]) \in Nat /\ EncoderBacklog \in Nat
      BY <2>3, FS_CardinalityType, LimitsType
    <3>. QED  BY <2>3, <3>1, <3>2
  <2>6. \A d \in Consumer :
          IsFiniteSet(encoder'[d]) /\ Cardinality(encoder'[d]) =< EncoderBacklog
    BY <2>3, <2>4, <2>5
  <2>7. \A d \in Consumer : \A e \in encoder'[d] : e \in encoder[d]
    BY <2>4
  <2>8. \A d \in Consumer : Load(d)' = Load(d) /\ Waiting(d)' \subseteq Waiting(d)
    BY <2>2 DEF Load, Waiting
  <2>. QED  BY <1>0, <2>2, <2>4, <2>6, <2>7, <2>8, ShapesNow, ThreadStepKeeps
<1>. QED  BY <1>1, <1>2, <1>3, <1>4

LEMMA InitHolds == Init => TapInv
<1>. SUFFICES ASSUME Init
     PROVE  TapInv
  OBVIOUS
<1>1. /\ setup \in Setups /\ frame = 0 /\ tick = Idle /\ newest = 0 /\ gpu = <<>>
      /\ picture = [t \in Targets |-> 0]
      /\ queue = [c \in Consumer |-> <<>>] /\ thread = [c \in Consumer |-> <<>>]
      /\ encoder = [c \in Consumer |-> {}] /\ settled = [c \in Consumer |-> 0]
  BY DEF Init, Targets
<1>2. 0 \in Frame /\ MaxPending \in Nat /\ EncoderBacklog \in Nat
  BY LimitsType DEF Frame
<1>3. /\ <<>> \in UNION {[1..n -> Message] : n \in 0..1} /\ Range(<<>>) = {} /\ Len(<<>>) = 0
  BY OneMessage
<1>4. IsFiniteSet({}) /\ Cardinality({}) = 0
  BY FS_EmptySet
<1>5. \A c \in Consumer : Bound[c] \in Nat
  BY BoundsType DEF Bound, Consumer
<1>6. \A c \in Consumer : Waiting(c) = {}
  BY <1>1, <1>3 DEF Waiting
<1>7. /\ tick \in Ticks /\ tick.at = "idle" /\ tick.drew = FALSE /\ tick.loan = View
      /\ tick.own = View
  BY <1>1 DEF Ticks, Idle
<1>8. Shapes
  <2>1. /\ gpu \in Seq([target : {View} \union Surface, frame : Frame])
        /\ Len(gpu) <= MaxPending
    BY <1>1, <1>2
  <2>2. picture \in [{View} \union Surface -> Frame]
    BY <1>1, <1>2 DEF Targets
  <2>3. queue \in [Consumer -> Seq(Message)]
        /\ \A c \in Consumer : queue[c] \in Seq(Message) /\ Len(queue[c]) <= Bound[c]
    BY <1>1, <1>3, <1>5
  <2>4. thread \in [Consumer -> UNION {[1..n -> Message] : n \in 0..1}]
    BY <1>1, <1>3
  <2>5. /\ encoder \in [Consumer -> SUBSET Reading]
        /\ \A c \in Consumer : /\ encoder[c] \subseteq [surface : Surface, frame : Frame]
                               /\ IsFiniteSet(encoder[c])
                               /\ Cardinality(encoder[c]) <= EncoderBacklog
    BY <1>1, <1>2, <1>4
  <2>6. settled \in [Consumer -> Frame]
    BY <1>1, <1>2
  <2>. QED  BY <1>1, <1>2, <1>7, <2>1, <2>2, <2>3, <2>4, <2>5, <2>6 DEF Shapes, TypeOK, Ticks
<1>9. AccountInv
  <2>1. \A c \in Consumer : Load(c) = 0
    BY <1>1, <1>3 DEF Load
  <2>2. \A c \in Consumer : ~Owes(c)
    BY <1>7 DEF Owes
  <2>. QED  BY <1>1, <2>1, <2>2 DEF AccountInv
<1>10. MessageInv /\ EncoderInv
  BY <1>1, <1>6 DEF MessageInv, EncoderInv
<1>11. TickInv
  BY <1>7 DEF TickInv
<1>12. CopyInv
  <2>1. "record" \in Consumer
    BY DEF Consumer
  <2>2. WillShow(View, newest)
    <3>1. DOMAIN gpu = {} /\ View \in Targets
      BY <1>1 DEF Targets
    <3>. QED  BY <1>1, <3>1 DEF WillShow, Shows
  <2>3. CopyIsCurrent
    BY <1>6, <2>1 DEF CopyIsCurrent, Waiting
  <2>. QED  BY <1>6, <1>7, <2>1, <2>2, <2>3 DEF CopyInv
<1>. QED  BY <1>8, <1>9, <1>10, <1>11, <1>12 DEF TapInv

\* A stuttering step.
LEMMA StutterKeeps == TapInv /\ UNCHANGED vars => TapInv'
  BY DEF TapInv, vars, Shapes, TypeOK, AccountInv, Load, Owes, Target, MessageInv, Waiting,
         WillShow, Shows, EncoderInv, TickInv, Unowned, EncoderHas, CopyInv, CopyIsCurrent

-----------------------------------------------------------------------------
(* The theorems.                                                           *)

\* The invariant, from the first state and through every step.
THEOREM TapInvariant == Spec => []TapInv
<1>1. Init => TapInv
  BY InitHolds
<1>2. TapInv /\ [Next]_vars => TapInv'
  <2>1. TapInv /\ Next => TapInv'
    BY LoanScanKeeps, LoanTakenKeeps, NoLoanKeeps, OwnScanKeeps, OwnTakenKeeps, NoOwnKeeps,
       DrawKeeps, EndTapFrameKeeps, HandOffStreamKeeps, GpuCompletesKeeps, ThreadsKeep
       DEF Next, Tick
  <2>. QED  BY <2>1, StutterKeeps
<1>. QED  BY <1>1, <1>2, PTL DEF Spec

\* Every variable keeps its type; no output's frames are settled more often
\* than there were frames.
THEOREM TapTypeCorrect == Spec => []TypeOK
<1>1. TapInv => TypeOK
  BY DEF TapInv, Shapes
<1>. QED  BY <1>1, TapInvariant, PTL

\* What an encoder reads in place is the frame it was handed, whole: its draw is
\* complete, and the surface is in no later draw before the encoder has let it go
\* (zerocopy.rs SurfacePool::is_free and acquire, feed.rs, thread.rs DrawDone).
THEOREM FramesAreWhole == Spec => []NoTornFrame
<1>1. TapInv => NoTornFrame
  BY Zenon DEF TapInv, EncoderInv, NoTornFrame, Shows
<1>. QED  BY <1>1, TapInvariant, PTL

\* A CPU take's copy shows the newest View (render.rs readback_view), where no
\* stream runs beside it; beside one the View is drawn elsewhere.
THEOREM CopiesAreCurrent ==
  Spec => [](~(setup.record = "cpuReadback" /\ setup.stream) => CopyIsCurrent)
<1>1. TapInv => (~(setup.record = "cpuReadback" /\ setup.stream) => CopyIsCurrent)
  BY Zenon DEF TapInv, CopyInv, CopyIsCurrent, Waiting
<1>. QED  BY <1>1, TapInvariant, PTL

-----------------------------------------------------------------------------
(* The package.                                                            *)

Path == Package \cup {Packages!None}
LoadSteps == {"begin", "fallback", "manifest", "video", "audio", "itemAudio", "index",
              "bump", "clear"}
ResyncSteps == {"forget", "forgotten", "apply", "applyUnloadable"}
SnapshotOf == [show : {"UNLOADED", "LOADED", "RUNNING", "STOPPED"},
               onView : BOOLEAN, slateUp : BOOLEAN]
Jobs == [step : LoadSteps \cup ResyncSteps, kind : {"load", "resync"}, path : Path,
         version : Nat, snapshot : {Packages!NoSnapshot} \cup SnapshotOf]

ControlTyped ==
  /\ pkg \in Path /\ load \in Nat /\ versions \in Nat
  /\ show \in {"UNLOADED", "LOADED", "RUNNING", "STOPPED"}
  /\ onView \in BOOLEAN /\ slateUp \in BOOLEAN
WorldTyped == faults \in Nat /\ broken \subseteq Package /\ linked \in BOOLEAN
HeldTyped ==
  /\ attempts \in Nat /\ generation \in Nat
  /\ loaded \in [path : Path, version : Nat] /\ path \in Path
  /\ media \in [Packages!Part -> Nat]
JobTyped == job \in {Packages!Rest} \cup Jobs
ViewTyped ==
  /\ viewItem \in BOOLEAN /\ held \in BOOLEAN /\ running \in BOOLEAN
  /\ outgoing \in BOOLEAN /\ sounding \in Nat /\ synced \in BOOLEAN
CopyTyped ==
  /\ renderer \in [step : {"rest", "fonts", "images", "rings", "slate"}, seen : Nat]
  /\ uploads \in [Packages!Upload -> Nat]
  /\ driver \in [step : {"rest", "copy"}, seen : Nat] /\ library \in Nat
PackageTyped ==
  /\ ControlTyped /\ WorldTyped /\ HeldTyped /\ JobTyped /\ ViewTyped /\ CopyTyped

\* A load's number names its path, and none is newer than the control plane's.
Known(l) ==
  /\ l.version =< versions
  /\ l.version = 0 => l.path = Packages!None
  /\ l.version = load => l.path = pkg
VersionInv ==
  /\ load \in {0, versions} /\ (load = 0 => pkg = Packages!None)
  /\ Known(loaded) /\ (job.step # "rest" => Known(job))

\* A load goes over an older one, part by part.
LoadInv ==
  /\ job.step \in LoadSteps => loaded.version < job.version
  /\ job.step \in ResyncSteps => job.kind = "resync"
  /\ job.step # "rest" /\ job.kind = "resync" => job.snapshot \in SnapshotOf
PartInv ==
  /\ media["index"] =< attempts
  /\ job.step = "fallback" => media["index"] < attempts
  /\ job.step \in {"manifest", "video", "audio", "itemAudio", "index", "bump", "clear"} =>
       media["fallback"] = attempts /\ attempts > 0
  /\ job.step \in {"video", "audio", "itemAudio", "index", "bump", "clear"} =>
       media["recordDir"] = attempts /\ media["watches"] = attempts
  /\ job.step \in {"audio", "itemAudio", "index", "bump", "clear"} =>
       media["video"] = attempts
  /\ job.step \in {"itemAudio", "index", "bump", "clear"} => media["audio"] = attempts
  /\ job.step \in {"index", "bump", "clear"} => media["itemAudio"] = attempts
  /\ job.step \in {"bump", "clear"} => media["index"] = attempts

\* The newest load is held whole; a resync applies to it, or to nothing.
HoldsWhole == Packages!Whole /\ media["index"] # 0
WholeInv ==
  /\ loaded.version = versions /\ versions # 0 => HoldsWhole
  /\ job.step = "apply" =>
       \/ job.version = 0
       \/ loaded = [path |-> job.path, version |-> job.version] /\ HoldsWhole
  /\ job.step \in {"forgotten", "applyUnloadable"} =>
       loaded = Packages!NoLoad /\ media = [p \in Packages!Part |-> 0]

\* While the link is up the control plane says what the handler was told.
LinkedInv ==
  linked /\ job.step # "rest" =>
    /\ Packages!Told = [path |-> job.path, version |-> job.version]
    /\ job.kind = "resync" => onView = job.snapshot.onView

SyncedInv ==
  synced =>
    /\ linked /\ job.step = "rest"
    /\ load # 0 =>
         /\ Packages!Whole
         /\ loaded = (IF media["index"] = 0 THEN Packages!NoLoad ELSE Packages!Told)
         /\ onView => media["index"] # 0 \/ (held /\ (outgoing \/ slateUp))

\* Where a part is in place and the counter is still to move.
IndexDue == {"bump", "forgotten"}
AudioDue == IndexDue \cup {"itemAudio", "index"}
VideoDue == AudioDue \cup {"audio"}

\* What a reader copied since it saw the counter last is what there is.
RendererInv ==
  /\ renderer.seen =< generation
  /\ renderer.seen = generation =>
       /\ renderer.step # "fonts" =>
            uploads["fonts"] = media["index"] \/ job.step \in IndexDue
       /\ renderer.step \notin {"fonts", "images"} =>
            uploads["images"] = media["index"] \/ job.step \in IndexDue
       /\ renderer.step \in {"slate", "rest"} =>
            \/ uploads["rings"] \in {0, media["video"]}
            \/ job.step \in VideoDue
       /\ renderer.step = "rest" =>
            \/ uploads["slate"] = media["fallback"]
            \/ media["fallback"] # media["index"] \/ job.step \in IndexDue
DriverInv ==
  /\ driver.seen =< generation
  /\ driver.seen = generation /\ driver.step = "rest" =>
       library = media["audio"] \/ job.step \in AudioDue

PackageInv ==
  /\ PackageTyped /\ VersionInv /\ LoadInv /\ PartInv /\ WholeInv /\ LinkedInv
  /\ SyncedInv /\ RendererInv /\ DriverInv

-----------------------------------------------------------------------------
(* The handler's job, and the parts.                                       *)

LEMMA JobShape ==
  ASSUME JobTyped
  PROVE  /\ Packages!AtRest <=> job.step = "rest"
         /\ job.step # "rest" => job \in Jobs
         /\ job = Packages!Rest \/ job \in Jobs
         /\ \A s : Packages!At(s) <=> job.step # "rest" /\ job.step = s
<1>1. CASE job = Packages!Rest
  BY <1>1 DEF Packages!AtRest, Packages!Rest, Packages!At
<1>2. CASE job \in Jobs
  <2>1. job.step # "rest"
    BY <1>2 DEF Jobs, LoadSteps, ResyncSteps
  <2>2. job # Packages!Rest
    BY <2>1 DEF Packages!Rest
  <2>. QED  BY <1>2, <2>1, <2>2 DEF Packages!AtRest, Packages!At
<1>. QED  BY <1>1, <1>2 DEF JobTyped

\* The next step of a job is the same job.
LEMMA JobGoesOn ==
  ASSUME NEW j \in Jobs, NEW s \in LoadSteps \cup ResyncSteps
  PROVE  /\ [j EXCEPT !.step = s] \in Jobs
         /\ [j EXCEPT !.step = s].step = s /\ [j EXCEPT !.step = s].kind = j.kind
         /\ [j EXCEPT !.step = s].path = j.path
         /\ [j EXCEPT !.step = s].version = j.version
         /\ [j EXCEPT !.step = s].snapshot = j.snapshot
<1>. DEFINE Steps == LoadSteps \cup ResyncSteps
            Snaps == {Packages!NoSnapshot} \cup SnapshotOf
<1>. HIDE DEF Steps, Snaps
<1>1. j \in [step : Steps, kind : {"load", "resync"}, path : Path, version : Nat,
             snapshot : Snaps]
  BY Zenon DEF Jobs, Steps, Snaps
<1>2. s \in Steps
  BY DEF Steps
<1>3. /\ [j EXCEPT !.step = s] \in [step : Steps, kind : {"load", "resync"}, path : Path,
                                    version : Nat, snapshot : Snaps]
      /\ [j EXCEPT !.step = s].step = s /\ [j EXCEPT !.step = s].kind = j.kind
      /\ [j EXCEPT !.step = s].path = j.path
      /\ [j EXCEPT !.step = s].version = j.version
      /\ [j EXCEPT !.step = s].snapshot = j.snapshot
  BY <1>1, <1>2
<1>. QED  BY <1>3, Zenon DEF Jobs, Steps, Snaps

LEMMA PartsAre ==
  /\ "fallback" \in Packages!Part /\ "recordDir" \in Packages!Part
  /\ "watches" \in Packages!Part /\ "video" \in Packages!Part
  /\ "audio" \in Packages!Part /\ "itemAudio" \in Packages!Part
  /\ "index" \in Packages!Part
  /\ \A p \in Packages!Part :
       p \in {"fallback", "recordDir", "watches", "video", "audio", "itemAudio", "index"}
BY DEF Packages!Part

LEMMA UploadsAre ==
  /\ "fonts" \in Packages!Upload /\ "images" \in Packages!Upload
  /\ "rings" \in Packages!Upload /\ "slate" \in Packages!Upload
BY DEF Packages!Upload

LEMMA HeldParts ==
  ASSUME HeldTyped
  PROVE  /\ attempts \in Nat /\ generation \in Nat /\ loaded.version \in Nat
         /\ DOMAIN media = Packages!Part /\ \A p \in Packages!Part : media[p] \in Nat
BY DEF HeldTyped

\* The parts are one load's, and which of them have changed.
LEMMA WholeIs ==
  Packages!Whole <=>
    /\ media["fallback"] = media["index"] /\ media["recordDir"] = media["index"]
    /\ media["watches"] = media["index"] /\ media["video"] = media["index"]
    /\ media["audio"] = media["index"] /\ media["itemAudio"] = media["index"]
BY DEF Packages!Whole, Packages!Part

\* A part is written, and the others are left.
LEMMA PartWritten ==
  ASSUME NEW f \in [Packages!Part -> Nat], NEW p \in Packages!Part, NEW n \in Nat
  PROVE  /\ [f EXCEPT ![p] = n] \in [Packages!Part -> Nat]
         /\ [f EXCEPT ![p] = n][p] = n
         /\ \A q \in Packages!Part : q # p => [f EXCEPT ![p] = n][q] = f[q]
  OBVIOUS

-----------------------------------------------------------------------------
(* What a step leaves alone.                                               *)

\* The counter moves on.
LEMMA CounterMoves ==
  ASSUME HeldTyped, CopyTyped, RendererInv, DriverInv,
         renderer' = renderer, driver' = driver, generation' = generation + 1
  PROVE  RendererInv' /\ DriverInv'
<1>1. generation \in Nat /\ renderer.seen \in Nat /\ driver.seen \in Nat
  BY DEF HeldTyped, CopyTyped
<1>2. renderer.seen =< generation /\ driver.seen =< generation
  BY DEF RendererInv, DriverInv
<1>3. /\ renderer.seen =< generation' /\ renderer.seen # generation'
      /\ driver.seen =< generation' /\ driver.seen # generation'
  BY <1>1, <1>2
<1>. QED  BY <1>3 DEF RendererInv, DriverInv

\* The counter stands, and what changes has it still to move.
LEMMA CopiesStand ==
  ASSUME RendererInv, DriverInv, generation' = generation,
         renderer' = renderer, driver' = driver, uploads' = uploads, library' = library,
         \/ job'.step \in IndexDue
         \/ job.step \notin IndexDue /\ media'["index"] = media["index"],
         \/ job'.step \in VideoDue
         \/ job.step \notin VideoDue /\ media'["video"] = media["video"],
         \/ job'.step \in AudioDue
         \/ job.step \notin AudioDue /\ media'["audio"] = media["audio"],
         \/ job'.step \in IndexDue \/ media'["fallback"] # media'["index"]
         \/ job.step \notin IndexDue /\ media'["fallback"] = media["fallback"]
            /\ media'["index"] = media["index"]
  PROVE  RendererInv' /\ DriverInv'
<1>1. RendererInv'
  <2>. HIDE DEF IndexDue, VideoDue
  <2>. SUFFICES ASSUME renderer.seen = generation
                PROVE
       /\ renderer.step # "fonts" =>
            uploads["fonts"] = media'["index"] \/ job'.step \in IndexDue
       /\ renderer.step \notin {"fonts", "images"} =>
            uploads["images"] = media'["index"] \/ job'.step \in IndexDue
       /\ renderer.step \in {"slate", "rest"} =>
            \/ uploads["rings"] \in {0, media'["video"]}
            \/ job'.step \in VideoDue
       /\ renderer.step = "rest" =>
            \/ uploads["slate"] = media'["fallback"]
            \/ media'["fallback"] # media'["index"] \/ job'.step \in IndexDue
    BY Zenon DEF RendererInv
  <2>1. /\ renderer.step # "fonts" =>
            uploads["fonts"] = media["index"] \/ job.step \in IndexDue
        /\ renderer.step \notin {"fonts", "images"} =>
            uploads["images"] = media["index"] \/ job.step \in IndexDue
        /\ renderer.step \in {"slate", "rest"} =>
            uploads["rings"] \in {0, media["video"]} \/ job.step \in VideoDue
        /\ renderer.step = "rest" =>
            \/ uploads["slate"] = media["fallback"]
            \/ media["fallback"] # media["index"] \/ job.step \in IndexDue
    BY Zenon DEF RendererInv
  <2>. QED  BY <2>1
<1>2. DriverInv'
  <2>. HIDE DEF AudioDue
  <2>. QED  BY DEF DriverInv
<1>. QED  BY <1>1, <1>2

-----------------------------------------------------------------------------
(* The handler's steps.                                                    *)

ControlStands ==
  /\ pkg' = pkg /\ load' = load /\ versions' = versions /\ show' = show
  /\ onView' = onView /\ slateUp' = slateUp
WorldStands == faults' = faults /\ broken' = broken /\ linked' = linked
ReadersStand ==
  renderer' = renderer /\ uploads' = uploads /\ driver' = driver /\ library' = library
ViewStands ==
  /\ viewItem' = viewItem /\ held' = held /\ running' = running /\ outgoing' = outgoing
  /\ sounding' = sounding /\ synced' = synced

LEMMA StandsMeans ==
  /\ UNCHANGED Packages!controlVars => ControlStands
  /\ UNCHANGED Packages!worldVars => WorldStands
  /\ UNCHANGED Packages!readerVars => ReadersStand
  /\ UNCHANGED <<Packages!viewVars, sounding, synced>> => ViewStands
BY DEF Packages!controlVars, Packages!worldVars, Packages!readerVars, Packages!viewVars,
       ControlStands, WorldStands, ReadersStand, ViewStands

LEMMA TypesStand ==
  /\ ControlTyped /\ ControlStands => ControlTyped'
  /\ WorldTyped /\ WorldStands => WorldTyped'
  /\ CopyTyped /\ ReadersStand => CopyTyped'
  /\ ViewTyped /\ ViewStands => ViewTyped'
BY DEF ControlTyped, ControlStands, WorldTyped, WorldStands, CopyTyped, ReadersStand,
       ViewTyped, ViewStands

\* While a load is under way the engine does not hold the newest one.
LEMMA LoadIsOver ==
  ASSUME PackageInv, job.step \in LoadSteps
  PROVE  /\ loaded.version < versions /\ job.version > 0 /\ job \in Jobs
         /\ job.step # "rest" /\ ~synced
<1>1. job.step # "rest"
  BY DEF LoadSteps
<1>2. job \in Jobs /\ job.version \in Nat
  <2>1. job \in Jobs
    BY <1>1, JobShape DEF PackageInv, PackageTyped
  <2>. QED  BY <2>1 DEF Jobs
<1>3. loaded.version < job.version /\ job.version =< versions
  BY <1>1 DEF PackageInv, LoadInv, VersionInv, Known
<1>4. loaded.version \in Nat /\ versions \in Nat
  BY HeldParts DEF PackageInv, PackageTyped, ControlTyped
<1>. QED  BY <1>1, <1>2, <1>3, <1>4 DEF PackageInv, SyncedInv

LEMMA HandlerFrame ==
  ASSUME PackageInv, job.step # "rest", ControlStands, WorldStands, synced' = synced,
         \/ loaded' = loaded \/ loaded' = Packages!NoLoad
         \/ loaded' = [path |-> job.path, version |-> job.version],
         \/ job' = Packages!Rest
         \/ \E s \in LoadSteps \cup ResyncSteps : job' = [job EXCEPT !.step = s]
  PROVE  JobTyped' /\ VersionInv' /\ LinkedInv' /\ SyncedInv'
<1>. USE DEF PackageInv
<1>1. job \in Jobs
  BY JobShape DEF PackageTyped
<1>2. \/ job' = Packages!Rest /\ job'.step = "rest"
      \/ /\ job' \in Jobs /\ job'.kind = job.kind /\ job'.path = job.path
         /\ job'.version = job.version /\ job'.snapshot = job.snapshot
  <2>1. CASE job' = Packages!Rest
    BY <2>1 DEF Packages!Rest
  <2>2. CASE \E s \in LoadSteps \cup ResyncSteps : job' = [job EXCEPT !.step = s]
    <3>1. PICK s \in LoadSteps \cup ResyncSteps : job' = [job EXCEPT !.step = s]
      BY <2>2
    <3>2. PICK j : j = job /\ j \in Jobs
      BY <1>1
    <3>3. job' = [j EXCEPT !.step = s]
      BY <3>1, <3>2
    <3>. QED  BY <3>2, <3>3, JobGoesOn
  <2>. QED  BY <2>1, <2>2
<1>3. JobTyped'
  BY <1>2 DEF JobTyped
<1>4. pkg' = pkg /\ load' = load /\ versions' = versions /\ onView' = onView
      /\ linked' = linked
  BY DEF ControlStands, WorldStands
<1>5. VersionInv'
  <2>1. \A l : Known(l) => Known(l)'
    BY <1>4 DEF Known
  <2>2. Known(loaded) /\ Known(job) /\ load \in {0, versions}
        /\ (load = 0 => pkg = Packages!None)
    BY DEF VersionInv
  <2>3. Known(Packages!NoLoad)
    <3>1. versions \in Nat
      BY DEF PackageTyped, ControlTyped
    <3>. QED  BY <2>2, <3>1 DEF Known, Packages!NoLoad, Packages!None
  <2>4. Known([path |-> job.path, version |-> job.version])
    BY <2>2 DEF Known
  <2>5. PICK l : l = loaded' /\ Known(l)
    BY <2>2, <2>3, <2>4
  <2>6. Known(loaded)'
    <3>1. Known(l)'
      BY <2>1, <2>5
    <3>. QED  BY <2>5, <3>1 DEF Known
  <2>7. job'.step # "rest" => Known(job)'
    BY <1>2, <1>4, <2>2 DEF Known
  <2>. QED  BY <1>4, <2>2, <2>6, <2>7 DEF VersionInv
<1>6. LinkedInv'
  BY <1>2, <1>4 DEF LinkedInv, Packages!Told
<1>7. SyncedInv'
  BY DEF SyncedInv
<1>. QED  BY <1>3, <1>5, <1>6, <1>7

\* A load that fails goes to rest or, in a resync, on to forget.
LEMMA FailsMeans ==
  ASSUME PackageInv, job.step \in LoadSteps, Packages!Fails
  PROVE  \/ job' = Packages!Rest
         \/ /\ job' = [job EXCEPT !.step = "forget"] /\ job'.step = "forget"
            /\ job' \in Jobs /\ job.kind = "resync" /\ job'.kind = "resync"
            /\ job'.version = job.version /\ job'.path = job.path
            /\ job'.snapshot = job.snapshot
<1>1. job \in Jobs /\ "forget" \in LoadSteps \cup ResyncSteps
  BY LoadIsOver DEF ResyncSteps
<1>2. CASE job.kind = "load"
  BY <1>2 DEF Packages!Fails
<1>3. CASE job.kind # "load"
  <2>1. job' = [job EXCEPT !.step = "forget"] /\ job.kind = "resync"
    BY <1>1, <1>3 DEF Packages!Fails, Packages!Then, Jobs
  <2>2. PICK j : j = job /\ j \in Jobs
    BY <1>1
  <2>3. job' = [j EXCEPT !.step = "forget"]
    BY <2>1, <2>2
  <2>. QED  BY <1>1, <2>1, <2>2, <2>3, JobGoesOn
<1>. QED  BY <1>2, <1>3

\* A job goes on to its next step.
LEMMA StepMeans ==
  ASSUME job \in Jobs, NEW s \in LoadSteps \cup ResyncSteps,
         job' = [job EXCEPT !.step = s]
  PROVE  /\ job' \in Jobs /\ job'.step = s /\ job'.kind = job.kind
         /\ job'.version = job.version /\ job'.path = job.path
         /\ job'.snapshot = job.snapshot
<1>1. PICK j : j = job /\ j \in Jobs
  OBVIOUS
<1>2. job' = [j EXCEPT !.step = s]
  BY <1>1
<1>. QED  BY <1>1, <1>2, JobGoesOn

\* What a step of a load leaves true, short of recording it.
LEMMA LoadGoesOn ==
  ASSUME PackageInv, job.step \in LoadSteps, ControlStands, WorldStands,
         synced' = synced, loaded' = loaded,
         Packages!Fails \/ \E s \in LoadSteps : job' = [job EXCEPT !.step = s]
  PROVE  JobTyped' /\ VersionInv' /\ LoadInv' /\ WholeInv' /\ LinkedInv' /\ SyncedInv'
<1>1. job \in Jobs /\ job.step # "rest" /\ loaded.version < versions
  BY LoadIsOver
<1>2. \/ job' = Packages!Rest /\ job'.step = "rest"
      \/ /\ job'.step \in LoadSteps \cup {"forget"} /\ job'.kind = job.kind
         /\ job'.version = job.version /\ job'.snapshot = job.snapshot
         /\ job'.step = "forget" => job'.kind = "resync"
         /\ \E s \in LoadSteps \cup ResyncSteps : job' = [job EXCEPT !.step = s]
  <2>1. CASE Packages!Fails
    BY <2>1, FailsMeans DEF Packages!Rest, ResyncSteps
  <2>2. CASE \E s \in LoadSteps : job' = [job EXCEPT !.step = s]
    <3>1. PICK s \in LoadSteps : job' = [job EXCEPT !.step = s]
      BY <2>2
    <3>2. job'.step = s /\ job'.kind = job.kind /\ job'.version = job.version
          /\ job'.snapshot = job.snapshot /\ s \in LoadSteps \cup ResyncSteps
      BY <1>1, <3>1, StepMeans
    <3>3. s # "forget"
      BY <3>1 DEF LoadSteps
    <3>. QED  BY <3>1, <3>2, <3>3
  <2>. QED  BY <2>1, <2>2
<1>3. JobTyped' /\ VersionInv' /\ LinkedInv' /\ SyncedInv'
  BY <1>1, <1>2, HandlerFrame
<1>4. LoadInv'
  <2>1. loaded'.version < job.version
    BY DEF PackageInv, LoadInv
  <2>2. job.kind = "resync" => job.snapshot \in SnapshotOf
    BY <1>1 DEF PackageInv, LoadInv
  <2>. QED  BY <1>2, <2>1, <2>2 DEF LoadInv, LoadSteps, ResyncSteps
<1>5. WholeInv'
  <2>1. loaded'.version # versions'
    BY <1>1, HeldParts DEF PackageInv, PackageTyped, ControlStands, ControlTyped
  <2>. QED  BY <1>2, <2>1 DEF WholeInv, LoadSteps
<1>. QED  BY <1>3, <1>4, <1>5

\* A load writes to what it has and to no other part; the rest of the proof is
\* about the parts and the readers.
LEMMA LoadFrame ==
  ASSUME PackageInv, job.step \in LoadSteps, ControlStands, WorldStands, ViewStands,
         loaded' = loaded, HeldTyped', CopyTyped',
         Packages!Fails \/ \E s \in LoadSteps : job' = [job EXCEPT !.step = s],
         PartInv', RendererInv', DriverInv'
  PROVE  PackageInv'
BY LoadGoesOn, TypesStand DEF PackageInv, PackageTyped, ViewStands

LEMMA LoadBeginsKeeps == PackageInv /\ Packages!LoadBegins => PackageInv'
<1>. SUFFICES ASSUME PackageInv, Packages!LoadBegins
     PROVE  PackageInv'
  OBVIOUS
<1>1. /\ Packages!At("begin") /\ job' = [job EXCEPT !.step = "fallback"]
      /\ attempts' = attempts + 1 /\ path' = job.path
      /\ loaded' = loaded /\ media' = media /\ generation' = generation
      /\ ControlStands /\ WorldStands /\ ReadersStand /\ ViewStands
  BY StandsMeans DEF Packages!LoadBegins, Packages!Then
<1>2. HeldTyped /\ JobTyped /\ CopyTyped
  BY DEF PackageInv, PackageTyped
<1>3. /\ job.step = "begin" /\ job \in Jobs /\ job.step \in LoadSteps
      /\ "fallback" \in LoadSteps /\ "fallback" \in LoadSteps \cup ResyncSteps
  BY <1>1, <1>2, JobShape DEF LoadSteps
<1>4. job'.step = "fallback"
  BY <1>1, <1>3, StepMeans
<1>5. HeldTyped' /\ CopyTyped'
  <2>1. job.path \in Path
    BY <1>3 DEF Jobs
  <2>. QED  BY <1>1, <1>2, <2>1, TypesStand DEF HeldTyped
<1>6. PartInv'
  BY <1>1, <1>2, <1>4, HeldParts, PartsAre DEF PackageInv, PartInv
<1>7. RendererInv' /\ DriverInv'
  BY <1>1, <1>3, <1>4, CopiesStand
     DEF ReadersStand, PackageInv, IndexDue, VideoDue, AudioDue
<1>. QED  BY <1>1, <1>3, <1>5, <1>6, <1>7, LoadFrame

LEMMA ReadsFallbackKeeps == PackageInv /\ Packages!ReadsFallback => PackageInv'
<1>. SUFFICES ASSUME PackageInv, Packages!ReadsFallback
     PROVE  PackageInv'
  OBVIOUS
<1>1. /\ Packages!At("fallback")
      /\ \/ Packages!Fails /\ media' = media
         \/ /\ job' = [job EXCEPT !.step = "manifest"]
            /\ media' = [media EXCEPT !["fallback"] = attempts]
      /\ attempts' = attempts /\ path' = path
      /\ loaded' = loaded /\ generation' = generation
      /\ ControlStands /\ WorldStands /\ ReadersStand /\ ViewStands
  BY StandsMeans DEF Packages!ReadsFallback, Packages!Then, Packages!Write
<1>2. HeldTyped /\ JobTyped /\ CopyTyped
  BY DEF PackageInv, PackageTyped
<1>3. /\ job.step = "fallback" /\ job \in Jobs /\ job.step \in LoadSteps
      /\ "manifest" \in LoadSteps /\ "manifest" \in LoadSteps \cup ResyncSteps
  BY <1>1, <1>2, JobShape DEF LoadSteps
<1>4. \/ media' = media /\ job'.step \in {"rest", "forget"}
      \/ media' = [media EXCEPT !["fallback"] = attempts] /\ job'.step = "manifest"
  BY <1>1, <1>3, FailsMeans, StepMeans DEF Packages!Rest
<1>5. /\ media' \in [Packages!Part -> Nat]
      /\ media'["index"] = media["index"] /\ media'["video"] = media["video"]
      /\ media'["audio"] = media["audio"]
      /\ \/ media'["fallback"] = media["fallback"] /\ job'.step # "manifest"
         \/ media'["fallback"] = attempts
  <2>1. media \in [Packages!Part -> Nat] /\ attempts \in Nat
    BY <1>2 DEF HeldTyped
  <2>. QED  BY <1>4, <2>1, PartsAre, PartWritten
<1>6. HeldTyped' /\ CopyTyped'
  BY <1>1, <1>2, <1>5, TypesStand DEF HeldTyped
<1>7. media["index"] < attempts /\ attempts \in Nat /\ media["index"] \in Nat
  BY <1>2, <1>3, HeldParts, PartsAre DEF PackageInv, PartInv
<1>8. PartInv'
  BY <1>1, <1>4, <1>5, <1>7 DEF PartInv
<1>9. RendererInv' /\ DriverInv'
  BY <1>1, <1>3, <1>4, <1>5, <1>7, CopiesStand
     DEF ReadersStand, PackageInv, IndexDue, VideoDue, AudioDue
<1>. QED  BY <1>1, <1>3, <1>6, <1>8, <1>9, LoadFrame

LEMMA ReadsManifestKeeps == PackageInv /\ Packages!ReadsManifest => PackageInv'
<1>. SUFFICES ASSUME PackageInv, Packages!ReadsManifest
     PROVE  PackageInv'
  OBVIOUS
<1>1. /\ Packages!At("manifest")
      /\ \/ Packages!Fails /\ media' = media
         \/ /\ job' = [job EXCEPT !.step = "video"]
            /\ media' = [media EXCEPT !["recordDir"] = attempts, !["watches"] = attempts]
      /\ attempts' = attempts /\ path' = path
      /\ loaded' = loaded /\ generation' = generation
      /\ ControlStands /\ WorldStands /\ ReadersStand /\ ViewStands
  BY StandsMeans DEF Packages!ReadsManifest, Packages!Then
<1>2. HeldTyped /\ JobTyped /\ CopyTyped
  BY DEF PackageInv, PackageTyped
<1>3. /\ job.step = "manifest" /\ job \in Jobs /\ job.step \in LoadSteps
      /\ "video" \in LoadSteps /\ "video" \in LoadSteps \cup ResyncSteps
  BY <1>1, <1>2, JobShape DEF LoadSteps
<1>4. \/ media' = media /\ job'.step \in {"rest", "forget"}
      \/ /\ media' = [media EXCEPT !["recordDir"] = attempts, !["watches"] = attempts]
         /\ job'.step = "video"
  BY <1>1, <1>3, FailsMeans, StepMeans DEF Packages!Rest
<1>5. /\ media' \in [Packages!Part -> Nat]
      /\ media'["index"] = media["index"] /\ media'["video"] = media["video"]
      /\ media'["audio"] = media["audio"] /\ media'["fallback"] = media["fallback"]
      /\ \/ job'.step # "video"
         \/ media'["recordDir"] = attempts /\ media'["watches"] = attempts
  <2>1. media \in [Packages!Part -> Nat] /\ attempts \in Nat
    BY <1>2 DEF HeldTyped
  <2>. QED  BY <1>4, <2>1, PartsAre
<1>6. HeldTyped' /\ CopyTyped'
  BY <1>1, <1>2, <1>5, TypesStand DEF HeldTyped
<1>7. /\ media["index"] =< attempts /\ attempts \in Nat /\ attempts > 0
      /\ media["fallback"] = attempts
  BY <1>2, <1>3, HeldParts, PartsAre DEF PackageInv, PartInv
<1>8. PartInv'
  BY <1>1, <1>4, <1>5, <1>7 DEF PartInv
<1>9. RendererInv' /\ DriverInv'
  BY <1>1, <1>3, <1>4, <1>5, <1>7, CopiesStand
     DEF ReadersStand, PackageInv, IndexDue, VideoDue, AudioDue
<1>. QED  BY <1>1, <1>3, <1>6, <1>8, <1>9, LoadFrame

\* A part of the media goes in place; the step after it is then due.
LEMMA InstallsMediaKeeps == PackageInv /\ Packages!InstallsMedia => PackageInv'
<1>. SUFFICES ASSUME PackageInv, Packages!InstallsMedia
     PROVE  PackageInv'
  OBVIOUS
<1>1. /\ \/ Packages!At("video") /\ Packages!Then("audio") /\ Packages!Write("video")
         \/ Packages!At("audio") /\ Packages!Then("itemAudio") /\ Packages!Write("audio")
         \/ Packages!At("itemAudio") /\ Packages!Then("index")
            /\ Packages!Write("itemAudio")
      /\ attempts' = attempts /\ path' = path
      /\ loaded' = loaded /\ generation' = generation
      /\ ControlStands /\ WorldStands /\ ReadersStand /\ ViewStands
  BY StandsMeans DEF Packages!InstallsMedia
<1>2. HeldTyped /\ JobTyped /\ CopyTyped
  BY DEF PackageInv, PackageTyped
<1>3. PICK p, s :
        /\ \/ job.step = "video" /\ p = "video" /\ s = "audio"
           \/ job.step = "audio" /\ p = "audio" /\ s = "itemAudio"
           \/ job.step = "itemAudio" /\ p = "itemAudio" /\ s = "index"
        /\ job' = [job EXCEPT !.step = s] /\ media' = [media EXCEPT ![p] = attempts]
  BY <1>1, <1>2, JobShape DEF Packages!Then, Packages!Write
<1>4. /\ job.step \in LoadSteps /\ s \in LoadSteps /\ s \in LoadSteps \cup ResyncSteps
      /\ p \in Packages!Part /\ p \in {"video", "audio", "itemAudio"}
  BY <1>3, PartsAre DEF LoadSteps
<1>5. job \in Jobs /\ job'.step = s
  BY <1>3, <1>4, LoadIsOver, StepMeans
<1>6. /\ media' \in [Packages!Part -> Nat] /\ media'[p] = attempts
      /\ \A q \in Packages!Part : q # p => media'[q] = media[q]
  <2>1. media \in [Packages!Part -> Nat] /\ attempts \in Nat
    BY <1>2 DEF HeldTyped
  <2>. QED  BY <1>3, <1>4, <2>1, PartWritten
<1>7. /\ media'["index"] = media["index"] /\ media'["fallback"] = media["fallback"]
      /\ media'["recordDir"] = media["recordDir"] /\ media'["watches"] = media["watches"]
      /\ p # "video" => media'["video"] = media["video"]
      /\ p # "audio" => media'["audio"] = media["audio"]
      /\ p # "itemAudio" => media'["itemAudio"] = media["itemAudio"]
  BY <1>4, <1>6, PartsAre
<1>8. HeldTyped' /\ CopyTyped'
  BY <1>1, <1>2, <1>6, TypesStand DEF HeldTyped
<1>9. PartInv'
  <2>1. PartInv
    BY DEF PackageInv
  <2>. QED  BY <1>1, <1>3, <1>5, <1>6, <1>7, <2>1 DEF PartInv
<1>10. RendererInv' /\ DriverInv'
  BY <1>1, <1>3, <1>5, <1>7, CopiesStand
     DEF ReadersStand, PackageInv, IndexDue, VideoDue, AudioDue
<1>11. Packages!Fails \/ \E t \in LoadSteps : job' = [job EXCEPT !.step = t]
  BY <1>3, <1>4
<1>. QED  BY <1>1, <1>4, <1>8, <1>9, <1>10, <1>11, LoadFrame

\* The index is in place, and only then the counter moves on.
LEMMA InstallsKeeps == PackageInv /\ Packages!Installs => PackageInv'
<1>. SUFFICES ASSUME PackageInv, Packages!Installs
     PROVE  PackageInv'
  OBVIOUS
<1>1. /\ \/ /\ Packages!At("index") /\ job' = [job EXCEPT !.step = "bump"]
            /\ media' = [media EXCEPT !["index"] = attempts] /\ generation' = generation
         \/ /\ Packages!At("bump") /\ job' = [job EXCEPT !.step = "clear"]
            /\ generation' = generation + 1 /\ media' = media
      /\ attempts' = attempts /\ path' = path /\ loaded' = loaded
      /\ ControlStands /\ WorldStands /\ ReadersStand /\ ViewStands
  BY StandsMeans DEF Packages!Installs, Packages!InstallsIndex, Packages!Then,
                     Packages!Write
<1>2. HeldTyped /\ JobTyped /\ CopyTyped
  BY DEF PackageInv, PackageTyped
<1>3. /\ job \in Jobs /\ job.step \in LoadSteps
      /\ "bump" \in LoadSteps /\ "bump" \in LoadSteps \cup ResyncSteps
      /\ "clear" \in LoadSteps /\ "clear" \in LoadSteps \cup ResyncSteps
  BY <1>1, <1>2, JobShape DEF LoadSteps
<1>4. media \in [Packages!Part -> Nat] /\ attempts \in Nat
  BY <1>2 DEF HeldTyped
<1>5. PartInv
  BY DEF PackageInv
<1>6. CASE Packages!At("index")
  <2>1. job.step = "index"
    BY <1>2, <1>6, JobShape
  <2>2. /\ job' = [job EXCEPT !.step = "bump"] /\ generation' = generation
        /\ media' = [media EXCEPT !["index"] = attempts]
    BY <1>1, <1>2, <2>1, JobShape
  <2>3. job'.step = "bump"
    BY <1>3, <2>2, StepMeans
  <2>4. /\ media' \in [Packages!Part -> Nat] /\ media'["index"] = attempts
        /\ \A q \in Packages!Part : q # "index" => media'[q] = media[q]
    BY <1>4, <2>2, PartsAre, PartWritten
  <2>5. HeldTyped' /\ CopyTyped'
    BY <1>1, <1>2, <2>2, <2>4, TypesStand DEF HeldTyped
  <2>6. PartInv'
    BY <1>1, <1>4, <1>5, <2>1, <2>3, <2>4, PartsAre DEF PartInv
  <2>7. RendererInv' /\ DriverInv'
    BY <1>1, <2>1, <2>2, <2>3, CopiesStand
       DEF ReadersStand, PackageInv, IndexDue, VideoDue, AudioDue
  <2>. QED  BY <1>1, <1>3, <2>2, <2>5, <2>6, <2>7, LoadFrame
<1>7. CASE Packages!At("bump")
  <2>1. job.step = "bump"
    BY <1>2, <1>7, JobShape
  <2>2. /\ job' = [job EXCEPT !.step = "clear"] /\ generation' = generation + 1
        /\ media' = media
    BY <1>1, <1>2, <2>1, JobShape
  <2>3. job'.step = "clear"
    BY <1>3, <2>2, StepMeans
  <2>4. HeldTyped' /\ CopyTyped'
    BY <1>1, <1>2, <2>2, TypesStand DEF HeldTyped
  <2>5. PartInv'
    BY <1>1, <1>5, <2>1, <2>2, <2>3 DEF PartInv
  <2>6. RendererInv' /\ DriverInv'
    BY <1>1, <1>2, <2>2, CounterMoves DEF ReadersStand, PackageInv
  <2>. QED  BY <1>1, <1>3, <2>2, <2>4, <2>5, <2>6, LoadFrame
<1>. QED  BY <1>1, <1>6, <1>7

\* The load is recorded once every part of it is in place.
LEMMA LoadEndsKeeps == PackageInv /\ Packages!LoadEnds => PackageInv'
<1>. SUFFICES ASSUME PackageInv, Packages!LoadEnds
     PROVE  PackageInv'
  OBVIOUS
<1>1. /\ Packages!At("clear") /\ viewItem' = FALSE /\ held' = FALSE
      /\ loaded' = [path |-> job.path, version |-> job.version]
      /\ IF job.kind = "load" THEN job' = Packages!Rest
                              ELSE job' = [job EXCEPT !.step = "apply"]
      /\ attempts' = attempts /\ path' = path /\ media' = media
      /\ generation' = generation /\ running' = running /\ outgoing' = outgoing
      /\ sounding' = sounding /\ synced' = synced
      /\ ControlStands /\ WorldStands /\ ReadersStand
  BY StandsMeans DEF Packages!LoadEnds, Packages!Then
<1>2. HeldTyped /\ JobTyped /\ CopyTyped /\ ViewTyped /\ ControlTyped /\ WorldTyped
  BY DEF PackageInv, PackageTyped
<1>3. /\ job.step = "clear" /\ job \in Jobs /\ job.step \in LoadSteps
      /\ "apply" \in LoadSteps \cup ResyncSteps
  BY <1>1, <1>2, JobShape DEF LoadSteps, ResyncSteps
<1>4. \/ job' = Packages!Rest /\ job'.step = "rest"
      \/ /\ job' = [job EXCEPT !.step = "apply"] /\ job'.step = "apply"
         /\ job.kind = "resync" /\ job'.kind = "resync" /\ job'.version = job.version
         /\ job'.path = job.path /\ job'.snapshot = job.snapshot
  <2>1. CASE job.kind = "load"
    BY <1>1, <2>1 DEF Packages!Rest
  <2>2. CASE job.kind # "load"
    <3>1. job.kind = "resync"
      BY <1>3, <2>2 DEF Jobs
    <3>2. job' = [job EXCEPT !.step = "apply"]
      BY <1>1, <2>2
    <3>. QED  BY <1>3, <3>1, <3>2, StepMeans
  <2>. QED  BY <2>1, <2>2
<1>5. JobTyped' /\ VersionInv' /\ LinkedInv' /\ SyncedInv'
  BY <1>1, <1>3, <1>4, LoadIsOver, HandlerFrame
<1>6. HeldTyped' /\ CopyTyped' /\ ViewTyped'
  <2>1. job.path \in Path /\ job.version \in Nat
    BY <1>3 DEF Jobs
  <2>. QED  BY <1>1, <1>2, <2>1, TypesStand DEF HeldTyped, ViewTyped
<1>7. LoadInv'
  BY <1>1, <1>3, <1>4 DEF PackageInv, LoadInv, LoadSteps, ResyncSteps
<1>8. PartInv'
  BY <1>1, <1>4 DEF PackageInv, PartInv
<1>9. HoldsWhole'
  <2>1. attempts \in Nat /\ attempts > 0 /\ media["index"] = attempts
    BY <1>2, <1>3, HeldParts DEF PackageInv, PartInv
  <2>2. HoldsWhole
    BY <1>3, <2>1, WholeIs DEF PackageInv, PartInv, HoldsWhole
  <2>. QED  BY <1>1, <2>2 DEF HoldsWhole, Packages!Whole
<1>10. WholeInv'
  BY <1>1, <1>4, <1>9 DEF WholeInv
<1>11. RendererInv' /\ DriverInv'
  BY <1>1, <1>3, <1>4, CopiesStand
     DEF ReadersStand, PackageInv, IndexDue, VideoDue, AudioDue
<1>. QED  BY <1>1, <1>2, <1>5, <1>6, <1>7, <1>8, <1>10, <1>11, TypesStand
          DEF PackageInv, PackageTyped

\* The parts go, and then the counter moves on.
LEMMA ForgetKeeps == PackageInv /\ Packages!Forget => PackageInv'
<1>. SUFFICES ASSUME PackageInv, Packages!Forget
     PROVE  PackageInv'
  OBVIOUS
<1>1. /\ \/ /\ Packages!At("forget") /\ job' = [job EXCEPT !.step = "forgotten"]
            /\ loaded' = Packages!NoLoad /\ media' = [p \in Packages!Part |-> 0]
            /\ generation' = generation
         \/ /\ Packages!At("forgotten") /\ job' = [job EXCEPT !.step = "applyUnloadable"]
            /\ generation' = generation + 1 /\ loaded' = loaded /\ media' = media
      /\ attempts' = attempts /\ path' = path
      /\ ControlStands /\ WorldStands /\ ReadersStand /\ ViewStands
  BY StandsMeans DEF Packages!Forget, Packages!Then
<1>2. HeldTyped /\ JobTyped /\ CopyTyped /\ ViewTyped /\ ControlTyped /\ WorldTyped
  BY DEF PackageInv, PackageTyped
<1>3. /\ job \in Jobs /\ job.step \in {"forget", "forgotten"}
      /\ job.step \in ResyncSteps /\ job.step # "rest"
      /\ "forgotten" \in LoadSteps \cup ResyncSteps
      /\ "applyUnloadable" \in LoadSteps \cup ResyncSteps
  BY <1>1, <1>2, JobShape DEF ResyncSteps
<1>4. /\ job' = [job EXCEPT !.step = IF job.step = "forget" THEN "forgotten"
                                                             ELSE "applyUnloadable"]
      /\ job'.step = (IF job.step = "forget" THEN "forgotten" ELSE "applyUnloadable")
      /\ job'.kind = job.kind /\ job'.snapshot = job.snapshot
      /\ job'.version = job.version /\ job'.path = job.path
  BY <1>1, <1>2, <1>3, JobShape, StepMeans
<1>5. \E s \in LoadSteps \cup ResyncSteps : job' = [job EXCEPT !.step = s]
  BY <1>3, <1>4
<1>6. loaded' = loaded \/ loaded' = Packages!NoLoad
  BY <1>1
<1>7. JobTyped' /\ VersionInv' /\ LinkedInv' /\ SyncedInv'
  BY <1>1, <1>3, <1>5, <1>6, HandlerFrame DEF ViewStands
<1>8. loaded' = Packages!NoLoad /\ media' = [p \in Packages!Part |-> 0]
  BY <1>1, <1>2, <1>3, JobShape DEF PackageInv, WholeInv
<1>9. HeldTyped'
  <2>1. Packages!NoLoad \in [path : Path, version : Nat]
    BY DEF Packages!NoLoad, Path
  <2>. QED  BY <1>1, <1>2, <1>8, <2>1 DEF HeldTyped
<1>10. LoadInv'
  BY <1>3, <1>4 DEF PackageInv, LoadInv, LoadSteps, ResyncSteps
<1>11. PartInv'
  BY <1>1, <1>2, <1>3, <1>4, <1>8, PartsAre, HeldParts DEF PartInv
<1>12. WholeInv'
  <2>1. Known(Packages!NoLoad) /\ versions' = versions
    BY <1>7, <1>8, <1>1 DEF VersionInv, ControlStands, Known
  <2>2. Packages!NoLoad.version = 0
    BY DEF Packages!NoLoad
  <2>. QED  BY <1>3, <1>4, <1>8, <2>1, <2>2 DEF WholeInv
<1>13. RendererInv' /\ DriverInv'
  <2>1. CASE job.step = "forget"
    <3>1. generation' = generation
      BY <1>1, <1>2, <2>1, JobShape
    <3>. QED  BY <1>1, <1>4, <2>1, <3>1, CopiesStand
              DEF ReadersStand, PackageInv, IndexDue, VideoDue, AudioDue
  <2>2. CASE job.step = "forgotten"
    <3>1. generation' = generation + 1
      BY <1>1, <1>2, <2>2, JobShape
    <3>. QED  BY <1>1, <1>2, <3>1, CounterMoves DEF ReadersStand, PackageInv
  <2>. QED  BY <1>3, <2>1, <2>2
<1>. QED  BY <1>1, <1>2, <1>7, <1>9, <1>10, <1>11, <1>12, <1>13, TypesStand
          DEF PackageInv, PackageTyped

\* The resync's snapshot is applied: what the control plane says then is what the
\* handler was told, or the link has gone.
LEMMA ResyncAppliesKeeps == PackageInv /\ Packages!ResyncApplies => PackageInv'
<1>. SUFFICES ASSUME PackageInv, Packages!ResyncApplies
     PROVE  PackageInv'
  OBVIOUS
<1>. DEFINE lost == job.step = "applyUnloadable"
<1>1. /\ Packages!At("apply") \/ Packages!At("applyUnloadable")
      /\ running' = (job.snapshot.show = "RUNNING") /\ viewItem' = job.snapshot.onView
      /\ held' = (job.snapshot.slateUp \/ (lost /\ job.snapshot.onView))
      /\ outgoing' = (outgoing \/ (lost /\ job.snapshot.onView))
      /\ job' = Packages!Rest /\ synced' = linked
      /\ attempts' = attempts /\ loaded' = loaded /\ path' = path /\ media' = media
      /\ generation' = generation /\ sounding' = sounding
      /\ ControlStands /\ WorldStands /\ ReadersStand
  BY StandsMeans DEF Packages!ResyncApplies, Packages!SlateAfter, Packages!packageVars
<1>2. HeldTyped /\ JobTyped /\ CopyTyped /\ ViewTyped /\ ControlTyped /\ WorldTyped
  BY DEF PackageInv, PackageTyped
<1>3. /\ job \in Jobs /\ job.step \in {"apply", "applyUnloadable"}
      /\ job.step # "rest" /\ job.kind = "resync" /\ job'.step = "rest"
      /\ job.snapshot \in SnapshotOf
  BY <1>1, <1>2, JobShape DEF PackageInv, LoadInv, ResyncSteps, Packages!Rest
<1>4. JobTyped' /\ VersionInv'
  <2>1. Known(loaded)' /\ load' \in {0, versions'} /\ (load' = 0 => pkg' = Packages!None)
    BY <1>1 DEF PackageInv, VersionInv, Known, ControlStands
  <2>. QED  BY <1>1, <1>3, <2>1 DEF JobTyped, VersionInv
<1>5. HeldTyped' /\ CopyTyped' /\ ViewTyped'
  <2>1. job.snapshot.onView \in BOOLEAN /\ job.snapshot.slateUp \in BOOLEAN
    BY <1>3 DEF SnapshotOf
  <2>2. HeldTyped' /\ CopyTyped'
    BY <1>1, <1>2, TypesStand DEF HeldTyped
  <2>3. viewItem' \in BOOLEAN /\ sounding' \in Nat /\ synced' \in BOOLEAN
    BY <1>1, <1>2, <2>1 DEF ViewTyped, WorldTyped
  <2>4. running' \in BOOLEAN /\ held' \in BOOLEAN /\ outgoing' \in BOOLEAN
    BY <1>1, <1>2, <2>1 DEF ViewTyped
  <2>. QED  BY <2>2, <2>3, <2>4 DEF ViewTyped
<1>6. LoadInv' /\ PartInv' /\ LinkedInv'
  BY <1>1, <1>3 DEF PackageInv, LoadInv, PartInv, LinkedInv, LoadSteps, ResyncSteps
<1>7. WholeInv'
  BY <1>1, <1>3 DEF PackageInv, WholeInv, HoldsWhole, ControlStands, Packages!Whole
<1>8. RendererInv' /\ DriverInv'
  BY <1>1, <1>3, CopiesStand
     DEF ReadersStand, PackageInv, IndexDue, VideoDue, AudioDue
<1>9. SyncedInv'
  <2>. SUFFICES ASSUME linked
       PROVE  /\ linked' /\ job'.step = "rest"
              /\ load' # 0 =>
                   /\ Packages!Whole'
                   /\ loaded' = (IF media'["index"] = 0 THEN Packages!NoLoad
                                                        ELSE Packages!Told')
                   /\ onView' => media'["index"] # 0 \/ (held' /\ (outgoing' \/ slateUp'))
    BY <1>1 DEF SyncedInv
  <2>1. /\ Packages!Told = [path |-> job.path, version |-> job.version]
        /\ onView = job.snapshot.onView
    BY <1>3 DEF PackageInv, LinkedInv
  <2>2. linked' /\ job'.step = "rest" /\ load' = load /\ onView' = onView
        /\ Packages!Told' = Packages!Told
    BY <1>1, <1>3 DEF WorldStands, ControlStands, Packages!Told
  <2>3. ASSUME load # 0
        PROVE  /\ Packages!Whole
               /\ loaded = (IF media["index"] = 0 THEN Packages!NoLoad
                                                  ELSE Packages!Told)
               /\ onView => media["index"] # 0 \/ (held' /\ outgoing')
    <3>1. CASE job.step = "apply"
      <4>1. job.version # 0
        BY <2>1, <2>3 DEF Packages!Told
      <4>. QED  BY <2>1, <3>1, <4>1 DEF PackageInv, WholeInv, HoldsWhole
    <3>2. CASE job.step = "applyUnloadable"
      <4>1. loaded = Packages!NoLoad /\ media = [p \in Packages!Part |-> 0]
        BY <3>2 DEF PackageInv, WholeInv
      <4>2. media["index"] = 0 /\ Packages!Whole
        BY <4>1, PartsAre DEF Packages!Whole
      <4>3. onView => held' /\ outgoing'
        BY <1>1, <2>1, <3>2
      <4>. QED  BY <4>1, <4>2, <4>3
    <3>. QED  BY <1>3, <3>1, <3>2
  <2>4. Packages!Whole' <=> Packages!Whole
    BY <1>1 DEF Packages!Whole
  <2>. QED  BY <1>1, <2>2, <2>3, <2>4
<1>. QED  BY <1>1, <1>2, <1>4, <1>5, <1>6, <1>7, <1>8, <1>9, TypesStand
          DEF PackageInv, PackageTyped

-----------------------------------------------------------------------------
(* The control plane, the link and the faults.                             *)

HeldStands ==
  /\ attempts' = attempts /\ loaded' = loaded /\ path' = path /\ media' = media
  /\ generation' = generation

LEMMA HeldStandsMeans == UNCHANGED Packages!packageVars <=> HeldStands
BY DEF Packages!packageVars, HeldStands

\* The engine's package and its handler are left alone, whatever the control
\* plane then names, short of another load.
LEMMA EngineStands ==
  ASSUME PackageInv, job' = job, HeldStands, versions' = versions,
         \/ load' = load /\ pkg' = pkg
         \/ load' = 0 /\ pkg' = Packages!None
  PROVE  HeldTyped' /\ JobTyped' /\ VersionInv' /\ LoadInv' /\ PartInv' /\ WholeInv'
<1>1. HeldTyped' /\ JobTyped' /\ LoadInv' /\ PartInv'
  BY DEF PackageInv, PackageTyped, HeldTyped, JobTyped, LoadInv, PartInv, HeldStands
<1>2. VersionInv'
  BY DEF PackageInv, VersionInv, Known, HeldStands
<1>3. WholeInv'
  BY DEF PackageInv, WholeInv, HoldsWhole, Packages!Whole, HeldStands
<1>. QED  BY <1>1, <1>2, <1>3

LEMMA CopiesStandStill ==
  ASSUME PackageInv, HeldStands, ReadersStand, job' = job
  PROVE  RendererInv' /\ DriverInv'
BY DEF PackageInv, RendererInv, DriverInv, HeldStands, ReadersStand

\* A command that no load comes with.
LEMMA CommandFrame ==
  ASSUME PackageInv, job' = job, HeldStands, ReadersStand, WorldStands, ControlTyped',
         ViewTyped', versions' = versions, Packages!Commands, synced' = FALSE,
         \/ load' = load /\ pkg' = pkg
         \/ load' = 0 /\ pkg' = Packages!None
  PROVE  PackageInv'
<1>1. LinkedInv'
  <2>1. linked' => job'.step = "rest"
    BY JobShape DEF Packages!Commands, WorldStands, PackageInv, PackageTyped
  <2>. QED  BY <2>1 DEF LinkedInv
<1>2. SyncedInv'
  BY DEF SyncedInv
<1>3. WorldTyped' /\ CopyTyped'
  BY TypesStand DEF PackageInv, PackageTyped
<1>. QED  BY <1>1, <1>2, <1>3, EngineStands, CopiesStandStill DEF PackageInv, PackageTyped

LEMMA LoadKeeps == ASSUME NEW p \in Package, PackageInv, Packages!Load(p)
                   PROVE  PackageInv'
<1>1. /\ Packages!Commands /\ versions' = versions + 1 /\ load' = versions' /\ pkg' = p
      /\ show' = "LOADED" /\ onView' = FALSE /\ slateUp' = FALSE /\ synced' = FALSE
      /\ job' = IF linked THEN Packages!Begin("load", p, load', Packages!NoSnapshot)
                          ELSE job
      /\ viewItem' = viewItem /\ held' = held /\ running' = running
      /\ outgoing' = outgoing /\ sounding' = sounding
      /\ HeldStands /\ WorldStands /\ ReadersStand
  BY StandsMeans, HeldStandsMeans DEF Packages!Load, Packages!viewVars
<1>2. HeldTyped /\ JobTyped /\ CopyTyped /\ ViewTyped /\ ControlTyped /\ WorldTyped
  BY DEF PackageInv, PackageTyped
<1>3. versions \in Nat /\ loaded.version \in Nat /\ loaded.version =< versions
  BY <1>2, HeldParts DEF PackageInv, VersionInv, Known, ControlTyped
<1>4. load' \in Nat /\ load' = versions' /\ load' > versions /\ load' # 0
  BY <1>1, <1>3
<1>5. ControlTyped' /\ ViewTyped' /\ WorldTyped' /\ CopyTyped' /\ HeldTyped'
  BY <1>1, <1>2, <1>4, TypesStand
     DEF ControlTyped, Path, ViewTyped, HeldTyped, HeldStands
<1>6. CASE linked
  <2>1. job' = [step |-> "begin", kind |-> "load", path |-> p, version |-> load',
                snapshot |-> Packages!NoSnapshot]
    BY <1>1, <1>6 DEF Packages!Begin
  <2>2. job' \in Jobs
    BY <1>4, <2>1 DEF Jobs, LoadSteps, Path
  <2>3. /\ job'.step = "begin" /\ job'.kind = "load" /\ job'.path = p
        /\ job'.version = load'
    BY <2>1
  <2>4. job.step = "rest"
    BY <1>1, <1>2, <1>6, JobShape DEF Packages!Commands
  <2>5. JobTyped'
    BY <2>2 DEF JobTyped
  <2>6. VersionInv'
    <3>1. Known(loaded)'
      BY <1>1, <1>3, <1>4 DEF PackageInv, VersionInv, Known, HeldStands
    <3>2. Known(job)'
      BY <1>1, <1>4, <2>3 DEF Known
    <3>. QED  BY <1>4, <3>1, <3>2 DEF VersionInv
  <2>7. LoadInv'
    BY <1>1, <1>3, <1>4, <2>3 DEF LoadInv, HeldStands, ResyncSteps
  <2>8. PartInv'
    BY <1>1, <2>3 DEF PackageInv, PartInv, HeldStands
  <2>9. WholeInv'
    BY <1>1, <1>3, <1>4, <2>3 DEF WholeInv, HeldStands
  <2>10. LinkedInv' /\ SyncedInv'
    BY <1>1, <2>3 DEF LinkedInv, SyncedInv, Packages!Told
  <2>11. RendererInv' /\ DriverInv'
    BY <1>1, <2>3, <2>4, CopiesStand
       DEF ReadersStand, HeldStands, PackageInv, IndexDue, VideoDue, AudioDue
  <2>. QED  BY <1>5, <2>5, <2>6, <2>7, <2>8, <2>9, <2>10, <2>11
            DEF PackageInv, PackageTyped
<1>7. CASE ~linked
  <2>1. job' = job /\ ~linked'
    BY <1>1, <1>7 DEF WorldStands
  <2>2. JobTyped' /\ LoadInv' /\ PartInv'
    BY <1>1, <1>2, <2>1 DEF PackageInv, JobTyped, LoadInv, PartInv, HeldStands
  <2>3. VersionInv'
    <3>1. Known(loaded)'
      BY <1>1, <1>3, <1>4 DEF PackageInv, VersionInv, Known, HeldStands
    <3>2. ASSUME job.step # "rest"
          PROVE  Known(job)'
      <4>1. job.version \in Nat
        BY <1>2, <3>2, JobShape DEF Jobs
      <4>2. Known(job)
        BY <3>2 DEF PackageInv, VersionInv
      <4>. QED  BY <1>1, <1>3, <1>4, <2>1, <4>1, <4>2 DEF Known
    <3>. QED  BY <1>4, <2>1, <3>1, <3>2 DEF VersionInv
  <2>4. WholeInv'
    BY <1>1, <1>3, <1>4, <2>1
       DEF PackageInv, WholeInv, HeldStands, HoldsWhole, Packages!Whole
  <2>5. LinkedInv' /\ SyncedInv'
    BY <1>1, <2>1 DEF LinkedInv, SyncedInv
  <2>6. RendererInv' /\ DriverInv'
    BY <1>1, <2>1, CopiesStandStill
  <2>. QED  BY <1>5, <2>2, <2>3, <2>4, <2>5, <2>6 DEF PackageInv, PackageTyped
<1>. QED  BY <1>6, <1>7

LEMMA UnloadKeeps == PackageInv /\ Packages!Unload => PackageInv'
<1>. SUFFICES ASSUME PackageInv, Packages!Unload
     PROVE  PackageInv'
  OBVIOUS
<1>1. /\ Packages!Commands /\ pkg' = Packages!None /\ load' = 0 /\ show' = "UNLOADED"
      /\ onView' = FALSE /\ slateUp' = FALSE /\ synced' = FALSE
      /\ versions' = versions /\ job' = job
      /\ viewItem' = viewItem /\ held' = held /\ running' = running
      /\ outgoing' = outgoing /\ sounding' = sounding
      /\ HeldStands /\ WorldStands /\ ReadersStand
  BY StandsMeans, HeldStandsMeans DEF Packages!Unload, Packages!viewVars
<1>2. ControlTyped' /\ ViewTyped'
  BY <1>1 DEF PackageInv, PackageTyped, ControlTyped, ViewTyped, Path
<1>. QED  BY <1>1, <1>2, CommandFrame

LEMMA StartStopKeeps == PackageInv /\ Packages!StartStop => PackageInv'
<1>. SUFFICES ASSUME PackageInv, Packages!StartStop
     PROVE  PackageInv'
  OBVIOUS
<1>1. /\ Packages!Commands /\ show' \in {"RUNNING", "STOPPED"} /\ synced' = FALSE
      /\ running' = IF linked THEN show' = "RUNNING" ELSE running
      /\ pkg' = pkg /\ load' = load /\ onView' = onView /\ slateUp' = slateUp
      /\ versions' = versions /\ job' = job /\ viewItem' = viewItem /\ held' = held
      /\ outgoing' = outgoing /\ sounding' = sounding
      /\ HeldStands /\ WorldStands /\ ReadersStand
  BY StandsMeans, HeldStandsMeans DEF Packages!StartStop
<1>2. running' \in BOOLEAN
  BY <1>1 DEF PackageInv, PackageTyped, ViewTyped
<1>3. ControlTyped' /\ ViewTyped'
  BY <1>1, <1>2 DEF PackageInv, PackageTyped, ControlTyped, ViewTyped
<1>. QED  BY <1>1, <1>3, CommandFrame

LEMMA TakeKeeps == PackageInv /\ Packages!Take => PackageInv'
<1>. SUFFICES ASSUME PackageInv, Packages!Take
     PROVE  PackageInv'
  OBVIOUS
<1>1. /\ Packages!Commands /\ onView' = TRUE /\ slateUp' = FALSE /\ synced' = FALSE
      /\ \/ viewItem' = TRUE /\ held' = FALSE /\ sounding' = media["itemAudio"]
         \/ viewItem' = viewItem /\ held' = held /\ sounding' = sounding
      /\ pkg' = pkg /\ load' = load /\ show' = show /\ versions' = versions
      /\ job' = job /\ running' = running /\ outgoing' = outgoing
      /\ HeldStands /\ WorldStands /\ ReadersStand
  BY StandsMeans, HeldStandsMeans DEF Packages!Take
<1>2. ControlTyped'
  BY <1>1 DEF PackageInv, PackageTyped, ControlTyped
<1>3. ViewTyped'
  BY <1>1, HeldParts, PartsAre DEF PackageInv, PackageTyped, ViewTyped
<1>. QED  BY <1>1, <1>2, <1>3, CommandFrame

LEMMA FallbackKeeps == PackageInv /\ Packages!Fallback => PackageInv'
<1>. SUFFICES ASSUME PackageInv, Packages!Fallback
     PROVE  PackageInv'
  OBVIOUS
<1>1. /\ Packages!Commands /\ slateUp' = TRUE /\ synced' = FALSE
      /\ \/ held' = TRUE /\ viewItem' = FALSE
         \/ held' = held /\ viewItem' = viewItem
      /\ pkg' = pkg /\ load' = load /\ show' = show /\ versions' = versions
      /\ onView' = onView /\ job' = job /\ running' = running /\ outgoing' = outgoing
      /\ sounding' = sounding
      /\ HeldStands /\ WorldStands /\ ReadersStand
  BY StandsMeans, HeldStandsMeans DEF Packages!Fallback
<1>2. ControlTyped' /\ ViewTyped'
  BY <1>1 DEF PackageInv, PackageTyped, ControlTyped, ViewTyped
<1>. QED  BY <1>1, <1>2, CommandFrame

\* A missing item on the View puts the slate up where the operator sees it.
LEMMA ReadMissingKeeps == PackageInv /\ Packages!ReadMissing => PackageInv'
<1>. SUFFICES ASSUME PackageInv, Packages!ReadMissing
     PROVE  PackageInv'
  OBVIOUS
<1>1. /\ outgoing' = FALSE /\ slateUp' = (slateUp \/ onView)
      /\ pkg' = pkg /\ load' = load /\ show' = show /\ versions' = versions
      /\ onView' = onView /\ job' = job /\ running' = running /\ viewItem' = viewItem
      /\ held' = held /\ sounding' = sounding /\ synced' = synced
      /\ HeldStands /\ WorldStands /\ ReadersStand
  BY StandsMeans, HeldStandsMeans DEF Packages!ReadMissing
<1>2. ControlTyped' /\ ViewTyped'
  BY <1>1 DEF PackageInv, PackageTyped, ControlTyped, ViewTyped
<1>3. WorldTyped' /\ CopyTyped'
  BY <1>1, TypesStand DEF PackageInv, PackageTyped
<1>4. LinkedInv'
  BY <1>1 DEF PackageInv, LinkedInv, Packages!Told, WorldStands
<1>5. SyncedInv'
  <2>1. /\ Packages!Whole' <=> Packages!Whole
        /\ Packages!Told' = Packages!Told
    BY <1>1 DEF Packages!Whole, Packages!Told, HeldStands
  <2>. QED  BY <1>1, <2>1 DEF PackageInv, SyncedInv, HeldStands, WorldStands
<1>. QED  BY <1>1, <1>2, <1>3, <1>4, <1>5, EngineStands, CopiesStandStill
          DEF PackageInv, PackageTyped

\* A resync that does not name the load the engine holds names a newer one.
LEMMA ResyncKeeps == PackageInv /\ Packages!Resync => PackageInv'
<1>. SUFFICES ASSUME PackageInv, Packages!Resync
     PROVE  PackageInv'
  OBVIOUS
<1>. DEFINE told == Packages!Begin("resync", pkg, load, Packages!Snapshot)
            named == Packages!Told = Packages!NoLoad \/ loaded = Packages!Told
<1>1. /\ ~linked /\ Packages!AtRest /\ linked' = TRUE
      /\ job' = IF named THEN [told EXCEPT !.step = "apply"] ELSE told
      /\ faults' = faults /\ broken' = broken
      /\ ControlStands /\ HeldStands /\ ReadersStand /\ ViewStands
  BY StandsMeans, HeldStandsMeans DEF Packages!Resync, Packages!Holds
<1>2. HeldTyped /\ JobTyped /\ CopyTyped /\ ViewTyped /\ ControlTyped /\ WorldTyped
  BY DEF PackageInv, PackageTyped
<1>3. job.step = "rest" /\ ~synced
  BY <1>1, <1>2, JobShape DEF PackageInv, SyncedInv
<1>4. job' = [step |-> IF named THEN "apply" ELSE "begin", kind |-> "resync",
              path |-> pkg, version |-> load, snapshot |-> Packages!Snapshot]
  BY <1>1 DEF Packages!Begin
<1>5. /\ job'.step = (IF named THEN "apply" ELSE "begin") /\ job'.kind = "resync"
      /\ job'.path = pkg /\ job'.version = load /\ job'.snapshot = Packages!Snapshot
  BY <1>4
<1>6. Packages!Snapshot \in SnapshotOf /\ Packages!Snapshot.onView = onView
  BY <1>2 DEF Packages!Snapshot, SnapshotOf, ControlTyped
<1>7. JobTyped'
  <2>1. pkg \in Path /\ load \in Nat
    BY <1>2 DEF ControlTyped
  <2>2. job' \in Jobs
    BY <1>4, <1>6, <2>1 DEF Jobs, LoadSteps, ResyncSteps
  <2>. QED  BY <2>2 DEF JobTyped
<1>8. ControlTyped' /\ ViewTyped' /\ WorldTyped' /\ CopyTyped' /\ HeldTyped'
  BY <1>1, <1>2, TypesStand DEF WorldTyped, HeldTyped, HeldStands
<1>9. /\ load \in {0, versions} /\ (load = 0 => pkg = Packages!None) /\ Known(loaded)
      /\ versions \in Nat /\ loaded.version \in Nat
      /\ loaded = [path |-> loaded.path, version |-> loaded.version]
  BY <1>2, HeldParts DEF PackageInv, VersionInv, ControlTyped, HeldTyped
<1>10. VersionInv'
  <2>1. Known(loaded)'
    BY <1>1, <1>9 DEF Known, ControlStands, HeldStands
  <2>2. Known(job)'
    BY <1>1, <1>5, <1>9 DEF Known, ControlStands
  <2>. QED  BY <1>1, <1>9, <2>1, <2>2 DEF VersionInv, ControlStands
<1>11. ~named => load = versions /\ load # 0 /\ loaded.version < load
  <2>. SUFFICES ASSUME ~named
                PROVE  load = versions /\ load # 0 /\ loaded.version < load
    OBVIOUS
  <2>1. load # 0
    BY <1>9 DEF Packages!Told, Packages!NoLoad
  <2>2. loaded.version # load
    BY <1>9 DEF Known, Packages!Told
  <2>. QED  BY <1>9, <2>1, <2>2 DEF Known
<1>12. LoadInv'
  <2>1. job'.step \in LoadSteps => loaded'.version < job'.version
    BY <1>1, <1>5, <1>11 DEF LoadSteps, HeldStands
  <2>. QED  BY <1>5, <1>6, <2>1 DEF LoadInv
<1>13. PartInv'
  BY <1>1, <1>5 DEF PackageInv, PartInv, HeldStands
<1>14. WholeInv'
  <2>1. HoldsWhole' <=> HoldsWhole
    BY <1>1 DEF HoldsWhole, Packages!Whole, HeldStands
  <2>2. loaded.version = versions /\ versions # 0 => HoldsWhole
    BY DEF PackageInv, WholeInv
  <2>3. named => load = 0 \/ (loaded = [path |-> pkg, version |-> load] /\ HoldsWhole)
    BY <1>9, <2>2 DEF Packages!Told, Packages!NoLoad
  <2>. QED  BY <1>1, <1>5, <2>1, <2>2, <2>3 DEF WholeInv, ControlStands, HeldStands
<1>15. LinkedInv' /\ SyncedInv'
  BY <1>1, <1>3, <1>5, <1>6
     DEF LinkedInv, SyncedInv, Packages!Told, ControlStands, ViewStands
<1>16. RendererInv' /\ DriverInv'
  BY <1>1, <1>3, <1>5, CopiesStand
     DEF ReadersStand, HeldStands, PackageInv, IndexDue, VideoDue, AudioDue
<1>. QED  BY <1>7, <1>8, <1>10, <1>12, <1>13, <1>14, <1>15, <1>16
          DEF PackageInv, PackageTyped

\* What a resync left is lost with the link, and the engine with its process.
LEMMA FaultsKeep ==
  ASSUME PackageInv,
         Packages!LoseLink \/ Packages!Restart \/ \E p \in Package : Packages!ChangeDisk(p)
  PROVE  PackageInv'
<1>1. HeldTyped /\ JobTyped /\ CopyTyped /\ ViewTyped /\ ControlTyped /\ WorldTyped
  BY DEF PackageInv, PackageTyped
<1>2. CASE Packages!LoseLink
  <2>1. /\ faults' = faults + 1 /\ linked' = FALSE /\ synced' = FALSE /\ broken' = broken
        /\ job' = job /\ viewItem' = viewItem /\ held' = held /\ running' = running
        /\ outgoing' = outgoing /\ sounding' = sounding
        /\ ControlStands /\ HeldStands /\ ReadersStand
    BY <1>2, StandsMeans, HeldStandsMeans
       DEF Packages!LoseLink, Packages!Fault, Packages!viewVars
  <2>2. WorldTyped' /\ ViewTyped' /\ ControlTyped' /\ CopyTyped'
    <3>1. ControlTyped' /\ CopyTyped'
      BY <1>1, <2>1, TypesStand
    <3>2. WorldTyped'
      <4>1. faults' \in Nat /\ broken' \subseteq Package
        BY <1>1, <2>1 DEF WorldTyped
      <4>2. linked' \in BOOLEAN
        BY <2>1
      <4>. QED  BY <4>1, <4>2 DEF WorldTyped
    <3>3. ViewTyped'
      BY <1>1, <2>1 DEF ViewTyped
    <3>. QED  BY <3>1, <3>2, <3>3
  <2>3. LinkedInv' /\ SyncedInv'
    BY <2>1 DEF LinkedInv, SyncedInv
  <2>. QED  BY <2>1, <2>2, <2>3, EngineStands, CopiesStandStill
            DEF ControlStands, PackageInv, PackageTyped
<1>3. CASE \E p \in Package : Packages!ChangeDisk(p)
  <2>1. /\ faults' = faults + 1 /\ linked' = linked /\ job' = job
        /\ ControlStands /\ HeldStands /\ ReadersStand /\ ViewStands
    BY <1>3, StandsMeans, HeldStandsMeans DEF Packages!ChangeDisk, Packages!Fault
  <2>2. broken' \subseteq Package
    BY <1>1, <1>3 DEF Packages!ChangeDisk, WorldTyped
  <2>3. WorldTyped' /\ ViewTyped' /\ ControlTyped' /\ CopyTyped'
    BY <1>1, <2>1, <2>2, TypesStand DEF WorldTyped
  <2>4. LinkedInv'
    BY <2>1 DEF PackageInv, LinkedInv, Packages!Told, ControlStands
  <2>5. SyncedInv'
    <3>1. /\ Packages!Whole' <=> Packages!Whole
          /\ Packages!Told' = Packages!Told
      BY <2>1 DEF Packages!Whole, Packages!Told, HeldStands, ControlStands
    <3>. QED  BY <2>1, <3>1
              DEF PackageInv, SyncedInv, HeldStands, ViewStands, ControlStands
  <2>. QED  BY <2>1, <2>3, <2>4, <2>5, EngineStands, CopiesStandStill
            DEF ControlStands, PackageInv, PackageTyped
<1>4. CASE Packages!Restart
  <2>1. /\ faults' = faults + 1 /\ linked' = FALSE /\ synced' = FALSE /\ broken' = broken
        /\ loaded' = Packages!NoLoad /\ path' = Packages!None
        /\ media' = [p \in Packages!Part |-> 0] /\ generation' = 0
        /\ viewItem' = FALSE /\ held' = FALSE /\ running' = FALSE /\ outgoing' = FALSE
        /\ job' = Packages!Rest /\ renderer' = Packages!Synced
        /\ uploads' = [u \in Packages!Upload |-> 0] /\ driver' = Packages!Synced
        /\ library' = 0 /\ sounding' = 0 /\ attempts' = attempts /\ ControlStands
    BY <1>4, StandsMeans DEF Packages!Restart, Packages!Fault
  <2>2. WorldTyped' /\ ViewTyped' /\ ControlTyped' /\ JobTyped'
    <3>1. ControlTyped'
      BY <1>1, <2>1, TypesStand
    <3>2. WorldTyped'
      <4>1. faults' \in Nat /\ broken' \subseteq Package
        BY <1>1, <2>1 DEF WorldTyped
      <4>2. linked' \in BOOLEAN
        BY <2>1
      <4>. QED  BY <4>1, <4>2 DEF WorldTyped
    <3>3. ViewTyped'
      BY <2>1 DEF ViewTyped
    <3>4. JobTyped'
      BY <2>1 DEF JobTyped
    <3>. QED  BY <3>1, <3>2, <3>3, <3>4
  <2>3. HeldTyped' /\ CopyTyped'
    BY <1>1, <2>1 DEF HeldTyped, CopyTyped, Packages!NoLoad, Packages!Synced, Path
  <2>4. job'.step = "rest" /\ loaded'.version = 0 /\ loaded'.path = Packages!None
    BY <2>1 DEF Packages!Rest, Packages!NoLoad
  <2>5. VersionInv'
    BY <1>1, <2>1, <2>4
       DEF PackageInv, VersionInv, Known, ControlStands, ControlTyped
  <2>6. LoadInv' /\ LinkedInv' /\ SyncedInv'
    BY <2>1, <2>4 DEF LoadInv, LinkedInv, SyncedInv, LoadSteps, ResyncSteps
  <2>7. PartInv'
    BY <1>1, <2>1, <2>4, PartsAre DEF PartInv, HeldTyped
  <2>8. WholeInv'
    BY <2>1, <2>4 DEF WholeInv, ControlStands
  <2>9. RendererInv' /\ DriverInv'
    BY <2>1, PartsAre, UploadsAre DEF RendererInv, DriverInv, Packages!Synced
  <2>. QED  BY <2>2, <2>3, <2>5, <2>6, <2>7, <2>8, <2>9 DEF PackageInv, PackageTyped
<1>. QED  BY <1>2, <1>3, <1>4

-----------------------------------------------------------------------------
(* The readers' steps.                                                     *)

\* A reader changes nothing but its own copies.
LEMMA ReaderFrame ==
  ASSUME PackageInv, ControlStands, WorldStands, ViewStands, HeldStands, job' = job,
         CopyTyped', RendererInv', DriverInv'
  PROVE  PackageInv'
<1>1. ControlTyped' /\ WorldTyped' /\ ViewTyped'
  BY TypesStand DEF PackageInv, PackageTyped
<1>2. HeldTyped' /\ JobTyped' /\ VersionInv' /\ LoadInv' /\ PartInv' /\ WholeInv'
  BY EngineStands DEF ControlStands
<1>3. LinkedInv'
  BY DEF PackageInv, LinkedInv, Packages!Told, ControlStands, WorldStands
<1>4. SyncedInv'
  <2>1. /\ Packages!Whole' <=> Packages!Whole
        /\ Packages!Told' = Packages!Told
    BY DEF Packages!Whole, Packages!Told, HeldStands, ControlStands
  <2>. QED  BY <2>1
            DEF PackageInv, SyncedInv, HeldStands, ViewStands, ControlStands, WorldStands
<1>. QED  BY <1>1, <1>2, <1>3, <1>4 DEF PackageInv, PackageTyped

RendererSteps == {"rest", "fonts", "images", "rings", "slate"}

\* A step of the renderer copies one part and is on to the next, or starts again
\* from the counter.
LEMMA RendererKeeps ==
  ASSUME PackageInv, ControlStands, WorldStands, ViewStands, HeldStands, job' = job,
         driver' = driver, library' = library,
         NEW s \in RendererSteps, NEW u \in Packages!Upload, NEW n \in Nat,
         uploads' = [uploads EXCEPT ![u] = n],
         \/ /\ renderer' = [step |-> "fonts", seen |-> generation]
         \/ /\ renderer' = [renderer EXCEPT !.step = s]
            /\ \/ renderer.step = "fonts" /\ s = "images" /\ u = "fonts"
                  /\ n = media["index"]
               \/ renderer.step = "images" /\ s = "rings" /\ u = "images"
                  /\ n = media["index"]
               \/ renderer.step = "rings" /\ s = "slate" /\ u = "rings"
                  /\ n = media["video"]
               \/ renderer.step = "slate" /\ s = "rest" /\ u = "slate"
                  /\ n = media["fallback"]
               \/ renderer.step = "rest" /\ s = "rest" /\ u = "rings"
                  /\ n \in {0, media["video"]}
  PROVE  PackageInv'
<1>1. HeldTyped /\ CopyTyped /\ RendererInv /\ DriverInv
  BY DEF PackageInv, PackageTyped
<1>2. /\ uploads' \in [Packages!Upload -> Nat] /\ uploads'[u] = n
      /\ \A v \in Packages!Upload : v # u => uploads'[v] = uploads[v]
  BY <1>1 DEF CopyTyped
<1>3. generation \in Nat /\ renderer \in [step : RendererSteps, seen : Nat]
  BY <1>1 DEF HeldTyped, CopyTyped, RendererSteps
<1>4. /\ renderer' \in [step : RendererSteps, seen : Nat]
      /\ \/ renderer'.step = "fonts" /\ renderer'.seen = generation
         \/ renderer'.step = s /\ renderer'.seen = renderer.seen
            /\ renderer' = [renderer EXCEPT !.step = s]
  <2>1. "fonts" \in RendererSteps
    BY DEF RendererSteps
  <2>. QED  BY <1>3, <2>1
<1>5. CopyTyped'
  BY <1>1, <1>2, <1>4 DEF CopyTyped, RendererSteps
<1>6. DriverInv'
  BY <1>1 DEF DriverInv, HeldStands
<1>7. RendererInv'
  <2>1. CASE renderer' = [step |-> "fonts", seen |-> generation]
    <3>1. renderer'.step = "fonts" /\ renderer'.seen = generation
          /\ generation' = generation
      BY <2>1 DEF HeldStands
    <3>. QED  BY <1>3, <3>1 DEF RendererInv
  <2>2. CASE /\ renderer' = [renderer EXCEPT !.step = s]
             /\ renderer'.step = s /\ renderer'.seen = renderer.seen
    <3>1. generation' = generation /\ media' = media
      BY DEF HeldStands
    <3>2. "fonts" \in Packages!Upload /\ "images" \in Packages!Upload
          /\ "rings" \in Packages!Upload /\ "slate" \in Packages!Upload
      BY UploadsAre
    <3>3. \/ renderer.step = "fonts" /\ s = "images" /\ u = "fonts"
             /\ n = media["index"]
          \/ renderer.step = "images" /\ s = "rings" /\ u = "images"
             /\ n = media["index"]
          \/ renderer.step = "rings" /\ s = "slate" /\ u = "rings"
             /\ n = media["video"]
          \/ renderer.step = "slate" /\ s = "rest" /\ u = "slate"
             /\ n = media["fallback"]
          \/ renderer.step = "rest" /\ s = "rest" /\ u = "rings"
             /\ n \in {0, media["video"]}
          \/ renderer'.step = "fonts" /\ renderer'.seen = generation
      OBVIOUS
    <3>. QED  BY <1>1, <1>2, <1>3, <2>2, <3>1, <3>2, <3>3 DEF RendererInv
  <2>. QED  BY <1>4, <2>1, <2>2
<1>. QED  BY <1>5, <1>6, <1>7, ReaderFrame

LEMMA RendererStepKeeps == PackageInv /\ Packages!Renderer => PackageInv'
<1>. SUFFICES ASSUME PackageInv, Packages!Renderer
     PROVE  PackageInv'
  OBVIOUS
<1>1. /\ ControlStands /\ WorldStands /\ ViewStands /\ HeldStands /\ job' = job
      /\ driver' = driver /\ library' = library
  BY StandsMeans, HeldStandsMeans
     DEF Packages!Renderer, Packages!SyncBegins, Packages!SyncFonts, Packages!SyncImages,
         Packages!SyncRings, Packages!SyncSlate, Packages!Reacquire, Packages!Shed,
         Packages!RendererDoes
<1>2. media["index"] \in Nat /\ media["video"] \in Nat /\ media["fallback"] \in Nat
  BY HeldParts, PartsAre DEF PackageInv, PackageTyped
<1>3. CASE Packages!SyncBegins
  BY <1>1, <1>3, UploadsAre, RendererKeeps DEF Packages!SyncBegins, RendererSteps
<1>4. CASE Packages!SyncFonts
  BY <1>1, <1>2, <1>4, UploadsAre, RendererKeeps
     DEF Packages!SyncFonts, Packages!RendererDoes, RendererSteps
<1>5. CASE Packages!SyncImages
  BY <1>1, <1>2, <1>5, UploadsAre, RendererKeeps
     DEF Packages!SyncImages, Packages!RendererDoes, RendererSteps
<1>6. CASE Packages!SyncRings
  BY <1>1, <1>2, <1>6, UploadsAre, RendererKeeps
     DEF Packages!SyncRings, Packages!RendererDoes, RendererSteps
<1>7. CASE Packages!SyncSlate
  BY <1>1, <1>2, <1>7, UploadsAre, RendererKeeps
     DEF Packages!SyncSlate, Packages!RendererDoes, RendererSteps
<1>8. CASE Packages!Reacquire
  BY <1>1, <1>2, <1>8, UploadsAre, RendererKeeps
     DEF Packages!Reacquire, Packages!RendererDoes, RendererSteps
<1>9. CASE Packages!Shed
  BY <1>1, <1>2, <1>9, UploadsAre, RendererKeeps
     DEF Packages!Shed, Packages!RendererDoes, RendererSteps
<1>. QED  BY <1>3, <1>4, <1>5, <1>6, <1>7, <1>8, <1>9 DEF Packages!Renderer

LEMMA DriverSyncsKeeps == PackageInv /\ Packages!DriverSyncs => PackageInv'
<1>. SUFFICES ASSUME PackageInv, Packages!DriverSyncs
     PROVE  PackageInv'
  OBVIOUS
<1>1. /\ ControlStands /\ WorldStands /\ ViewStands /\ HeldStands /\ job' = job
      /\ renderer' = renderer /\ uploads' = uploads
  BY StandsMeans, HeldStandsMeans DEF Packages!DriverSyncs
<1>2. HeldTyped /\ CopyTyped /\ RendererInv /\ DriverInv
  BY DEF PackageInv, PackageTyped
<1>3. /\ generation \in Nat /\ media["audio"] \in Nat
      /\ driver \in [step : {"rest", "copy"}, seen : Nat]
  BY <1>2, HeldParts, PartsAre DEF CopyTyped
<1>4. \/ driver' = [step |-> "copy", seen |-> generation] /\ library' = library
      \/ driver' = [driver EXCEPT !.step = "rest"] /\ library' = media["audio"]
  BY DEF Packages!DriverSyncs, Packages!SyncLibrary
<1>5. CopyTyped'
  BY <1>1, <1>2, <1>3, <1>4 DEF CopyTyped
<1>6. RendererInv'
  BY <1>1, <1>2 DEF RendererInv, HeldStands
<1>7. DriverInv'
  BY <1>1, <1>2, <1>3, <1>4 DEF DriverInv, HeldStands
<1>. QED  BY <1>1, <1>5, <1>6, <1>7, ReaderFrame

-----------------------------------------------------------------------------

LEMMA PackageStarts == Packages!Init => PackageInv
<1>. SUFFICES ASSUME Packages!Init
     PROVE  PackageInv
  OBVIOUS
<1>1. /\ pkg = Packages!None /\ load = 0 /\ show = "UNLOADED" /\ onView = FALSE
      /\ slateUp = FALSE /\ versions = 0 /\ faults = 0 /\ broken = {} /\ linked = FALSE
      /\ attempts = 0 /\ synced = FALSE /\ loaded = Packages!NoLoad
      /\ path = Packages!None /\ media = [p \in Packages!Part |-> 0] /\ generation = 0
      /\ viewItem = FALSE /\ held = FALSE /\ running = FALSE /\ outgoing = FALSE
      /\ job = Packages!Rest /\ renderer = Packages!Synced
      /\ uploads = [u \in Packages!Upload |-> 0] /\ driver = Packages!Synced
      /\ library = 0 /\ sounding = 0
  BY DEF Packages!Init
<1>2. ControlTyped /\ WorldTyped /\ JobTyped /\ ViewTyped
  BY <1>1 DEF ControlTyped, WorldTyped, JobTyped, ViewTyped, Path
<1>3. HeldTyped /\ CopyTyped
  BY <1>1 DEF HeldTyped, CopyTyped, Packages!NoLoad, Packages!Synced, Path
<1>4. job.step = "rest" /\ loaded.version = 0 /\ loaded.path = Packages!None
  BY <1>1 DEF Packages!Rest, Packages!NoLoad
<1>5. VersionInv /\ LoadInv /\ LinkedInv /\ SyncedInv
  BY <1>1, <1>4
     DEF VersionInv, Known, LoadInv, LinkedInv, SyncedInv, LoadSteps, ResyncSteps
<1>6. PartInv /\ WholeInv
  BY <1>1, <1>4, PartsAre DEF PartInv, WholeInv
<1>7. RendererInv /\ DriverInv
  BY <1>1, PartsAre, UploadsAre DEF RendererInv, DriverInv, Packages!Synced
<1>. QED  BY <1>2, <1>3, <1>5, <1>6, <1>7 DEF PackageInv, PackageTyped

LEMMA PackageKeeps == PackageInv /\ Packages!Next => PackageInv'
<1>. SUFFICES ASSUME PackageInv, Packages!Next
     PROVE  PackageInv'
  OBVIOUS
<1>1. CASE \E p \in Package : Packages!Load(p)
  BY <1>1, LoadKeeps
<1>2. CASE \/ Packages!LoseLink \/ Packages!Restart
           \/ \E p \in Package : Packages!ChangeDisk(p)
  BY <1>2, FaultsKeep
<1>3. CASE \/ Packages!Unload \/ Packages!StartStop \/ Packages!Take
           \/ Packages!Fallback \/ Packages!ReadMissing \/ Packages!Resync
  BY <1>3, UnloadKeeps, StartStopKeeps, TakeKeeps, FallbackKeeps, ReadMissingKeeps,
     ResyncKeeps
<1>4. CASE Packages!Handler
  BY <1>4, LoadBeginsKeeps, ReadsFallbackKeeps, ReadsManifestKeeps, InstallsMediaKeeps,
     InstallsKeeps, LoadEndsKeeps, ForgetKeeps, ResyncAppliesKeeps DEF Packages!Handler
<1>5. CASE Packages!Renderer \/ Packages!DriverSyncs
  BY <1>5, RendererStepKeeps, DriverSyncsKeeps
<1>. QED  BY <1>1, <1>2, <1>3, <1>4, <1>5 DEF Packages!Next

\* Wherever the loads, resyncs, faults and readers are, the package's parts, the
\* number recorded for them and the readers' copies fit together.
THEOREM PackageInvariant == MCSpec => []PackageInv
<1>1. MCInit => PackageInv
  BY PackageStarts DEF MCInit
<1>2. PackageInv /\ [MCNext]_<<part, vars, onAirVars, packageVars>> => PackageInv'
  <2>. SUFFICES ASSUME PackageInv, [MCNext]_<<part, vars, onAirVars, packageVars>>
                PROVE  PackageInv'
    OBVIOUS
  <2>1. CASE Packages!Next
    BY <2>1, PackageKeeps
  <2>2. CASE UNCHANGED packageVars
    <3>1. /\ ControlStands /\ WorldStands /\ ViewStands /\ HeldStands /\ ReadersStand
          /\ job' = job
      BY <2>2 DEF packageVars, ControlStands, WorldStands, ViewStands, HeldStands,
                  ReadersStand
    <3>2. CopyTyped' /\ RendererInv' /\ DriverInv'
      BY <3>1, TypesStand, CopiesStandStill DEF PackageInv, PackageTyped
    <3>. QED  BY <3>1, <3>2, ReaderFrame
  <2>3. Packages!Next \/ UNCHANGED packageVars
    BY DEF MCNext
  <2>. QED  BY <2>1, <2>2, <2>3
<1>. QED  BY <1>1, <1>2, PTL DEF MCSpec

\* Each part of the package's state keeps its type, the handler's job too.
THEOREM PackageTypeCorrect == MCSpec => []PackageTyped
<1>1. PackageInv => PackageTyped
  BY DEF PackageInv
<1>. QED  BY <1>1, PackageInvariant, PTL

\* render.rs, sync_package, and audio_driver.rs, sync_library: a reader that has
\* caught up with the counter holds the package the engine holds, and no part of
\* the one before, whatever loads and failed loads came while it copied.
THEOREM ReadersHoldThePackage == MCSpec => []ReadersSettle
<1>1. PackageInv => ReadersSettle
  <2>. SUFFICES ASSUME PackageInv, Packages!AtRest
                PROVE
       /\ renderer = [step |-> "rest", seen |-> generation] =>
            /\ uploads["fonts"] = media["index"] /\ uploads["images"] = media["index"]
            /\ uploads["rings"] \in {0, media["video"]}
            /\ Packages!Whole => uploads["slate"] = media["fallback"]
       /\ driver = [step |-> "rest", seen |-> generation] => library = media["audio"]
    BY DEF ReadersSettle, Packages!ReadersSettle
  <2>1. job.step \notin VideoDue /\ job.step \notin AudioDue /\ job.step \notin IndexDue
    BY JobShape DEF PackageInv, PackageTyped, VideoDue, AudioDue, IndexDue
  <2>2. Packages!Whole => media["fallback"] = media["index"]
    BY WholeIs
  <2>3. RendererInv /\ DriverInv
    BY DEF PackageInv
  <2>. QED  BY <2>1, <2>2, <2>3 DEF RendererInv, DriverInv
<1>. QED  BY <1>1, PackageInvariant, PTL

\* directive.rs, reconcile_package: after a resync the engine holds the very load
\* the control plane names, whole, or nothing of any package.
THEOREM ResyncSettlesTheLoad == MCSpec => []ResyncAgrees
<1>1. PackageInv => ResyncAgrees
  <2>1. PackageInv => (load = 0 => Packages!Told = Packages!NoLoad)
    BY DEF PackageInv, VersionInv, Packages!Told, Packages!NoLoad
  <2>. QED  BY <2>1 DEF PackageInv, SyncedInv, ResyncAgrees, Packages!ResyncAgrees
<1>. QED  BY <1>1, PackageInvariant, PTL

\* directive.rs, on_resync; state.ts, markMissing: an item the resync put on air is
\* in the engine's package, or the slate covers it on both sides.
THEOREM ItemIsShownOrCovered == MCSpec => []ShownOrMissing
<1>1. PackageInv => ShownOrMissing
  <2>1. PackageInv => (load = 0 => Packages!Told = Packages!NoLoad)
    BY DEF PackageInv, VersionInv, Packages!Told, Packages!NoLoad
  <2>. QED  BY <2>1 DEF PackageInv, SyncedInv, ShownOrMissing, Packages!ShownOrMissing
<1>. QED  BY <1>1, PackageInvariant, PTL
-----------------------------------------------------------------------------
(* The View.                                                               *)

AnyLayer == [item : Items \cup {"none"}, alpha : Nat, t0 : Nat]
Shown(k) == [item : Items \cup {"none"}, alpha : Nat, t0 : 0..k]
Transitions ==
  [kind : {"cut", "mix"}, start : Nat, to : Items, from : Items \cup {"none"},
   fromStart : Nat, underlay : Seq(AnyLayer)]
Taking ==
  [step : {"transition", "item", "start"}, to : Items, kind : {"cut", "mix"},
   recalled : SUBSET {0, Length}, start : Nat]

\* What lies beneath a transition is no younger than itself.
Ordered(t) == t.fromStart =< t.start /\ t.underlay \in Seq(Shown(t.start))

\* The frame a take that came now would be issued for.
Coming == IF clock = -1 THEN 0 ELSE clock + 1

\* A take's start is written last and read before the transition: of what the loop
\* has read of a take, the transition says at least as much.
ViewInv ==
  /\ clock \in {-1} \cup Nat /\ viewFrame \in Nat /\ shown.frame \in {-1} \cup Nat
  /\ item \in Items \cup {"none"} /\ start \in Nat
  /\ read \in AnyLayer /\ read.t0 =< start
  /\ \/ transition = OnAir!NoTransition /\ start = 0
     \/ /\ transition \in Transitions /\ Ordered(transition)
        /\ start =< transition.start /\ transition.start =< Coming
  /\ \/ take = OnAir!NoTake
     \/ /\ take \in Taking /\ take.start =< Coming
        /\ transition = OnAir!NoTransition \/ transition.start =< take.start
        /\ take.step # "transition" =>
             transition \in Transitions /\ transition.start = take.start

\* What the overlay is or is becoming is what was asked for, and in time.
OverlayInv ==
  /\ \/ overlay = OnAir!NoOverlay \/ overlay = [phase |-> "steady"]
     \/ /\ overlay \in [phase : {"enter", "exit"}, start : Nat]
        /\ overlay.start + Length =< asked.from + 1 /\ overlay.start =< OnAir!NextFrame
  /\ asked.from \in Nat
  /\ asked.alpha = IF overlay.phase \in {"enter", "steady"} THEN Length ELSE 0

LEMMA ViewAssumption == Length \in Nat \ {0} /\ MaxLayers \in Nat \ {0}
BY ViewConstants DEF OnAir!ViewTimelineConstants

LEMMA ShownGrows ==
  ASSUME NEW j \in Nat, NEW k \in Nat, j =< k
  PROVE  /\ Shown(j) \subseteq Shown(k) /\ Shown(j) \subseteq AnyLayer
         /\ Seq(Shown(j)) \subseteq Seq(Shown(k)) /\ Seq(Shown(j)) \subseteq Seq(AnyLayer)
<1>1. 0..j \subseteq 0..k /\ 0..j \subseteq Nat
  OBVIOUS
<1>2. Shown(j) \subseteq Shown(k) /\ Shown(j) \subseteq AnyLayer
  BY <1>1 DEF Shown, AnyLayer
<1>3. \A S, T : S \subseteq T => Seq(S) \subseteq Seq(T)
  OBVIOUS
<1>. QED  BY <1>2, <1>3

LEMMA ProgressIs ==
  ASSUME NEW t \in Transitions, NEW f \in Nat
  PROVE  OnAir!Progress(t, f) \in Nat
BY ViewAssumption DEF OnAir!Progress, Transitions

LEMMA BeneathIs ==
  ASSUME NEW t \in Transitions, Ordered(t)
  PROVE  OnAir!Beneath(t) \in Seq(Shown(t.start))
<1>1. t.start \in Nat /\ t.fromStart \in Nat /\ t.from \in Items \cup {"none"}
  BY DEF Transitions
<1>2. t.fromStart \in 0..t.start
  BY <1>1 DEF Ordered
<1>3. OnAir!Layer(t.from, Length, t.fromStart) \in Shown(t.start)
  BY <1>1, <1>2, ViewAssumption DEF OnAir!Layer, Shown
<1>4. \A S : <<>> \in Seq(S) /\ \A x \in S : <<x>> \in Seq(S)
  OBVIOUS
<1>. QED  BY <1>3, <1>4 DEF OnAir!Beneath, Ordered

LEMMA FrozenIs ==
  ASSUME NEW t \in Transitions, Ordered(t), NEW s \in Nat
  PROVE  OnAir!Frozen(t, s) \in Seq(Shown(t.start))
<1>1. PICK f \in Nat : f = IF s = 0 THEN 0 ELSE s - 1
  OBVIOUS
<1>2. PICK alpha \in Nat : alpha = OnAir!Progress(t, f)
  BY ProgressIs
<1>3. PICK below : below = OnAir!Beneath(t) /\ below \in Seq(Shown(t.start))
  BY BeneathIs
<1>4. PICK S : S = Shown(t.start)
  OBVIOUS
<1>5. OnAir!Layer(t.to, alpha, t.start) \in S
  BY <1>4 DEF OnAir!Layer, Shown, Transitions
<1>6. PICK layers : layers = IF alpha > 0 THEN Append(below, OnAir!Layer(t.to, alpha, t.start))
                             ELSE below
  OBVIOUS
<1>7. layers \in Seq(S)
  BY <1>3, <1>4, <1>5, <1>6, AppendProperties
<1>8. OnAir!Frozen(t, s) =
        IF Len(layers) =< MaxLayers THEN layers
        ELSE <<layers[1]>> \o SubSeq(layers, Len(layers) - MaxLayers + 2, Len(layers))
  BY <1>1, <1>2, <1>3, <1>6 DEF OnAir!Frozen
<1>9. ASSUME ~(Len(layers) =< MaxLayers)
      PROVE  <<layers[1]>> \o SubSeq(layers, Len(layers) - MaxLayers + 2, Len(layers)) \in Seq(S)
  <2>1. Len(layers) \in Nat /\ 1 \in 1..Len(layers)
    BY <1>7, <1>9, LenProperties, ViewAssumption
  <2>2. PICK m : m = Len(layers) - MaxLayers + 2
    OBVIOUS
  <2>3. m \in 1..(Len(layers) + 1)
    BY <1>9, <2>1, <2>2, ViewAssumption
  <2>4. layers[1] \in S /\ <<layers[1]>> \in Seq(S)
    BY <1>7, <2>1, ElementOfSeq
  <2>5. SubSeq(layers, m, Len(layers)) \in Seq(S)
    BY <1>7, <2>1, <2>3, SubSeqProperties
  <2>. QED  BY <2>2, <2>4, <2>5, ConcatProperties
<1>. QED  BY <1>4, <1>7, <1>8, <1>9

LEMMA ViewBegins == ASSUME OnAir!Init PROVE ViewInv /\ OverlayInv
BY ViewAssumption
DEF OnAir!Init, ViewInv, OverlayInv, OnAir!Layer, AnyLayer, OnAir!None, OnAir!Stopped,
    OnAir!NoOverlay

\* The clock and the loop.
LEMMA LoopKeepsView ==
  ASSUME ViewInv,
         OnAir!StartShow \/ OnAir!Advance \/ OnAir!Wake \/ OnAir!Draws
  PROVE  ViewInv'
<1>1. UNCHANGED <<item, start, transition, take>>
  BY DEF OnAir!StartShow, OnAir!Advance, OnAir!Wake, OnAir!Draws, OnAir!ReadItem,
         OnAir!ReadStart, OnAir!DrawView, OnAir!viewVars, OnAir!takeVars
<1>2. clock' \in {-1} \cup Nat /\ Coming =< Coming' /\ Coming \in Nat /\ Coming' \in Nat
  <2>1. CASE OnAir!StartShow
    BY <2>1 DEF ViewInv, Coming, OnAir!StartShow, OnAir!Running, OnAir!Stopped
  <2>2. CASE OnAir!Advance
    BY <2>2 DEF ViewInv, Coming, OnAir!Advance, OnAir!Running, OnAir!Stopped
  <2>3. CASE OnAir!Wake \/ OnAir!Draws
    <3>1. clock' = clock
      BY <2>3 DEF OnAir!Wake, OnAir!Draws, OnAir!ReadItem, OnAir!ReadStart, OnAir!DrawView
    <3>. QED  BY <3>1 DEF ViewInv, Coming
  <2>. QED  BY <2>1, <2>2, <2>3
<1>3. viewFrame' \in Nat /\ shown'.frame \in {-1} \cup Nat
  <2>1. CASE OnAir!StartShow \/ OnAir!Advance
    BY <2>1 DEF OnAir!StartShow, OnAir!Advance, OnAir!loopVars, ViewInv
  <2>2. CASE OnAir!Wake
    BY <2>2 DEF OnAir!Wake, ViewInv
  <2>3. CASE OnAir!Draws
    BY <2>3 DEF OnAir!Draws, OnAir!ReadItem, OnAir!ReadStart, OnAir!DrawView, ViewInv
  <2>. QED  BY <2>1, <2>2, <2>3
<1>4. read' \in AnyLayer /\ read'.t0 =< start
  <2>1. CASE OnAir!ReadItem
    BY <2>1 DEF OnAir!ReadItem, ViewInv, AnyLayer
  <2>2. CASE OnAir!ReadStart
    BY <2>2 DEF OnAir!ReadStart, ViewInv, AnyLayer
  <2>3. CASE OnAir!DrawView
    BY <2>3, ViewAssumption DEF OnAir!DrawView, ViewInv, AnyLayer, OnAir!Layer, OnAir!None
  <2>4. CASE OnAir!StartShow \/ OnAir!Advance \/ OnAir!Wake
    BY <2>4 DEF OnAir!StartShow, OnAir!Advance, OnAir!Wake, OnAir!loopVars, ViewInv
  <2>. QED  BY <2>1, <2>2, <2>3, <2>4 DEF OnAir!Draws
<1>5. /\ item' \in Items \cup {"none"} /\ start' \in Nat /\ read'.t0 =< start'
      /\ \/ transition' = OnAir!NoTransition /\ start' = 0
         \/ /\ transition' \in Transitions /\ Ordered(transition')
            /\ start' =< transition'.start /\ transition'.start =< Coming'
  <2>1. CASE transition = OnAir!NoTransition /\ start = 0
    BY <1>1, <1>4, <2>1 DEF ViewInv
  <2>2. CASE transition \in Transitions /\ Ordered(transition)
             /\ start =< transition.start /\ transition.start =< Coming
    <3>1. transition.start \in Nat
      BY <2>2 DEF Transitions
    <3>2. transition.start =< Coming'
      BY <1>2, <2>2, <3>1
    <3>. QED  BY <1>1, <1>4, <2>2, <3>2 DEF ViewInv
  <2>. QED  BY <2>1, <2>2 DEF ViewInv
<1>6. \/ take' = OnAir!NoTake
      \/ /\ take' \in Taking /\ take'.start =< Coming'
         /\ transition' = OnAir!NoTransition \/ transition'.start =< take'.start
         /\ take'.step # "transition" =>
              transition' \in Transitions /\ transition'.start = take'.start
  <2>1. ASSUME take \in Taking, take.start =< Coming PROVE take.start =< Coming'
    <3>1. take.start \in Nat
      BY <2>1 DEF Taking
    <3>. QED  BY <1>2, <2>1, <3>1
  <2>. QED  BY <1>1, <2>1 DEF ViewInv
<1>. QED  BY <1>2, <1>3, <1>4, <1>5, <1>6 DEF ViewInv

LEMMA TakeBeginsKeepsView ==
  ASSUME ViewInv, NEW to \in Items, NEW kind \in {"cut", "mix"},
         NEW recalled \in SUBSET {0, Length}, OnAir!TakeBegins(to, kind, recalled)
  PROVE  ViewInv'
<1>1. /\ UNCHANGED <<clock, viewFrame, shown, read, item, start, transition>>
      /\ take' = [step |-> "transition", to |-> to, kind |-> kind, recalled |-> recalled,
                  start |-> Coming]
  BY DEF OnAir!TakeBegins, OnAir!loopVars, OnAir!viewVars, Coming, OnAir!Running, OnAir!Stopped
<1>2. Coming' = Coming /\ Coming \in Nat
  BY <1>1 DEF Coming, ViewInv
<1>3. take' \in Taking /\ take'.start = Coming' /\ take'.step = "transition"
  BY <1>1, <1>2 DEF Taking
<1>4. \/ transition' = OnAir!NoTransition /\ start' = 0
      \/ /\ transition' \in Transitions /\ Ordered(transition')
         /\ start' =< transition'.start /\ transition'.start =< Coming'
  BY <1>1, <1>2 DEF ViewInv
<1>. QED  BY <1>1, <1>2, <1>3, <1>4 DEF ViewInv

LEMMA TransitionKeepsView ==
  ASSUME ViewInv, OnAir!TakeWritesTransition
  PROVE  ViewInv'
<1>1. /\ UNCHANGED <<clock, viewFrame, read, item, start>> /\ shown'.frame = shown.frame
      /\ take.step = "transition" /\ take' = [take EXCEPT !.step = "item"]
  BY DEF OnAir!TakeWritesTransition, ViewInv
<1>2. /\ take \in Taking /\ take.start =< Coming
      /\ transition = OnAir!NoTransition \/ transition.start =< take.start
  BY <1>1 DEF ViewInv, OnAir!NoTake
<1>3. PICK s \in Nat : s = take.start
  BY <1>2 DEF Taking
<1>4. start =< s /\ (transition = OnAir!NoTransition \/ transition.start =< s)
  <2>1. CASE transition = OnAir!NoTransition /\ start = 0
    BY <1>3, <2>1
  <2>2. CASE transition \in Transitions /\ start =< transition.start
             /\ transition.start =< take.start
    BY <1>3, <2>2 DEF Transitions, ViewInv
  <2>3. transition \in Transitions => transition # OnAir!NoTransition
    BY DEF Transitions, OnAir!NoTransition
  <2>. QED  BY <1>2, <2>1, <2>2, <2>3 DEF ViewInv
<1>5. PICK layers : /\ layers \in Seq(Shown(s)) /\ layers \in Seq(AnyLayer)
                    /\ transition' = [kind |-> take.kind, start |-> s, to |-> take.to,
                                      from |-> item, fromStart |-> start,
                                      underlay |-> layers]
  <2>1. PICK interrupts, f :
          /\ f = (IF s = 0 THEN 0 ELSE s - 1)
          /\ interrupts = (take.kind = "mix" /\ OnAir!InFlight(transition, f))
    OBVIOUS
  <2>2. PICK layers : layers = IF interrupts THEN OnAir!Frozen(transition, s) ELSE <<>>
    OBVIOUS
  <2>3. transition' = [kind |-> take.kind, start |-> s, to |-> take.to, from |-> item,
                       fromStart |-> start, underlay |-> layers]
    BY <1>3, <2>1, <2>2 DEF OnAir!TakeWritesTransition
  <2>4. layers \in Seq(Shown(s)) /\ layers \in Seq(AnyLayer)
    <3>1. CASE interrupts
      <4>1. transition # OnAir!NoTransition
        BY <2>1, <3>1 DEF OnAir!InFlight
      <4>2. PICK t \in Transitions : t = transition /\ Ordered(t)
        BY <4>1 DEF ViewInv
      <4>3. t.start \in Nat /\ t.start =< s
        BY <1>4, <4>1, <4>2 DEF Transitions
      <4>4. layers \in Seq(Shown(t.start))
        BY <2>2, <3>1, <4>2, FrozenIs
      <4>. QED  BY <4>3, <4>4, ShownGrows
    <3>2. CASE ~interrupts
      BY <2>2, <3>2
    <3>. QED  BY <3>1, <3>2
  <2>. QED  BY <2>3, <2>4
<1>6. /\ transition' \in Transitions /\ Ordered(transition') /\ transition'.start = s
  <2>1. take.kind \in {"cut", "mix"} /\ take.to \in Items
    BY <1>2 DEF Taking
  <2>2. item \in Items \cup {"none"} /\ start \in Nat
    BY DEF ViewInv
  <2>3. transition' \in Transitions
    BY <1>5, <2>1, <2>2 DEF Transitions
  <2>. QED  BY <1>4, <1>5, <2>3 DEF Ordered
<1>7. take' \in Taking /\ take'.start = s
  BY <1>1, <1>2, <1>3 DEF Taking
<1>8. Coming' = Coming
  BY <1>1 DEF Coming
<1>. QED  BY <1>1, <1>2, <1>3, <1>4, <1>6, <1>7, <1>8 DEF ViewInv

LEMMA ItemKeepsView == ASSUME ViewInv, OnAir!TakeWritesItem PROVE ViewInv'
<1>1. /\ UNCHANGED <<clock, viewFrame, shown, read, start, transition>> /\ item' = take.to
      /\ take.step = "item" /\ take' = [take EXCEPT !.step = "start"]
  BY DEF OnAir!TakeWritesItem, OnAir!loopVars
<1>2. take \in Taking /\ take.start =< Coming /\ transition \in Transitions
      /\ transition.start = take.start
  BY <1>1 DEF ViewInv, OnAir!NoTake
<1>3. /\ take' \in Taking /\ take'.start = take.start /\ take.to \in Items
      /\ take.start \in Nat
  BY <1>1, <1>2 DEF Taking
<1>4. Coming' = Coming
  BY <1>1 DEF Coming
<1>. QED  BY <1>1, <1>2, <1>3, <1>4 DEF ViewInv

LEMMA StartKeepsView == ASSUME ViewInv, OnAir!TakeWritesStart PROVE ViewInv'
<1>1. /\ UNCHANGED <<clock, viewFrame, shown, read, item, transition>>
      /\ take.step = "start" /\ take' = OnAir!NoTake /\ start' = take.start
  BY DEF OnAir!TakeWritesStart, OnAir!loopVars
<1>2. /\ take \in Taking /\ take.start =< Coming /\ transition \in Transitions
      /\ transition.start = take.start
  BY <1>1 DEF ViewInv, OnAir!NoTake
<1>3. take.start \in Nat /\ transition # OnAir!NoTransition
  BY <1>2 DEF Taking, Transitions, OnAir!NoTransition
<1>4. Coming' = Coming
  BY <1>1 DEF Coming
<1>5. Ordered(transition) /\ start =< take.start /\ start \in Nat /\ read.t0 \in Nat
      /\ read.t0 =< start
  BY <1>2, <1>3 DEF ViewInv, AnyLayer
<1>6. read.t0 =< take.start
  BY <1>3, <1>5
<1>. QED  BY <1>1, <1>2, <1>3, <1>4, <1>5, <1>6 DEF ViewInv

\* The overlay.
LEMMA OverlayStands ==
  ASSUME OverlayInv, UNCHANGED <<overlay, asked>>,
         clock' = clock \/ clock' = clock + 1, ViewInv, ViewInv'
  PROVE  OverlayInv'
<1>1. clock \in {-1} \cup Nat
  BY DEF ViewInv
<1>2. /\ OnAir!NextFrame = IF clock # -1 THEN clock + 1 ELSE 1
      /\ OnAir!NextFrame' = IF clock' # -1 THEN clock' + 1 ELSE 1
  BY DEF OnAir!NextFrame, OnAir!Running, OnAir!Stopped
<1>3. OnAir!NextFrame =< OnAir!NextFrame' /\ OnAir!NextFrame \in Nat /\ OnAir!NextFrame' \in Nat
  <2>1. CASE clock' = clock
    BY <1>1, <1>2, <2>1
  <2>2. CASE clock = -1 /\ clock' = 0
    BY <1>2, <2>2
  <2>3. CASE clock \in Nat /\ clock' = clock + 1
    BY <1>2, <2>3
  <2>. QED  BY <1>1, <2>1, <2>2, <2>3
<1>. QED  BY <1>3 DEF OverlayInv

\* How far an overlay has come at a frame.
LEMMA AlphaIs ==
  ASSUME OverlayInv, NEW f \in Nat, f >= asked.from
  PROVE  OnAir!OverlayAlpha(overlay, f) = asked.alpha
<1>1. CASE overlay = OnAir!NoOverlay
  BY <1>1 DEF OverlayInv, OnAir!NoOverlay, OnAir!OverlayAlpha
<1>2. CASE overlay = [phase |-> "steady"]
  BY <1>2 DEF OverlayInv, OnAir!OverlayAlpha
<1>3. CASE /\ overlay \in [phase : {"enter", "exit"}, start : Nat]
           /\ overlay.start + Length =< asked.from + 1
  <2>1. overlay.start \in Nat /\ asked.from \in Nat /\ Length \in Nat \ {0}
    BY <1>3, ViewAssumption DEF OverlayInv
  <2>2. PICK elapsed \in Int : elapsed = f - overlay.start + 1
    BY <2>1
  <2>3. elapsed >= Length /\ ~(elapsed =< 0) /\ ~(elapsed < Length)
    BY <1>3, <2>1, <2>2
  <2>4. OnAir!OverlayAlpha(overlay, f) =
          CASE overlay.phase = "steady" -> Length
            [] overlay.phase = "enter" -> Length
            [] overlay.phase = "exit" -> Length - Length
            [] OTHER -> 0
    BY <2>2, <2>3 DEF OnAir!OverlayAlpha
  <2>5. CASE overlay.phase = "enter"
    BY <2>4, <2>5 DEF OverlayInv
  <2>6. CASE overlay.phase = "exit"
    BY <2>1, <2>4, <2>6 DEF OverlayInv
  <2>. QED  BY <1>3, <2>5, <2>6
<1>. QED  BY <1>1, <1>2, <1>3 DEF OverlayInv

LEMMA DrawKeepsOverlay == ASSUME ViewInv, OverlayInv, OnAir!DrawView PROVE OverlayInv'
<1>1. /\ UNCHANGED <<clock, asked>>
      /\ overlay' = overlay \/ (overlay.phase = "exit" /\ overlay' = OnAir!NoOverlay)
  BY DEF OnAir!DrawView
<1>2. OnAir!NextFrame' = OnAir!NextFrame
  BY <1>1 DEF OnAir!NextFrame, OnAir!Running
<1>. QED  BY <1>1, <1>2 DEF OverlayInv, OnAir!NoOverlay

LEMMA NextIs == ASSUME ViewInv PROVE OnAir!NextFrame \in Nat \ {0}
BY DEF ViewInv, OnAir!NextFrame, OnAir!Running, OnAir!Stopped

\* A show or a hide leaves what is on its way there as it is.
LEMMA CommandKeepsOverlay ==
  ASSUME ViewInv, OverlayInv, OnAir!ShowOverlay \/ OnAir!HideOverlay
  PROVE  OverlayInv'
<1>1. PICK n \in Nat \ {0} : n = OnAir!NextFrame
  BY NextIs
<1>2. Length \in Nat \ {0} /\ n + Length - 1 \in Nat /\ n + Length =< (n + Length - 1) + 1
  BY ViewAssumption
<1>3. clock' = clock /\ OnAir!NextFrame' = n /\ asked'.from = n + Length - 1
  BY <1>1 DEF OnAir!ShowOverlay, OnAir!HideOverlay, OnAir!OverlayCommand, OnAir!NextFrame,
              OnAir!Running
<1>4. ASSUME overlay \in [phase : {"enter", "exit"}, start : Nat], overlay.start =< n
      PROVE  overlay.start + Length =< asked'.from + 1
  <2>1. overlay.start \in Nat
    BY <1>4
  <2>. QED  BY <1>2, <1>3, <1>4, <2>1
<1>5. /\ overlay' = overlay \/ overlay' \in [phase : {"enter", "exit"}, start : {n}]
      /\ asked'.alpha = IF overlay'.phase \in {"enter", "steady"} THEN Length ELSE 0
  <2>1. CASE OnAir!ShowOverlay
    <3>1. asked'.alpha = Length
      BY <2>1 DEF OnAir!ShowOverlay, OnAir!OverlayCommand
    <3>2. CASE OnAir!NeedsShow
      BY <1>1, <2>1, <3>1, <3>2 DEF OnAir!ShowOverlay
    <3>3. CASE ~OnAir!NeedsShow
      <4>1. overlay' = overlay /\ overlay.phase \notin {"none", "exit"}
        BY <2>1, <3>3 DEF OnAir!ShowOverlay, OnAir!NeedsShow
      <4>2. overlay.phase \in {"enter", "steady"}
        BY <4>1 DEF OverlayInv, OnAir!NoOverlay
      <4>. QED  BY <3>1, <4>1, <4>2
    <3>. QED  BY <3>2, <3>3
  <2>2. CASE OnAir!HideOverlay
    <3>1. asked'.alpha = 0
      BY <2>2 DEF OnAir!HideOverlay, OnAir!OverlayCommand
    <3>2. CASE overlay.phase \in {"none", "exit"}
      BY <2>2, <3>1, <3>2 DEF OnAir!HideOverlay
    <3>3. CASE ~(overlay.phase \in {"none", "exit"})
      BY <1>1, <2>2, <3>1, <3>3 DEF OnAir!HideOverlay
    <3>. QED  BY <3>2, <3>3
  <2>. QED  BY <2>1, <2>2
<1>6. \/ overlay' = OnAir!NoOverlay \/ overlay' = [phase |-> "steady"]
      \/ /\ overlay' \in [phase : {"enter", "exit"}, start : Nat]
         /\ overlay'.start + Length =< asked'.from + 1 /\ overlay'.start =< n
  <2>1. CASE overlay' = overlay
    BY <1>1, <1>4, <2>1 DEF OverlayInv
  <2>2. CASE overlay' \in [phase : {"enter", "exit"}, start : {n}]
    <3>1. overlay' \in [phase : {"enter", "exit"}, start : Nat] /\ overlay'.start = n
      BY <2>2
    <3>. QED  BY <1>2, <1>3, <3>1
  <2>. QED  BY <1>5, <2>1, <2>2
<1>. QED  BY <1>2, <1>3, <1>5, <1>6 DEF OverlayInv

LEMMA StartKeepsOverlay == ASSUME ViewInv, OverlayInv, OnAir!TakeWritesStart PROVE OverlayInv'
<1>1. clock' = clock /\ take \in Taking
  BY DEF OnAir!TakeWritesStart, ViewInv, OnAir!NoTake
<1>2. CASE take.recalled = {}
  <2>1. UNCHANGED <<overlay, asked>>
    BY <1>2 DEF OnAir!TakeWritesStart, OnAir!overlayVars
  <2>2. OnAir!NextFrame' = OnAir!NextFrame
    BY <1>1 DEF OnAir!NextFrame, OnAir!Running
  <2>. QED  BY <2>1, <2>2 DEF OverlayInv
<1>3. CASE take.recalled # {}
  <2>1. PICK alpha \in take.recalled :
          /\ overlay' = IF alpha > 0 THEN [phase |-> "steady"] ELSE OnAir!NoOverlay
          /\ asked' = [alpha |-> alpha, from |-> OnAir!NextFrame]
    BY <1>3 DEF OnAir!TakeWritesStart
  <2>2. alpha \in {0, Length} /\ Length \in Nat \ {0} /\ OnAir!NextFrame \in Nat
    BY <1>1, ViewAssumption, NextIs DEF Taking
  <2>. QED  BY <2>1, <2>2 DEF OverlayInv, OnAir!NoOverlay
<1>. QED  BY <1>2, <1>3

LEMMA OnAirStep == ASSUME ViewInv, OverlayInv, OnAir!Next PROVE ViewInv' /\ OverlayInv'
<1>1. CASE OnAir!StartShow \/ OnAir!Advance \/ OnAir!Wake \/ OnAir!ReadItem \/ OnAir!ReadStart
  <2>1. ViewInv'
    BY <1>1, LoopKeepsView DEF OnAir!Draws
  <2>2. UNCHANGED <<overlay, asked>> /\ (clock' = clock \/ clock' = clock + 1)
    BY <1>1 DEF OnAir!StartShow, OnAir!Advance, OnAir!Wake, OnAir!ReadItem, OnAir!ReadStart,
                OnAir!overlayVars, OnAir!Running, OnAir!Stopped
  <2>. QED  BY <2>1, <2>2, OverlayStands
<1>2. CASE OnAir!DrawView
  BY <1>2, LoopKeepsView, DrawKeepsOverlay DEF OnAir!Draws
<1>3. CASE OnAir!TakeWritesTransition \/ OnAir!TakeWritesItem
  <2>1. ViewInv'
    BY <1>3, TransitionKeepsView, ItemKeepsView
  <2>2. UNCHANGED <<overlay, asked, clock>>
    BY <1>3 DEF OnAir!TakeWritesTransition, OnAir!TakeWritesItem, OnAir!overlayVars
  <2>. QED  BY <2>1, <2>2, OverlayStands
<1>4. CASE OnAir!TakeWritesStart
  BY <1>4, StartKeepsView, StartKeepsOverlay
<1>5. ASSUME NEW to \in Items, NEW kind \in {"cut", "mix"}, NEW recalled \in SUBSET {0, Length},
             OnAir!TakeBegins(to, kind, recalled)
      PROVE  ViewInv' /\ OverlayInv'
  <2>1. ViewInv'
    BY <1>5, TakeBeginsKeepsView
  <2>2. UNCHANGED <<overlay, asked, clock>>
    BY <1>5 DEF OnAir!TakeBegins, OnAir!overlayVars
  <2>. QED  BY <2>1, <2>2, OverlayStands
<1>6. CASE OnAir!ShowOverlay \/ OnAir!HideOverlay
  <2>1. UNCHANGED <<clock, viewFrame, shown, read, item, start, transition, take>>
    BY <1>6 DEF OnAir!ShowOverlay, OnAir!HideOverlay, OnAir!OverlayCommand, OnAir!loopVars,
                OnAir!viewVars, OnAir!takeVars
  <2>2. ViewInv'
    BY <2>1 DEF ViewInv, Coming
  <2>. QED  BY <1>6, <2>2, CommandKeepsOverlay
<1>7. {} \in SUBSET {0, Length} /\ \A alpha \in {0, Length} : {alpha} \in SUBSET {0, Length}
  OBVIOUS
<1>. QED  BY <1>1, <1>2, <1>3, <1>4, <1>5, <1>6, <1>7
          DEF OnAir!Next, OnAir!Draws, OnAir!Writes

LEMMA OnAirStandsStill ==
  ASSUME ViewInv, OverlayInv, UNCHANGED onAirVars
  PROVE  ViewInv' /\ OverlayInv'
<1>1. UNCHANGED <<clock, viewFrame, shown, read, item, start, transition, take, overlay, asked>>
  BY DEF onAirVars
<1>. QED  BY <1>1 DEF ViewInv, Coming, OverlayInv, OnAir!NextFrame, OnAir!Running

\* The inductive invariant of the View: its frames are in order, and its overlay is
\* or is becoming what was asked for.
THEOREM ViewInvariant == MCSpec => [](ViewInv /\ OverlayInv)
<1>1. MCInit => ViewInv /\ OverlayInv
  BY ViewBegins DEF MCInit
<1>2. ViewInv /\ OverlayInv /\ [MCNext]_<<part, vars, onAirVars, packageVars>>
        => ViewInv' /\ OverlayInv'
  BY OnAirStep, OnAirStandsStill DEF MCNext
<1>. QED  BY <1>1, <1>2, PTL DEF MCSpec

\* Only the loop's last step draws.
LEMMA DrawsOnce ==
  ASSUME OnAir!Drawing, OnAir!Next
  PROVE  OnAir!DrawView
BY DEF OnAir!Drawing, OnAir!Next, OnAir!StartShow, OnAir!Advance, OnAir!Wake, OnAir!Draws,
       OnAir!ReadItem, OnAir!ReadStart, OnAir!Writes, OnAir!TakeWritesTransition,
       OnAir!TakeWritesItem, OnAir!TakeWritesStart, OnAir!TakeBegins, OnAir!ShowOverlay,
       OnAir!HideOverlay, OnAir!OverlayCommand, OnAir!loopVars

\* What is drawn that is younger than its frame is the item a take replaces.
LEMMA NoneEarly ==
  ASSUME ViewInv, NEW i \in DOMAIN OnAir!SceneFor(read, transition, viewFrame),
         OnAir!SceneFor(read, transition, viewFrame)[i].t0 > viewFrame
  PROVE  /\ transition # OnAir!NoTransition /\ viewFrame < transition.start
         /\ OnAir!SceneFor(read, transition, viewFrame)[i].item = transition.from
<1>. PICK f \in Nat : f = viewFrame
  BY DEF ViewInv
<1>. PICK layers : layers = OnAir!SceneFor(read, transition, f)
  OBVIOUS
<1>1. CASE transition # OnAir!NoTransition /\ f < transition.start
  <2>1. layers = (IF transition.from = "none" THEN <<>>
                  ELSE <<OnAir!Layer(transition.from, Length, transition.fromStart)>>)
    BY <1>1 DEF OnAir!SceneFor, OnAir!None
  <2>. QED  BY <1>1, <2>1 DEF OnAir!Layer
<1>2. CASE transition = OnAir!NoTransition
  <2>1. layers = IF read.item = "none" THEN <<>> ELSE <<read>>
    BY <1>2 DEF OnAir!SceneFor, OnAir!None
  <2>2. start = 0 /\ read.t0 \in Nat /\ read.t0 =< start
    BY <1>2 DEF ViewInv, AnyLayer, Transitions, OnAir!NoTransition
  <2>3. layers = <<read>> /\ i = 1 /\ read.t0 > f
    BY <2>1
  <2>. QED  BY <2>2, <2>3
<1>3. CASE transition # OnAir!NoTransition /\ ~(f < transition.start)
  <2>1. PICK t \in Transitions : /\ t = transition /\ Ordered(t) /\ start =< t.start
                                 /\ t.start \in Nat /\ t.to \in Items
    BY <1>3 DEF ViewInv, Transitions
  <2>2. CASE t.kind = "mix" /\ ~OnAir!IsComplete(t, f)
    <3>1. PICK below, top : /\ below = OnAir!Beneath(t)
                            /\ top = OnAir!Layer(t.to, OnAir!Progress(t, f), t.start)
      OBVIOUS
    <3>2. below \in Seq(Shown(t.start)) /\ top \in Shown(t.start)
      <4>1. below \in Seq(Shown(t.start))
        BY <2>1, <3>1, BeneathIs
      <4>2. OnAir!Progress(t, f) \in Nat /\ t.start \in 0..t.start
        BY <2>1, ProgressIs
      <4>3. top \in Shown(t.start)
        BY <2>1, <3>1, <4>2 DEF OnAir!Layer, Shown
      <4>. QED  BY <4>1, <4>3
    <3>3. layers = Append(below, top)
      BY <1>3, <2>1, <2>2, <3>1 DEF OnAir!SceneFor
    <3>4. layers \in Seq(Shown(t.start))
      BY <3>2, <3>3, AppendProperties
    <3>5. layers[i] \in Shown(t.start)
      BY <3>4, LenProperties, ElementOfSeq
    <3>6. layers[i].t0 \in 0..t.start
      BY <3>5 DEF Shown
    <3>. QED  BY <1>3, <2>1, <3>6
  <2>3. CASE ~(t.kind = "mix" /\ ~OnAir!IsComplete(t, f))
    <3>1. layers = IF read.item = "none" THEN <<>> ELSE <<read>>
      BY <1>3, <2>1, <2>3 DEF OnAir!SceneFor, OnAir!None
    <3>2. start \in Nat /\ read.t0 \in Nat /\ read.t0 =< start
      BY DEF ViewInv, AnyLayer
    <3>3. layers = <<read>> /\ i = 1 /\ read.t0 > f
      BY <3>1
    <3>. QED  BY <1>3, <2>1, <3>2, <3>3
  <2>. QED  BY <2>2, <2>3
<1>. QED  BY <1>1, <1>2, <1>3

\* scene.rs, Transition, and render.rs, scene_for: wherever the loop's reads fall
\* among a take's writes, no item is shown before its frame, but for the outgoing
\* one of a second take.
THEOREM NothingIsShownEarly == MCSpec => NothingBeginsEarly
<1>1. ViewInv /\ [MCNext]_<<part, vars, onAirVars, packageVars>>
        => [OnAir!Drawing => \A i \in DOMAIN shown'.layers :
              shown'.layers[i].t0 > viewFrame =>
                /\ transition # OnAir!NoTransition /\ viewFrame < transition.start
                /\ shown'.layers[i].item = transition.from]_(OnAir!vars)
  <2>. SUFFICES ASSUME ViewInv, MCNext \/ UNCHANGED onAirVars, OnAir!Drawing,
                       NEW i \in DOMAIN shown'.layers, shown'.layers[i].t0 > viewFrame
                PROVE  /\ transition # OnAir!NoTransition /\ viewFrame < transition.start
                       /\ shown'.layers[i].item = transition.from
    BY DEF OnAir!vars
  <2>1. CASE OnAir!Next
    <3>1. shown'.layers = OnAir!SceneFor(read, transition, viewFrame)
      BY <2>1, DrawsOnce DEF OnAir!DrawView
    <3>. QED  BY <3>1, NoneEarly
  <2>2. CASE UNCHANGED onAirVars
    BY <2>2 DEF onAirVars, OnAir!Drawing
  <2>. QED  BY <2>1, <2>2 DEF MCNext
<1>. QED  BY <1>1, ViewInvariant, PTL DEF MCSpec, NothingBeginsEarly, OnAir!NothingBeginsEarly

\* directive.rs, on_overlay and replace_overlays: once its animation is over, the
\* overlay is what the last show, hide or recall asked for, for any lengths.
THEOREM OverlayIsAsCommanded == MCSpec => OverlayFollowsCommand
<1>1. ViewInv /\ OverlayInv /\ [MCNext]_<<part, vars, onAirVars, packageVars>>
        => [OnAir!Drawing /\ viewFrame >= asked.from =>
              OnAir!OverlayAlpha(overlay, viewFrame) = asked.alpha]_(OnAir!vars)
  <2>1. ViewInv /\ OverlayInv /\ viewFrame >= asked.from =>
          OnAir!OverlayAlpha(overlay, viewFrame) = asked.alpha
    BY AlphaIs DEF ViewInv
  <2>. QED  BY <2>1
<1>. QED  BY <1>1, ViewInvariant, PTL
     DEF MCSpec, OverlayFollowsCommand, OnAir!OverlayFollowsCommand

-----------------------------------------------------------------------------
(* Where a mix begins.                                                     *)

\* What is on air in a mix, its newest item as soon as it is seen.
Mixed(t, f) ==
  IF OnAir!Progress(t, f) > 0
  THEN Append(OnAir!Beneath(t), OnAir!Layer(t.to, OnAir!Progress(t, f), t.start))
  ELSE OnAir!Beneath(t)

\* The View showed the transition as it is now.
ShowsIt(t) ==
  IF t.kind = "mix" /\ ~OnAir!IsComplete(t, shown.frame)
  THEN OnAir!Visible(shown.layers) = OnAir!Visible(Mixed(t, shown.frame))
  ELSE shown.layers = <<OnAir!Layer(t.to, Length, t.start)>>

BeforeAny ==
  /\ transition = OnAir!NoTransition /\ item = "none" /\ read.item = "none"
  /\ shown.layers = <<>> /\ base = OnAir!NoBase

\* Unless a picture was early, it is the transition's from the frame before its first;
\* what a mix began over is what lies beneath it.
AfterTake ==
  /\ item = transition.to \/ take.step = "item"
  /\ start = transition.start \/ take.step \in {"item", "start"}
  /\ take.step \in {"item", "start"} => take.to = transition.to
  /\ base = OnAir!NoBase \/ /\ transition.kind = "mix"
                            /\ base = <<OnAir!Visible(OnAir!Beneath(transition))>>
  /\ ~shown.early /\ shown.frame + 1 >= transition.start => ShowsIt(transition)

SeamInv ==
  /\ DOMAIN shown = {"frame", "layers", "early"}
  /\ shown.frame =< clock /\ (pc # "between" => viewFrame =< clock)
  /\ BeforeAny \/ (transition \in Transitions /\ AfterTake)

LEMMA NotNone == "none" \notin Items
BY ViewConstants DEF OnAir!ViewTimelineConstants

\* A layer at nothing is not seen.
LEMMA UnseenOnTop ==
  ASSUME NEW S, NEW layers \in Seq(S), NEW x \in S, x.alpha = 0
  PROVE  OnAir!Visible(Append(layers, x)) = OnAir!Visible(layers)
<1>1. PICK n \in Nat : n = Len(layers)
  BY LenProperties
<1>2. PICK more : more = Append(layers, x)
  OBVIOUS
<1>3. /\ more \in Seq(S) /\ Len(more) = n + 1 /\ more[n + 1] = x
      /\ \A k \in 1..n : more[k] = layers[k]
  BY <1>1, <1>2, AppendProperties
<1>4. DOMAIN more = 1..(n + 1)
  BY <1>3, LenProperties
<1>5. DOMAIN layers = 1..n
  BY <1>1, LenProperties
<1>6. \A k \in 1..(n + 1) : k \in 1..n \/ k = n + 1
  BY <1>1
<1>7. 1..n \subseteq 1..(n + 1)
  BY <1>1
<1>8. {k \in DOMAIN more : more[k].alpha > 0} = {k \in DOMAIN layers : layers[k].alpha > 0}
  <2>1. ~(more[n + 1].alpha > 0)
    BY <1>3
  <2>. QED  BY <1>3, <1>4, <1>5, <1>6, <1>7, <2>1
<1>9. \A k \in {j \in DOMAIN layers : layers[j].alpha > 0} : <<k, more[k]>> = <<k, layers[k]>>
  BY <1>3, <1>5
<1>. QED  BY <1>2, <1>8, <1>9 DEF OnAir!Visible

LEMMA ProgressBefore ==
  ASSUME NEW t \in Transitions, NEW f \in Int, f =< t.start
  PROVE  t.kind = "mix" \/ f < t.start =>
           OnAir!Progress(t, f) = 0 /\ ~OnAir!IsComplete(t, f)
<1>1. t.start \in Nat /\ Length \in Nat /\ Length > 0 /\ t.kind \in {"cut", "mix"}
  BY ViewAssumption DEF Transitions
<1>2. t.kind = "mix" \/ f < t.start => OnAir!Progress(t, f) = 0
  BY <1>1 DEF OnAir!Progress
<1>. QED  BY <1>1, <1>2 DEF OnAir!IsComplete

LEMMA BeneathAny ==
  ASSUME NEW t \in Transitions, Ordered(t)
  PROVE  OnAir!Beneath(t) \in Seq(AnyLayer)
<1>1. t.start \in Nat
  BY DEF Transitions
<1>. QED  BY <1>1, BeneathIs, ShownGrows

\* The first frame of a mix adds nothing to what lies beneath it.
LEMMA FirstFrame ==
  ASSUME NEW t \in Transitions, Ordered(t), t.kind = "mix", NEW s
  PROVE  OnAir!Visible(OnAir!SceneFor(s, t, t.start)) = OnAir!Visible(OnAir!Beneath(t))
<1>1. t.start \in Nat /\ t.to \in Items /\ t # OnAir!NoTransition
  BY DEF Transitions, OnAir!NoTransition
<1>2. OnAir!Progress(t, t.start) = 0 /\ ~OnAir!IsComplete(t, t.start) /\ ~(t.start < t.start)
  BY <1>1, ProgressBefore
<1>3. PICK x : x = OnAir!Layer(t.to, 0, t.start)
  OBVIOUS
<1>4. x \in AnyLayer /\ x.alpha = 0
  BY <1>1, <1>3 DEF AnyLayer, OnAir!Layer
<1>5. OnAir!SceneFor(s, t, t.start) = Append(OnAir!Beneath(t), x)
  BY <1>1, <1>2, <1>3 DEF OnAir!SceneFor
<1>. QED  BY <1>4, <1>5, BeneathAny, UnseenOnTop

\* A picture that is not early shows its transition.
LEMMA PictureIsTheTransitions ==
  ASSUME NEW t \in Transitions, Ordered(t), NEW f \in Nat, f >= t.start,
         NEW s, OnAir!IsComplete(t, f) => s = OnAir!Layer(t.to, Length, t.start)
  PROVE  IF t.kind = "mix" /\ ~OnAir!IsComplete(t, f)
         THEN OnAir!Visible(OnAir!SceneFor(s, t, f)) = OnAir!Visible(Mixed(t, f))
         ELSE OnAir!SceneFor(s, t, f) = <<OnAir!Layer(t.to, Length, t.start)>>
<1>1. /\ t.start \in Nat /\ t.to \in Items /\ t # OnAir!NoTransition /\ t.kind \in {"cut", "mix"}
      /\ ~(f < t.start)
  BY DEF Transitions, OnAir!NoTransition
<1>2. PICK p \in Nat : p = OnAir!Progress(t, f)
  BY ProgressIs
<1>3. CASE t.kind = "mix" /\ ~OnAir!IsComplete(t, f)
  <2>1. PICK x : x = OnAir!Layer(t.to, p, t.start)
    OBVIOUS
  <2>2. OnAir!SceneFor(s, t, f) = Append(OnAir!Beneath(t), x)
    BY <1>1, <1>2, <1>3, <2>1 DEF OnAir!SceneFor
  <2>3. CASE p > 0
    BY <1>2, <1>3, <2>1, <2>2, <2>3 DEF Mixed
  <2>4. CASE ~(p > 0)
    <3>1. x \in AnyLayer /\ x.alpha = 0
      BY <1>1, <1>2, <2>1, <2>4 DEF AnyLayer, OnAir!Layer
    <3>2. Mixed(t, f) = OnAir!Beneath(t)
      BY <1>2, <2>4 DEF Mixed
    <3>. QED  BY <1>3, <2>2, <3>1, <3>2, BeneathAny, UnseenOnTop
  <2>. QED  BY <2>3, <2>4
<1>4. CASE ~(t.kind = "mix" /\ ~OnAir!IsComplete(t, f))
  <2>1. OnAir!IsComplete(t, f)
    <3>1. CASE t.kind = "cut"
      <4>1. OnAir!Progress(t, f) = Length
        BY <1>1, <3>1 DEF OnAir!Progress
      <4>. QED  BY <4>1, ViewAssumption DEF OnAir!IsComplete
    <3>. QED  BY <1>1, <1>4, <3>1
  <2>2. s.item = t.to /\ s.item # "none"
    BY <1>1, <2>1, NotNone DEF OnAir!Layer
  <2>3. OnAir!SceneFor(s, t, f) = <<s>>
    BY <1>1, <1>4, <2>2 DEF OnAir!SceneFor, OnAir!None
  <2>. QED  BY <1>4, <2>1, <2>3
<1>. QED  BY <1>3, <1>4

LEMMA SeamBegins == ASSUME OnAir!Init PROVE SeamInv
BY DEF OnAir!Init, SeamInv, BeforeAny, OnAir!Layer, OnAir!None, OnAir!Stopped, OnAir!NoBase

\* The clock, and the loop's first steps.
LEMMA ClockKeepsSeam ==
  ASSUME ViewInv, SeamInv,
         OnAir!StartShow \/ OnAir!Advance \/ OnAir!Wake \/ OnAir!ReadItem \/ OnAir!ReadStart
  PROVE  SeamInv'
<1>1. UNCHANGED <<item, start, transition, take, base, shown>>
  BY DEF OnAir!StartShow, OnAir!Advance, OnAir!Wake, OnAir!ReadItem, OnAir!ReadStart,
         OnAir!loopVars, OnAir!viewVars, OnAir!takeVars
<1>2. clock \in {-1} \cup Nat /\ clock' \in Int /\ clock =< clock'
  BY DEF ViewInv, OnAir!StartShow, OnAir!Advance, OnAir!Wake, OnAir!ReadItem, OnAir!ReadStart,
         OnAir!Running, OnAir!Stopped
<1>3. shown'.frame =< clock'
  BY <1>1, <1>2 DEF SeamInv, ViewInv
<1>4. pc' # "between" => viewFrame' =< clock'
  <2>1. CASE OnAir!StartShow \/ OnAir!Advance \/ OnAir!ReadItem \/ OnAir!ReadStart
    <3>1. viewFrame' = viewFrame /\ (pc' # "between" => pc # "between")
      BY <2>1 DEF OnAir!StartShow, OnAir!Advance, OnAir!ReadItem, OnAir!ReadStart, OnAir!loopVars
    <3>. QED  BY <1>2, <3>1 DEF SeamInv, ViewInv
  <2>2. CASE OnAir!Wake
    BY <1>2, <2>2 DEF OnAir!Wake
  <2>. QED  BY <2>1, <2>2
<1>5. CASE BeforeAny
  <2>1. read'.item = "none"
    BY <1>5 DEF BeforeAny, ViewInv, AnyLayer, OnAir!StartShow, OnAir!Advance, OnAir!Wake,
                OnAir!ReadItem, OnAir!ReadStart, OnAir!loopVars
  <2>2. BeforeAny'
    BY <1>1, <1>5, <2>1 DEF BeforeAny
  <2>. QED  BY <1>1, <1>3, <1>4, <2>2 DEF SeamInv
<1>6. CASE transition \in Transitions /\ AfterTake
  <2>1. transition' \in Transitions /\ AfterTake'
    BY <1>1, <1>6 DEF AfterTake, ShowsIt, Mixed
  <2>. QED  BY <1>1, <1>3, <1>4, <2>1 DEF SeamInv
<1>. QED  BY <1>5, <1>6 DEF SeamInv

LEMMA DrawKeepsSeam == ASSUME ViewInv, SeamInv, OnAir!DrawView PROVE SeamInv'
<1>1. /\ UNCHANGED <<clock, viewFrame, item, start, transition, take, base>>
      /\ pc = "transition" /\ pc' = "between"
      /\ shown' = [frame |-> viewFrame, layers |-> OnAir!SceneFor(read, transition, viewFrame),
                   early |-> ~OnAir!Settled(transition, viewFrame)]
      /\ read'.item = "none"
  BY DEF OnAir!DrawView, OnAir!viewVars, OnAir!takeVars, OnAir!Layer, OnAir!None
<1>2. /\ shown'.frame = viewFrame /\ shown'.layers = OnAir!SceneFor(read, transition, viewFrame)
      /\ shown'.early = ~OnAir!Settled(transition, viewFrame)
  BY <1>1
<1>3. shown'.frame =< clock'
  BY <1>1, <1>2 DEF SeamInv
<1>4. CASE BeforeAny
  <2>1. shown'.layers = <<>>
    BY <1>2, <1>4 DEF BeforeAny, OnAir!SceneFor, OnAir!None
  <2>2. BeforeAny'
    BY <1>1, <1>4, <2>1 DEF BeforeAny
  <2>. QED  BY <1>1, <1>3, <2>2 DEF SeamInv
<1>5. CASE transition \in Transitions /\ AfterTake
  <2>1. PICK t \in Transitions : t = transition /\ Ordered(t)
    BY <1>5 DEF ViewInv, Transitions, OnAir!NoTransition
  <2>2. ASSUME ~shown'.early PROVE ShowsIt(transition)'
    <3>1. /\ viewFrame >= t.start
          /\ OnAir!IsComplete(t, viewFrame) => read = OnAir!Layer(t.to, Length, t.start)
      <4>1. t # OnAir!NoTransition
        BY <2>1 DEF Transitions, OnAir!NoTransition
      <4>2. OnAir!Settled(t, viewFrame)
        BY <1>2, <2>1, <2>2
      <4>. QED  BY <4>1, <4>2 DEF OnAir!Settled
    <3>2. viewFrame \in Nat
      BY DEF ViewInv
    <3>3. IF t.kind = "mix" /\ ~OnAir!IsComplete(t, viewFrame)
          THEN OnAir!Visible(OnAir!SceneFor(read, t, viewFrame))
                 = OnAir!Visible(Mixed(t, viewFrame))
          ELSE OnAir!SceneFor(read, t, viewFrame) = <<OnAir!Layer(t.to, Length, t.start)>>
      BY <2>1, <3>1, <3>2, PictureIsTheTransitions
    <3>. QED  BY <1>1, <1>2, <2>1, <3>3 DEF ShowsIt, Mixed
  <2>3. AfterTake'
    BY <1>1, <1>5, <2>2 DEF AfterTake
  <2>. QED  BY <1>1, <1>3, <1>5, <2>3 DEF SeamInv
<1>. QED  BY <1>4, <1>5 DEF SeamInv

\* What a take in flight is frozen as is what the View showed of it, short of the cap.
LEMMA FrozenIsMixed ==
  ASSUME NEW t \in Transitions, Ordered(t), NEW s \in Nat \ {0},
         Len(OnAir!Beneath(t)) < MaxLayers
  PROVE  OnAir!Frozen(t, s) = Mixed(t, s - 1)
<1>1. PICK f \in Nat : f = s - 1 /\ f = IF s = 0 THEN 0 ELSE s - 1
  OBVIOUS
<1>2. PICK p \in Nat : p = OnAir!Progress(t, f)
  BY ProgressIs
<1>3. PICK below \in Seq(AnyLayer) : below = OnAir!Beneath(t)
  BY BeneathAny
<1>4. PICK x \in AnyLayer : x = OnAir!Layer(t.to, p, t.start)
  <2>1. t.to \in Items /\ t.start \in Nat
    BY DEF Transitions
  <2>2. OnAir!Layer(t.to, p, t.start) \in AnyLayer
    BY <2>1 DEF AnyLayer, OnAir!Layer
  <2>. QED  BY <2>2
<1>5. PICK layers : layers = IF p > 0 THEN Append(below, x) ELSE below
  OBVIOUS
<1>6. Len(below) \in Nat /\ Len(below) < MaxLayers /\ MaxLayers \in Nat
  BY <1>3, LenProperties, ViewAssumption
<1>7. Len(layers) =< MaxLayers
  <2>1. Len(Append(below, x)) = Len(below) + 1
    BY <1>3, <1>4, AppendProperties
  <2>. QED  BY <1>5, <1>6, <2>1
<1>8. Mixed(t, s - 1) = layers
  BY <1>1, <1>2, <1>3, <1>4, <1>5 DEF Mixed
<1>9. OnAir!Frozen(t, s) =
        IF Len(layers) =< MaxLayers THEN layers
        ELSE <<layers[1]>> \o SubSeq(layers, Len(layers) - MaxLayers + 2, Len(layers))
  BY <1>1, <1>2, <1>3, <1>4, <1>5 DEF OnAir!Frozen
<1>. QED  BY <1>7, <1>8, <1>9

\* Stopped, nothing of a mix has come.
LEMMA FrozenAtZero ==
  ASSUME NEW t \in Transitions, Ordered(t), t.kind = "mix", t.start = 0,
         Len(OnAir!Beneath(t)) < MaxLayers
  PROVE  OnAir!Frozen(t, 0) = OnAir!Beneath(t)
<1>1. OnAir!Progress(t, 0) = 0
  BY ProgressBefore
<1>2. PICK below \in Seq(AnyLayer) : below = OnAir!Beneath(t)
  BY BeneathAny
<1>3. Len(below) =< MaxLayers
  BY <1>2, LenProperties, ViewAssumption
<1>. QED  BY <1>1, <1>2, <1>3 DEF OnAir!Frozen

\* A mix begins over what the View showed in the frame before it, unless that was early.
LEMMA MixBeginsOver ==
  ASSUME ViewInv, SeamInv, take \in Taking, take.step = "transition", take.kind = "mix",
         NEW s \in Nat, s = take.start, ~shown.early, s = shown.frame + 1,
         NEW f, f = (IF s = 0 THEN 0 ELSE s - 1),
         NEW interrupts, interrupts <=> OnAir!InFlight(transition, f),
         NEW layers, layers = IF interrupts THEN OnAir!Frozen(transition, s) ELSE <<>>,
         interrupts => layers # <<>> /\ Len(OnAir!Beneath(transition)) < MaxLayers,
         NEW t \in Transitions, t.underlay = layers, t.from = item, t.fromStart = start
  PROVE  OnAir!Visible(shown.layers) = OnAir!Visible(OnAir!Beneath(t))
<1>1. shown.frame \in Int /\ shown.frame = s - 1
  BY DEF ViewInv
<1>2. CASE BeforeAny
  <2>1. transition = OnAir!NoTransition
    BY <1>2 DEF BeforeAny
  <2>2. layers = <<>>
    BY <2>1 DEF OnAir!InFlight
  <2>3. OnAir!Beneath(t) = <<>>
    BY <1>2, <2>2 DEF BeforeAny, OnAir!Beneath, OnAir!None
  <2>. QED  BY <1>2, <2>3 DEF BeforeAny
<1>3. CASE transition \in Transitions /\ AfterTake
  <2>1. PICK old \in Transitions : /\ old = transition /\ Ordered(old) /\ old # OnAir!NoTransition
                                   /\ old.start \in Nat /\ old.kind \in {"cut", "mix"}
                                   /\ old.to \in Items
    BY <1>3 DEF ViewInv, Transitions, OnAir!NoTransition
  <2>2. old.start =< s
    BY <2>1 DEF ViewInv, OnAir!NoTake, Taking
  <2>3. ShowsIt(old)
    BY <1>1, <1>3, <2>1, <2>2 DEF AfterTake
  <2>4. CASE interrupts
    <3>1. OnAir!Beneath(t) = layers /\ layers = OnAir!Frozen(old, s)
      BY <2>1, <2>4 DEF OnAir!Beneath
    <3>2. Len(OnAir!Beneath(old)) < MaxLayers
      BY <2>1, <2>4
    <3>3. CASE s = 0
      <4>1. OnAir!InFlight(old, f) /\ old.start = 0 /\ shown.frame =< old.start
        <5>1. OnAir!InFlight(old, f)
          BY <2>1, <2>4
        <5>2. shown.frame =< 0
          BY <1>1, <3>3
        <5>3. old.start \in Nat /\ old.start =< 0
          BY <2>1, <2>2, <3>3
        <5>4. old.start = 0
          BY <5>3
        <5>. QED  BY <5>1, <5>2, <5>4
      <4>2. old.kind = "mix"
        BY <4>1 DEF OnAir!InFlight
      <4>3. OnAir!Progress(old, shown.frame) = 0 /\ ~OnAir!IsComplete(old, shown.frame)
        BY <1>1, <4>1, <4>2, ProgressBefore
      <4>4. Mixed(old, shown.frame) = OnAir!Beneath(old)
        BY <4>3 DEF Mixed
      <4>5. layers = OnAir!Beneath(old)
        BY <2>1, <3>1, <3>2, <3>3, <4>1, <4>2, FrozenAtZero
      <4>. QED  BY <2>3, <3>1, <4>2, <4>3, <4>4, <4>5 DEF ShowsIt
    <3>4. CASE s # 0
      <4>1. OnAir!InFlight(old, shown.frame)
        <5>1. f = shown.frame
          BY <1>1, <3>4
        <5>. QED  BY <2>1, <2>4, <5>1
      <4>2. old.kind = "mix" /\ ~OnAir!IsComplete(old, shown.frame)
        BY <4>1 DEF OnAir!InFlight
      <4>3. layers = Mixed(old, shown.frame)
        BY <1>1, <2>1, <3>1, <3>2, <3>4, FrozenIsMixed
      <4>. QED  BY <2>3, <3>1, <4>2, <4>3 DEF ShowsIt
    <3>. QED  BY <3>3, <3>4
  <2>5. CASE ~interrupts
    <3>1. layers = <<>>
      BY <2>5
    <3>2. item = old.to /\ start = old.start
      BY <1>3, <2>1 DEF AfterTake
    <3>3. OnAir!Beneath(t) = <<OnAir!Layer(old.to, Length, old.start)>>
      BY <2>1, <3>1, <3>2, NotNone DEF OnAir!Beneath, OnAir!None
    <3>4. ~(old.kind = "mix" /\ ~OnAir!IsComplete(old, shown.frame))
      <4>1. SUFFICES ASSUME old.kind = "mix", ~OnAir!IsComplete(old, shown.frame) PROVE FALSE
        OBVIOUS
      <4>2. CASE s = 0
        <5>1. ~OnAir!IsComplete(old, 0)
          BY <2>1, <2>2, <4>1, <4>2, ProgressBefore
        <5>2. OnAir!InFlight(old, 0)
          BY <2>1, <4>1, <5>1 DEF OnAir!InFlight
        <5>. QED  BY <2>1, <2>5, <4>2, <5>2
      <4>3. CASE s # 0
        <5>1. OnAir!InFlight(old, shown.frame)
          BY <2>1, <4>1 DEF OnAir!InFlight
        <5>. QED  BY <1>1, <2>1, <2>5, <4>3, <5>1
      <4>. QED  BY <4>2, <4>3
    <3>. QED  BY <2>3, <3>3, <3>4 DEF ShowsIt
  <2>. QED  BY <2>4, <2>5
<1>. QED  BY <1>2, <1>3 DEF SeamInv

LEMMA TransitionKeepsSeam == ASSUME ViewInv, SeamInv, OnAir!TakeWritesTransition PROVE SeamInv'
<1>1. take \in Taking /\ take.step = "transition" /\ take'.step = "item" /\ take'.to = take.to
  BY DEF OnAir!TakeWritesTransition, ViewInv, OnAir!NoTake, Taking
<1>2. PICK s \in Nat : s = take.start
  BY <1>1 DEF Taking
<1>3. PICK f : f = IF s = 0 THEN 0 ELSE s - 1
  OBVIOUS
<1>4. PICK interrupts : interrupts = (take.kind = "mix" /\ OnAir!InFlight(transition, f))
  OBVIOUS
<1>5. PICK layers : layers = IF interrupts THEN OnAir!Frozen(transition, s) ELSE <<>>
  OBVIOUS
<1>6. PICK keeps : keeps = (layers # <<>> /\ Len(OnAir!Beneath(transition)) < MaxLayers)
  OBVIOUS
<1>7. /\ transition' = [kind |-> take.kind, start |-> s, to |-> take.to,
                        from |-> item, fromStart |-> start, underlay |-> layers]
      /\ base' = IF take.kind = "mix" /\ s > 0 /\ shown.frame = s - 1 /\ ~shown.early
                    /\ (interrupts => keeps)
                 THEN <<OnAir!Visible(shown.layers)>> ELSE OnAir!NoBase
      /\ shown' = [shown EXCEPT !.early = shown.early \/ take.kind = "cut" \/ s # clock + 1
                                            \/ (interrupts /\ ~keeps)]
      /\ UNCHANGED <<clock, pc, viewFrame, read, item, start>>
  BY <1>2, <1>3, <1>4, <1>5, <1>6 DEF OnAir!TakeWritesTransition
<1>8. ViewInv'
  BY TransitionKeepsView
<1>9. transition' \in Transitions /\ transition'.start = s /\ transition'.to = take.to
  BY <1>1, <1>7, <1>8 DEF ViewInv, OnAir!NoTake, Taking
<1>10. /\ DOMAIN shown' = DOMAIN shown /\ shown'.frame = shown.frame /\ shown'.layers = shown.layers
      /\ shown'.early = (shown.early \/ take.kind = "cut" \/ s # clock + 1
                          \/ (interrupts /\ ~keeps))
  BY <1>7 DEF SeamInv
<1>11. ASSUME take.kind = "mix", ~shown.early, s = shown.frame + 1, interrupts => keeps
       PROVE  OnAir!Visible(shown.layers) = OnAir!Visible(OnAir!Beneath(transition'))
  <2>1. PICK t \in Transitions : t = transition'
    BY <1>9
  <2>2. t.underlay = layers /\ t.from = item /\ t.fromStart = start
    BY <1>7, <2>1
  <2>3. interrupts <=> OnAir!InFlight(transition, f)
    BY <1>4, <1>11
  <2>4. interrupts => layers # <<>> /\ Len(OnAir!Beneath(transition)) < MaxLayers
    BY <1>6, <1>11
  <2>5. OnAir!Visible(shown.layers) = OnAir!Visible(OnAir!Beneath(t))
    BY <1>1, <1>2, <1>3, <1>5, <1>11, <2>2, <2>3, <2>4, MixBeginsOver
  <2>. QED  BY <2>1, <2>5
<1>12. base' = OnAir!NoBase \/ /\ transition'.kind = "mix"
                               /\ base' = <<OnAir!Visible(OnAir!Beneath(transition'))>>
  <2>1. CASE take.kind = "mix" /\ s > 0 /\ shown.frame = s - 1 /\ ~shown.early
             /\ (interrupts => keeps)
    <3>1. s = shown.frame + 1
      BY <1>2, <2>1
    <3>. QED  BY <1>7, <1>11, <2>1, <3>1
  <2>. QED  BY <1>7, <2>1
<1>13. ASSUME ~shown'.early, shown'.frame + 1 >= transition'.start
       PROVE  ShowsIt(transition)'
  <2>1. take.kind = "mix" /\ ~shown.early /\ s = clock + 1 /\ (interrupts => keeps)
    BY <1>1, <1>10, <1>13 DEF Taking
  <2>2. s = shown.frame + 1 /\ shown.frame \in Int /\ shown.frame =< s
    BY <1>2, <1>9, <1>10, <1>13, <2>1 DEF SeamInv, ViewInv
  <2>3. PICK t \in Transitions : t = transition' /\ t.start = s /\ t.kind = "mix"
    BY <1>7, <1>9, <2>1
  <2>4. OnAir!Progress(t, shown.frame) = 0 /\ ~OnAir!IsComplete(t, shown.frame)
    BY <2>2, <2>3, ProgressBefore
  <2>5. Mixed(t, shown.frame) = OnAir!Beneath(t)
    BY <2>4 DEF Mixed
  <2>6. OnAir!Visible(shown.layers) = OnAir!Visible(OnAir!Beneath(t))
    BY <1>11, <2>1, <2>2, <2>3
  <2>. QED  BY <1>10, <2>3, <2>4, <2>5, <2>6 DEF ShowsIt, Mixed
<1>14. AfterTake'
  BY <1>1, <1>9, <1>12, <1>13 DEF AfterTake
<1>. QED  BY <1>7, <1>9, <1>10, <1>14 DEF SeamInv

LEMMA ItemKeepsSeam ==
  ASSUME ViewInv, SeamInv, OnAir!TakeWritesItem \/ OnAir!TakeWritesStart
  PROVE  SeamInv'
<1>1. UNCHANGED <<clock, pc, viewFrame, read, shown, transition, base>>
  BY DEF OnAir!TakeWritesItem, OnAir!TakeWritesStart, OnAir!loopVars
<1>2. take \in Taking /\ take.step \in {"item", "start"} /\ transition \in Transitions
      /\ transition.start = take.start
  BY DEF OnAir!TakeWritesItem, OnAir!TakeWritesStart, ViewInv, OnAir!NoTake, Taking
<1>3. AfterTake
  BY <1>2 DEF SeamInv, BeforeAny, Transitions, OnAir!NoTransition
<1>4. take.to = transition.to
  BY <1>2, <1>3 DEF AfterTake
<1>5. item' = transition.to
  <2>1. CASE OnAir!TakeWritesItem
    BY <1>4, <2>1 DEF OnAir!TakeWritesItem
  <2>2. CASE OnAir!TakeWritesStart
    BY <1>3, <2>2 DEF OnAir!TakeWritesStart, AfterTake
  <2>. QED  BY <2>1, <2>2
<1>6. start' = transition.start \/ take'.step \in {"item", "start"}
  <2>1. CASE OnAir!TakeWritesItem
    BY <1>2, <2>1 DEF OnAir!TakeWritesItem, Taking
  <2>2. CASE OnAir!TakeWritesStart
    BY <1>2, <2>2 DEF OnAir!TakeWritesStart
  <2>. QED  BY <2>1, <2>2
<1>7. take'.step \in {"item", "start"} => take'.to = transition.to
  BY <1>2, <1>4 DEF OnAir!TakeWritesItem, OnAir!TakeWritesStart, OnAir!NoTake, Taking
<1>8. AfterTake'
  BY <1>1, <1>3, <1>5, <1>6, <1>7 DEF AfterTake, ShowsIt, Mixed
<1>. QED  BY <1>1, <1>2, <1>8 DEF SeamInv

LEMMA CommandKeepsSeam ==
  ASSUME ViewInv, SeamInv,
         \/ OnAir!ShowOverlay \/ OnAir!HideOverlay \/ UNCHANGED onAirVars
         \/ \E to \in Items, kind \in {"cut", "mix"}, recalled \in SUBSET {0, Length} :
              OnAir!TakeBegins(to, kind, recalled)
  PROVE  SeamInv'
<1>1. UNCHANGED <<clock, pc, viewFrame, read, shown, item, start, transition, base>>
  BY DEF OnAir!ShowOverlay, OnAir!HideOverlay, OnAir!OverlayCommand, OnAir!TakeBegins, onAirVars,
         OnAir!loopVars, OnAir!viewVars, OnAir!takeVars
<1>2. \/ take' = take
      \/ take = OnAir!NoTake /\ take'.step = "transition"
  BY DEF OnAir!ShowOverlay, OnAir!HideOverlay, OnAir!OverlayCommand, OnAir!TakeBegins, onAirVars,
         OnAir!takeVars
<1>3. CASE BeforeAny
  <2>1. BeforeAny'
    BY <1>1, <1>3 DEF BeforeAny
  <2>. QED  BY <1>1, <2>1 DEF SeamInv
<1>4. CASE transition \in Transitions /\ AfterTake
  <2>1. AfterTake'
    BY <1>1, <1>2, <1>4 DEF AfterTake, ShowsIt, Mixed, OnAir!NoTake
  <2>. QED  BY <1>1, <1>4, <2>1 DEF SeamInv
<1>. QED  BY <1>3, <1>4 DEF SeamInv

LEMMA SeamStep == ASSUME ViewInv, SeamInv, OnAir!Next PROVE SeamInv'
<1>1. CASE OnAir!StartShow \/ OnAir!Advance \/ OnAir!Wake \/ OnAir!ReadItem \/ OnAir!ReadStart
  BY <1>1, ClockKeepsSeam
<1>2. CASE OnAir!DrawView
  BY <1>2, DrawKeepsSeam
<1>3. CASE OnAir!TakeWritesTransition
  BY <1>3, TransitionKeepsSeam
<1>4. CASE OnAir!TakeWritesItem \/ OnAir!TakeWritesStart
  BY <1>4, ItemKeepsSeam
<1>5. ASSUME NEW to \in Items, NEW kind \in {"cut", "mix"}, NEW recalled \in SUBSET {0, Length},
             OnAir!TakeBegins(to, kind, recalled)
      PROVE  SeamInv'
  BY <1>5, CommandKeepsSeam
<1>6. CASE OnAir!ShowOverlay \/ OnAir!HideOverlay
  BY <1>6, CommandKeepsSeam
<1>7. {} \in SUBSET {0, Length} /\ \A alpha \in {0, Length} : {alpha} \in SUBSET {0, Length}
  OBVIOUS
<1>. QED  BY <1>1, <1>2, <1>3, <1>4, <1>5, <1>6, <1>7
          DEF OnAir!Next, OnAir!Draws, OnAir!Writes

\* What the View showed last is its transition as it is now, unless it was early.
THEOREM SeamInvariant == MCSpec => []SeamInv
<1>1. MCInit => SeamInv
  BY SeamBegins DEF MCInit
<1>2. ViewInv /\ SeamInv /\ [MCNext]_<<part, vars, onAirVars, packageVars>> => SeamInv'
  BY SeamStep, CommandKeepsSeam DEF MCNext
<1>. QED  BY <1>1, <1>2, ViewInvariant, PTL DEF MCSpec

\* directive.rs, apply_take, and render.rs, scene_for: the first frame of a mix shows
\* what the frame before it showed, layer for layer, and so does a mix that cuts into
\* one short of the layer cap, for any lengths and any cap.
THEOREM MixesAreSeamless == MCSpec => MixIsSeamless
<1>1. ViewInv /\ SeamInv /\ [MCNext]_<<part, vars, onAirVars, packageVars>>
        => [OnAir!Drawing /\ transition # OnAir!NoTransition
              /\ viewFrame = transition.start /\ base # OnAir!NoBase
            => OnAir!Visible(shown'.layers) = base[1]]_(OnAir!vars)
  <2>. SUFFICES ASSUME ViewInv, SeamInv, MCNext \/ UNCHANGED onAirVars, OnAir!Drawing,
                       transition # OnAir!NoTransition,
                       viewFrame = transition.start, base # OnAir!NoBase
                PROVE  OnAir!Visible(shown'.layers) = base[1]
    BY DEF OnAir!vars
  <2>1. CASE OnAir!Next
    <3>1. shown'.layers = OnAir!SceneFor(read, transition, viewFrame)
      BY <2>1, DrawsOnce DEF OnAir!DrawView
    <3>2. /\ transition \in Transitions /\ Ordered(transition) /\ transition.kind = "mix"
          /\ base[1] = OnAir!Visible(OnAir!Beneath(transition))
      BY DEF SeamInv, BeforeAny, AfterTake, ViewInv
    <3>. QED  BY <3>1, <3>2, FirstFrame
  <2>2. CASE UNCHANGED onAirVars
    BY <2>2 DEF onAirVars, OnAir!Drawing
  <2>. QED  BY <2>1, <2>2 DEF MCNext
<1>. QED  BY <1>1, ViewInvariant, SeamInvariant, PTL DEF MCSpec, MixIsSeamless, OnAir!MixIsSeamless
================================================================================
