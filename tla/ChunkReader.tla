----------------------------- MODULE ChunkReader -----------------------------
(***************************************************************************)
(* What the publisher hears from its peer (record/rtmp.rs): the chunks of  *)
(* several messages interleaved by chunk stream, put together again by     *)
(* ChunkReader, and the dialog that waits for the answers to connect,      *)
(* createStream and publish before the stream goes live.                   *)
(*                                                                         *)
(* The reader lasts as long as the connection, but a call of next_message  *)
(* lasts as long as its caller waits: the last of the dialog's waits gives *)
(* up after 50 ms of silence, wherever in a chunk the silence falls.       *)
(*                                                                         *)
(* A byte of a payload stands for as many bytes as one likes; timestamps   *)
(* are left out but for the field that an extended one adds to each chunk. *)
(***************************************************************************)
EXTENDS Integers, Sequences, FiniteSets, SequencesExt, FiniteSetsExt

CONSTANTS
  Csid,        \* chunk streams
  Sizes,       \* the chunk sizes the peer sets
  DefaultSize, \* DEFAULT_CHUNK_SIZE, in payload bytes of the model
  LongSize,    \* the length of a command
  MaxMessages, \* bound on the messages the peer sends
  Stalls       \* whether the peer may fall silent inside a chunk

ChunkReaderConstants ==
  /\ Sizes \subseteq Nat \ {0} /\ DefaultSize \in Nat \ {0}
  /\ LongSize \in Nat \ {0} /\ MaxMessages \in Nat /\ Stalls \in BOOLEAN

VARIABLES
  peer,      \* [size, chunk]: chunk is what is left to send of the chunk begun
  open,      \* per chunk stream: the message being sent, and what is left of it
  sent,      \* history: the messages the peer has finished
  begun,     \* the messages it has begun
  wire,      \* the field on its way
  reader,    \* next_message: [at, csid, ext, left, body]
  last,      \* per chunk stream: LastHeader
  partial,   \* per chunk stream: [length, body]
  inSize,    \* in_chunk_size
  delivered, \* history: the messages next_message has returned
  stage      \* dialog, live_loop

peerVars == <<peer, open, sent, begun>>
readerVars == <<reader, last, partial, inSize>>
vars == <<peerVars, wire, readerVars, delivered, stage>>

\* Commands by what amf0_decode finds in them: an answer with its transaction,
\* an error, a status, nothing readable.  A ping stands for all that the dialog
\* passes over.
Command == {"connected", "created", "other result", "error", "start", "refused",
            "garbled"}
SetSize == {[name |-> "size", size |-> n] : n \in Sizes}
Plain == {[name |-> c, size |-> 0] : c \in Command \union {"ping"}}
Length(m) == IF m.name \in Command THEN LongSize ELSE 1

Nothing == [id |-> 0, message |-> [name |-> "none", size |-> 0], ext |-> FALSE,
            left |-> 0]
NoChunk == [csid |-> 0, ext |-> FALSE, left |-> 0]
AtHead == [at |-> "head", csid |-> 0, left |-> 0, body |-> <<>>]
NoPartial == [length |-> 0, body |-> <<>>]

Init ==
  /\ peer = [size |-> DefaultSize, chunk |-> NoChunk]
  /\ open = [c \in Csid |-> Nothing] /\ sent = <<>> /\ begun = 0 /\ wire = <<>>
  /\ reader = AtHead /\ last = [c \in Csid |-> Nothing]
  /\ partial = [c \in Csid |-> NoPartial] /\ inSize = DefaultSize
  /\ delivered = <<>> /\ stage = "connect"

-----------------------------------------------------------------------------
(* The peer.                                                               *)

Over == stage \in {"failed", "over"}
Quiet == wire = <<>> /\ ~Over
ChunkDone == ~peer.chunk.ext /\ peer.chunk.left = 0

\* A message begins with a full header.
PeerBegins(c, m, ext) ==
  /\ Quiet /\ ChunkDone /\ open[c].left = 0 /\ begun < MaxMessages
  /\ begun' = begun + 1
  /\ open' = [open EXCEPT ![c] = [id |-> begun + 1, message |-> m, ext |-> ext,
                                  left |-> Length(m)]]
  /\ peer' = [peer EXCEPT !.chunk = [csid |-> c, ext |-> ext,
                                     left |-> Min({Length(m), peer.size})]]
  /\ wire' = <<[field |-> "header", csid |-> c, fmt |-> 0, of |-> open'[c]]>>
  /\ UNCHANGED <<sent, readerVars, delivered, stage>>

\* Its further chunks say only whose they are.
PeerContinues(c) ==
  /\ Quiet /\ ChunkDone /\ open[c].left > 0
  /\ peer' = [peer EXCEPT !.chunk = [csid |-> c, ext |-> open[c].ext,
                                     left |-> Min({open[c].left, peer.size})]]
  /\ wire' = <<[field |-> "header", csid |-> c, fmt |-> 3, of |-> Nothing]>>
  /\ UNCHANGED <<open, sent, begun, readerVars, delivered, stage>>

PeerExtends ==
  /\ Quiet /\ peer.chunk.ext /\ peer' = [peer EXCEPT !.chunk.ext = FALSE]
  /\ wire' = <<[field |-> "extended", csid |-> peer.chunk.csid, fmt |-> 0,
                of |-> Nothing]>>
  /\ UNCHANGED <<open, sent, begun, readerVars, delivered, stage>>

\* A new chunk size holds from the next chunk on.
PeerFills ==
  /\ Quiet /\ ~peer.chunk.ext /\ peer.chunk.left > 0
  /\ LET c == peer.chunk.csid
         m == open[c].message
         ends == open[c].left = 1
     IN /\ open' = [open EXCEPT ![c].left = @ - 1]
        /\ wire' = <<[field |-> "byte", csid |-> c, fmt |-> 0,
                      of |-> [open[c] EXCEPT !.left = 0]]>>
        /\ peer' = [peer EXCEPT !.chunk.left = @ - 1,
                      !.size = IF ends /\ m.name = "size" THEN m.size ELSE @]
        /\ sent' = IF ends /\ m.name # "size" THEN Append(sent, open[c].id) ELSE sent
  /\ UNCHANGED <<begun, readerVars, delivered, stage>>

-----------------------------------------------------------------------------
(* next_message.                                                           *)

Arrived == wire # <<>> /\ ~Over /\ wire' = <<>>
Field == wire[1]

\* What a message read to its end means to whoever waits for it.
Heard(m) ==
  CASE stage = "connect" ->
         (CASE m.name = "connected" -> "create"
            [] m.name \in {"error", "garbled"} -> "failed" [] OTHER -> stage)
    [] stage = "create" ->
         (CASE m.name = "created" -> "publish"
            [] m.name \in {"error", "garbled"} -> "failed" [] OTHER -> stage)
    [] stage = "publish" ->
         (CASE m.name = "start" -> "live"
            [] m.name \in {"refused", "error"} -> "failed" [] OTHER -> stage)
    [] OTHER -> stage

\* An error of the reader: the last wait of the dialog goes live on it, and the
\* live loop ends with it.
Unreadable ==
  stage' = CASE stage \in {"connect", "create"} -> "failed"
             [] stage = "publish" -> "live" [] OTHER -> "over"

\* Mutant: a message keeps the chunk size it began with.
WantedFrom(c, length) ==
  Min({length - Len(partial[c].body),
       IF partial[c].body = <<>> THEN inSize ELSE Len(partial[c].body)})

\* A chunk's payload: what the message lacks, up to the chunk size.
Wanted(c, length) == Min({length - Len(partial[c].body), inSize})

Started(c) == partial[c].length > 0
WholeLength(c) == IF Started(c) THEN partial[c].length ELSE Length(last'[c].message)

\* The payload comes next; what was there of the message is taken out.
TurnsToBody(c) ==
  /\ reader' = [at |-> "body", csid |-> c, left |-> Wanted(c, WholeLength(c)),
                body |-> partial[c].body]
  /\ UNCHANGED <<partial, inSize, delivered, stage>>

\* A header, or what is taken for one: bytes that are none cannot be read.
ReadsHeader ==
  /\ Arrived /\ reader.at = "head"
  /\ LET c == Field.csid IN
     IF Field.field # "header" \/ (Field.fmt = 3 /\ last[c] = Nothing)
     THEN Unreadable /\ UNCHANGED <<readerVars, delivered>>
     ELSE /\ last' = IF Field.fmt = 0 THEN [last EXCEPT ![c] = Field.of] ELSE last
          /\ IF last'[c].ext
             THEN /\ reader' = [AtHead EXCEPT !.at = "extended", !.csid = c]
                  /\ UNCHANGED <<partial, inSize, delivered, stage>>
             ELSE TurnsToBody(c)
  /\ UNCHANGED peerVars

ReadsExtended ==
  /\ Arrived /\ reader.at = "extended"
  /\ UNCHANGED last /\ TurnsToBody(reader.csid)
  /\ UNCHANGED peerVars

\* A byte; with the chunk's last the message is whole or waits for the next.
ReadsByte ==
  /\ Arrived /\ reader.at = "body"
  /\ LET c == reader.csid
         body == Append(reader.body, Field.of.id)
         m == last[c].message
         length == IF Started(c) THEN partial[c].length ELSE Length(m)
         whole == Len(body) >= length
     IN IF reader.left > 1
        THEN /\ reader' = [reader EXCEPT !.left = @ - 1, !.body = body]
             /\ UNCHANGED <<partial, inSize, delivered, stage>>
        ELSE /\ reader' = AtHead
             /\ partial' = [partial EXCEPT ![c] =
                  IF whole THEN NoPartial ELSE [length |-> length, body |-> body]]
             /\ inSize' = IF whole /\ m.name = "size" THEN m.size ELSE inSize
             /\ IF whole /\ m.name # "size"
                THEN /\ delivered' = Append(delivered, [message |-> m, body |-> body])
                     /\ stage' = Heard(m)
                ELSE UNCHANGED <<delivered, stage>>
  /\ UNCHANGED <<peerVars, last>>

\* 50 ms of silence end the wait for publish's answer.  The call is dropped with
\* what it had read of a chunk, and with what it had taken out to add to.
PublishUnanswered ==
  /\ stage = "publish" /\ wire = <<>>
  /\ ChunkDone \/ Stalls
  /\ stage' = "live" /\ reader' = AtHead
  /\ partial' = IF reader.at = "body" THEN [partial EXCEPT ![reader.csid] = NoPartial]
                ELSE partial
  /\ UNCHANGED <<peerVars, wire, last, inSize, delivered>>

-----------------------------------------------------------------------------
Next ==
  \/ \E c \in Csid, m \in Plain \union SetSize, ext \in BOOLEAN : PeerBegins(c, m, ext)
  \/ \E c \in Csid : PeerContinues(c)
  \/ PeerExtends \/ PeerFills
  \/ ReadsHeader \/ ReadsExtended \/ ReadsByte \/ PublishUnanswered

Spec == Init /\ [][Next]_vars

-----------------------------------------------------------------------------
(* What the reader promises.                                               *)

\* Messages arrive whole and in the order they were finished, however their
\* chunks are interleaved and whatever sizes are set between them, and one that
\* has been sent to its end has been heard (rtmp.rs, live_loop's read side).
MessagesArriveWhole ==
  /\ \A i \in DOMAIN delivered :
       /\ i <= Len(sent)
       /\ delivered[i].body =
            [k \in 1..Length(delivered[i].message) |-> sent[i]]
  /\ Quiet => Len(delivered) = Len(sent)
  /\ Over => stage = "failed" /\ Len(delivered) = Len(sent)
=============================================================================
