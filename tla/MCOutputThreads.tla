--------------------------- MODULE MCOutputThreads ----------------------------
(* The two threads that end late, in one run: a take's (RecordTake) and a    *)
(* stream's publisher (Publisher).  They share no state in the models; a     *)
(* behaviour is about one of them.                                           *)
EXTENDS RecordTake

CONSTANTS Track, ChannelBound, MaxSent, MaxDials

VARIABLES feeder, sent, started, cached, shed, channel, buffered, task,
          dials, wire, phase, closed, handle

VARIABLE part  \* the component this behaviour is about

streamVars == <<feeder, sent, started, cached, shed, channel, buffered, task,
                dials, wire, phase, closed, handle>>

Stream == INSTANCE Publisher WITH state <- phase, session <- handle, thread <- feeder

ASSUME StreamConstants == Stream!PublisherConstants

MCInit ==
  /\ part \in {"take", "stream"}
  /\ Init /\ Stream!Init

MCNext ==
  \/ part = "take" /\ Next /\ UNCHANGED <<part, streamVars>>
  \/ part = "stream" /\ Stream!Next /\ UNCHANGED <<part, vars>>

MCSpec ==
  /\ MCInit /\ [][MCNext]_<<part, vars, streamVars>>
  /\ WF_vars(part = "take" /\ Handler) /\ WF_vars(part = "take" /\ Loop)
  /\ WF_streamVars(part = "stream" /\ Stream!TrySend)
  /\ WF_streamVars(part = "stream" /\ Stream!Credit)
  /\ WF_streamVars(part = "stream" /\ Stream!ThreadExits)
  /\ WF_streamVars(part = "stream" /\ Stream!Ends)
  /\ WF_streamVars(part = "stream" /\ Stream!Runs)
  /\ WF_streamVars(part = "stream" /\ closed /\ Stream!GivenUp)

\* A peer gets a track's header before its first unit on every connection,
\* whenever the connection came up, unless the header itself was shed
\* (rtmp.rs, SeqCache).
HeaderFirst == Stream!HeaderFirst

\* However a stop that waits finds the task, it ends once the thread has let go
\* of it, even if the notification went past it and the peer reads nothing
\* (rtmp.rs PublisherHandle::drop).
TransportEnds == Stream!TransportEnds
===============================================================================
