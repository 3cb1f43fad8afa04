----------------------------- MODULE Publisher -----------------------------
(***************************************************************************)
(* A live stream's transport (record/rtmp.rs) between the session that     *)
(* opens and closes it and the stream thread that feeds it                 *)
(* (record/stream.rs).  The thread offers messages to a bounded queue and  *)
(* never waits; the publisher task dials, announces the tracks, writes     *)
(* what is queued and redials when the connection ends; a stop signals     *)
(* both and waits a bounded time for each.                                 *)
(*                                                                         *)
(* The signal to the task is a flag and a notification: the flag is        *)
(* polled where the task sleeps, the notification reaches it only where it *)
(* is already waiting for one, and the write of a queued message listens   *)
(* for nothing else.                                                       *)
(***************************************************************************)
EXTENDS Integers, Sequences, SequencesExt

CONSTANTS
  Track,         \* "video" and "audio"
  ChannelBound,  \* PUBLISH_CHANNEL_BOUND
  MaxSent,       \* bound on the messages offered
  MaxDials       \* bound on the connections dialled

PublisherConstants ==
  ChannelBound \in Nat \ {0} /\ MaxSent \in Nat /\ MaxDials \in Nat \ {0}

VARIABLES
  thread,   \* the stream thread's send
  sent,     \* the messages it has offered
  started,  \* the tracks whose header it has sent (seq_sent, aac_ready)
  cached,   \* the tracks whose header a redial announces again
  shed,     \* history: the tracks whose header found the queue full
  channel,  \* the queue
  buffered, \* what telemetry divides into stream_buffer_ms
  task,     \* the publisher task
  dials,    \* the connections dialled
  wire,     \* the messages written to the present connection
  state,    \* what publisher_state reports
  closed,   \* the flag
  session   \* the session's stop

vars == <<thread, sent, started, cached, shed, channel, buffered, task, dials,
          wire, state, closed, session>>
threadVars == <<thread, sent, started, cached, shed>>
taskVars == <<task, dials, wire>>

Message == [track : Track, header : BOOLEAN]
None == [track |-> "none", header |-> FALSE]
Stage == {"handshake", "connect", "create", "publish"}

TypeOK ==
  /\ thread \in [at : {"free", "try", "credit", "gone"},
                 message : Message \union {None}]
  /\ sent \in 0..MaxSent /\ dials \in 0..MaxDials
  /\ started \subseteq Track /\ cached \subseteq Track /\ shed \subseteq Track
  /\ channel \in Seq(Message) /\ Len(channel) <= ChannelBound
  /\ buffered \in 0..MaxSent
  /\ task \in [at : Stage \union {"redial", "mark", "dial", "clean", "replay",
                 "check", "up", "top", "live", "took", "writing", "pause", "ended"},
               message : Message \union {None}, woken : BOOLEAN]
  /\ wire \in Seq(Message)
  /\ state \in {"live", "reconnecting", "closed"} /\ closed \in BOOLEAN
  /\ session \in [at : {"open", "thread", "signal", "flag", "notify", "wait",
                        "ended", "dropped"},
                  waits : BOOLEAN, ok : BOOLEAN]

\* spawn_publisher and the session's open.
Init ==
  /\ thread = [at |-> "free", message |-> None] /\ sent = 0
  /\ started = {} /\ cached = {} /\ shed = {}
  /\ channel = <<>> /\ buffered = 0
  /\ task = [at |-> "redial", message |-> None, woken |-> FALSE]
  /\ dials = 0 /\ wire = <<>>
  /\ state = "reconnecting" /\ closed = FALSE
  /\ session = [at |-> "open", waits |-> FALSE, ok |-> TRUE]

-----------------------------------------------------------------------------
(* The stream thread.                                                      *)

\* Mutant: a header is cached with the unit that follows it.
OfferUncached ==
  /\ thread.at = "free" /\ sent < MaxSent /\ sent' = sent + 1
  /\ \E t \in Track :
       /\ thread' = [at |-> "try", message |-> [track |-> t,
                                                header |-> t \notin started]]
       /\ started' = started \union {t}
       /\ cached' = IF t \in started THEN cached \union {t} ELSE cached
  /\ UNCHANGED <<shed, channel, buffered, taskVars, state, closed, session>>

\* send: a track's header goes before its first unit, and is cached before it
\* is offered.
Offer ==
  /\ thread.at = "free" /\ sent < MaxSent /\ sent' = sent + 1
  /\ \E t \in Track :
       /\ thread' = [at |-> "try", message |-> [track |-> t,
                                                header |-> t \notin started]]
       /\ started' = started \union {t}
       /\ cached' = IF t \in started THEN cached ELSE cached \union {t}
  /\ UNCHANGED <<shed, channel, buffered, taskVars, state, closed, session>>

\* try_send: queued, shed, or refused as the task has gone.
TrySend ==
  /\ thread.at = "try"
  /\ LET full == Len(channel) = ChannelBound
         taken == task.at # "ended" /\ ~full
     IN /\ channel' = IF taken THEN Append(channel, thread.message) ELSE channel
        /\ thread' = [thread EXCEPT !.at = IF taken THEN "credit" ELSE "free"]
        /\ shed' = IF full /\ thread.message.header
                   THEN shed \union {thread.message.track} ELSE shed
  /\ UNCHANGED <<sent, started, cached, buffered, taskVars, state, closed, session>>

Credit ==
  /\ thread.at = "credit"
  /\ buffered' = buffered + 1
  /\ thread' = [at |-> "free", message |-> None]
  /\ UNCHANGED <<sent, started, cached, shed, channel, taskVars, state, closed,
                 session>>

\* run returns on the stop or the frame queue's end; the thread's share of the
\* handle goes with it.
ThreadExits ==
  /\ thread.at = "free" /\ session.at # "open"
  /\ thread' = [at |-> "gone", message |-> None]
  /\ UNCHANGED <<sent, started, cached, shed, channel, buffered, taskVars, state,
                 closed, session>>

-----------------------------------------------------------------------------
(* The publisher task.                                                     *)

Goes(at) == task' = [at |-> at, message |-> None, woken |-> FALSE]
Keeps == UNCHANGED <<threadVars, closed, session>>

End ==
  /\ Goes("ended") /\ state' = "closed"
  /\ channel' = <<>>
  /\ UNCHANGED <<buffered, dials, wire>>

\* The loop's top; the flag is read, then the state written.
Redial ==
  /\ task.at = "redial"
  /\ \/ closed /\ End
     \/ ~closed /\ Goes("mark") /\ UNCHANGED <<channel, buffered, dials, wire, state>>
  /\ Keeps

Mark ==
  /\ task.at = "mark" /\ Goes("dial")
  /\ state' = "reconnecting"
  /\ UNCHANGED <<channel, buffered, dials, wire>> /\ Keeps

\* The connection is made, refused, timed out or given up for a stop.
Dial ==
  /\ task.at = "dial"
  /\ \/ ~closed /\ dials < MaxDials /\ dials' = dials + 1 /\ wire' = <<>>
        /\ Goes("handshake")
     \/ Goes("pause") /\ UNCHANGED <<dials, wire>>
  /\ UNCHANGED <<channel, buffered, state>> /\ Keeps

\* The peer answers; to publish, silence will do.
Answered ==
  /\ task.at \in Stage
  /\ Goes(CASE task.at = "handshake" -> "connect" [] task.at = "connect" -> "create"
            [] task.at = "create" -> "publish" [] task.at = "publish" -> "clean")
  /\ UNCHANGED <<channel, buffered, dials, wire, state>> /\ Keeps

\* The peer refuses or hangs up, or the stop is seen.
GivenUp ==
  /\ task.at \in Stage
  /\ Goes("pause")
  /\ UNCHANGED <<channel, buffered, dials, wire, state>> /\ Keeps

Debited(n) == buffered - (IF n < buffered THEN n ELSE buffered)

\* drain_stale: what queued up during the outage is old.
Clean ==
  /\ task.at = "clean" /\ Goes("replay")
  /\ channel' = <<>> /\ buffered' = Debited(Len(channel))
  /\ UNCHANGED <<dials, wire, state>> /\ Keeps

\* Both headers are announced again, or the write fails.
Replay ==
  /\ task.at = "replay"
  /\ \/ /\ wire' = [i \in DOMAIN SetToSeq(cached) |->
                      [track |-> SetToSeq(cached)[i], header |-> TRUE]]
        /\ Goes("check")
     \/ Goes("pause") /\ UNCHANGED wire
  /\ UNCHANGED <<channel, buffered, dials, state>> /\ Keeps

\* set_state(Live): the flag is read, then the state written.
Check ==
  /\ task.at = "check" /\ Goes(IF closed THEN "top" ELSE "up")
  /\ UNCHANGED <<channel, buffered, dials, wire, state>> /\ Keeps

Up ==
  /\ task.at = "up" /\ Goes("top") /\ state' = "live"
  /\ UNCHANGED <<channel, buffered, dials, wire>> /\ Keeps

\* live_loop looks at the flag at its top, then waits for whatever is first.
Top ==
  /\ task.at = "top" /\ ~closed /\ Goes("live")
  /\ UNCHANGED <<channel, buffered, dials, wire, state>> /\ Keeps

\* live_loop sees the stop: at its top, by the notification or its 50 ms poll.
LiveStops ==
  /\ task.at \in {"top", "live"} /\ closed /\ End /\ Keeps

\* The connection ends, by EOF or an unreadable message.
Hangup ==
  /\ task.at = "live"
  /\ IF closed THEN End
     ELSE Goes("pause") /\ UNCHANGED <<channel, buffered, dials, wire, state>>
  /\ Keeps

\* A message is taken; the write does not listen yet.
TakeMessage ==
  /\ task.at = "live" /\ channel # <<>>
  /\ channel' = Tail(channel)
  /\ task' = [at |-> "took", message |-> Head(channel), woken |-> FALSE]
  /\ UNCHANGED <<buffered, dials, wire, state>> /\ Keeps

StartWrite ==
  /\ task.at = "took" /\ task' = [task EXCEPT !.at = "writing"]
  /\ UNCHANGED <<channel, buffered, dials, wire, state>> /\ Keeps

\* The write ends, well or with the connection.
Write ==
  /\ task.at = "writing"
  /\ buffered' = Debited(1)
  /\ \/ wire' = Append(wire, task.message) /\ Goes("top")
     \/ UNCHANGED wire /\ Goes("pause")
  /\ UNCHANGED <<channel, dials, state>> /\ Keeps

\* The write is given up for a notification.
WriteStops ==
  /\ task.at = "writing" /\ task.woken
  /\ Goes("ended") /\ state' = "closed" /\ channel' = <<>>
  /\ buffered' = Debited(1)
  /\ UNCHANGED <<dials, wire>> /\ Keeps

\* The pause is over, or cut short by a stop.
Pause ==
  /\ task.at = "pause"
  /\ IF closed THEN End
     ELSE Goes("redial") /\ UNCHANGED <<channel, buffered, dials, wire, state>>
  /\ Keeps

-----------------------------------------------------------------------------
(* The session's stop.                                                     *)

others == <<threadVars, channel, buffered, dials, wire>>

\* stop_and_close tells the thread first; abandon tells both and waits for none.
Stop ==
  /\ session.at = "open"
  /\ \/ session' = [at |-> "thread", waits |-> TRUE, ok |-> TRUE]
     \/ session' = [at |-> "signal", waits |-> FALSE, ok |-> FALSE]
  /\ UNCHANGED <<others, task, state, closed>>

\* stop_thread: the thread's exit, or its backstop.
ThreadAwaited ==
  /\ session.at = "thread"
  /\ session' = [session EXCEPT !.at = "signal", !.ok = thread.at = "gone"]
  /\ UNCHANGED <<others, task, state, closed>>

\* shutdown_signal: the state, the flag and the notification, in this order.
Signal ==
  \/ /\ session.at = "signal" /\ state' = "closed"
     /\ session' = [session EXCEPT !.at = "flag"]
     /\ UNCHANGED <<others, task, closed>>
  \/ /\ session.at = "flag" /\ closed' = TRUE
     /\ session' = [session EXCEPT !.at = "notify"]
     /\ UNCHANGED <<others, task, state>>

Notified == task' = IF task.at = "writing" THEN [task EXCEPT !.woken = TRUE] ELSE task

Notify ==
  /\ session.at = "notify" /\ Notified
  /\ session' = [session EXCEPT !.at = IF session.waits THEN "wait" ELSE "ended"]
  /\ UNCHANGED <<others, state, closed>>

\* shutdown_and_wait: the task has ended, or the time is up.  In 800 ms the task
\* has passed every place that polls the flag: only a write can still hold it.
Awaited ==
  /\ session.at = "wait" /\ task.at \in {"ended", "writing", "replay"}
  /\ session' = [session EXCEPT !.at = "ended", !.ok = @ /\ task.at = "ended"]
  /\ UNCHANGED <<others, task, state, closed>>

\* Mutant: the handle's drop signals nothing.
DropHandleQuietly ==
  /\ session.at = "ended" /\ thread.at = "gone"
  /\ session' = [session EXCEPT !.at = "dropped"]
  /\ UNCHANGED <<others, task, state, closed>>

\* PublisherHandle::drop, with the last share of it: the signal once more.
DropHandle ==
  /\ session.at = "ended" /\ thread.at = "gone"
  /\ session' = [session EXCEPT !.at = "dropped"]
  /\ state' = "closed" /\ Notified
  /\ UNCHANGED <<others, closed>>

-----------------------------------------------------------------------------
ThreadNext == Offer \/ TrySend \/ Credit \/ ThreadExits
Ends == ThreadAwaited \/ Signal \/ Notify \/ Awaited \/ DropHandle
\* The task's steps that wait for no peer.
Runs ==
  \/ Redial \/ Mark \/ Dial \/ Clean \/ Replay \/ Check \/ Up \/ Top \/ LiveStops
  \/ StartWrite \/ WriteStops \/ Pause

Next ==
  \/ ThreadNext \/ Runs \/ Answered \/ GivenUp \/ Hangup \/ TakeMessage \/ Write
  \/ Stop \/ Ends

\* The thread runs, the timers fire, and the task sees the flag where it polls
\* it.  The peer need not answer, nor ever read what is written to it, though
\* a fresh connection has room for the headers.
Spec ==
  /\ Init /\ [][Next]_vars
  /\ WF_vars(TrySend) /\ WF_vars(Credit) /\ WF_vars(ThreadExits)
  /\ WF_vars(Ends) /\ WF_vars(Runs) /\ WF_vars(closed /\ GivenUp)

-----------------------------------------------------------------------------
(* What the transport promises.                                            *)

\* A peer gets a track's header before its first unit on every connection,
\* whenever the connection came up, unless the header itself was shed
\* (rtmp.rs, SeqCache).
HeaderFirst ==
  \A i \in DOMAIN wire :
    wire[i].header \/ wire[i].track \in shed
      \/ \E j \in 1..i - 1 : wire[j] = [wire[i] EXCEPT !.header = TRUE]

\* However a stop that waits finds the task, it ends once the thread has let go
\* of it, even if the notification went past it and the peer reads nothing
\* (rtmp.rs PublisherHandle::drop).
TransportEnds == session.at = "wait" ~> (task.at = "ended" \/ thread.at # "gone")

\* When no offer is under way and nothing is being written, what is counted as
\* buffered is what is queued (rtmp.rs, buffer accounting: EXACT).
BufferedIsExact ==
  thread.at # "credit" /\ task.at \notin {"took", "writing", "ended"} =>
    buffered = Len(channel)
=============================================================================
