----------------------------- MODULE AudioPath -----------------------------
(***************************************************************************)
(* The sound of one session on the host: the capture pipeline of           *)
(* crates/audio/src/lib.rs and its appsink, the thread that drains it and  *)
(* the pacing loop of crates/daemon/src/session.rs that sends the packets. *)
(***************************************************************************)
EXTENDS Naturals, Sequences

CONSTANTS
  SinkCap,       \* packets the appsink holds (max-buffers)
  MaxChannel,    \* bound on the packets between the threads as one is made
  Cycle,         \* packets bear their number modulo this
  ConstantRate,  \* evdi, whose capture is timed; FALSE is Wayland's
  NoPacket

ASSUME AudioAssumption ==
  /\ SinkCap \in Nat \ {0} /\ MaxChannel \in Nat
  /\ Cycle \in Nat /\ Cycle > MaxChannel + 2 * SinkCap + 1
  /\ ConstantRate \in BOOLEAN
  /\ NoPacket \notin Nat

VARIABLES
  pc, running, shutdown,  \* the thread that runs the session
  drain,    \* the audio drain thread; "none" is a session without sound and
            \* "wait" a pipeline that plays and whose thread is to be started
  failed,   \* the pipeline's bus carries an error
  next,     \* the packet encoded next
  sink,     \* appsink's queue
  channel,  \* drain thread to pacing loop
  sent      \* the packet last written to the socket

session == <<pc, running, shutdown>>
vars == <<session, drain, failed, next, sink, channel, sent>>

Packet == 0..(Cycle - 1)

-----------------------------------------------------------------------------
(* The pipeline, on the threads of PipeWire and GStreamer.                 *)

\* Mutant of Queue: a full queue drops the packet that arrives in front.
QueueFront(p) == sink' = IF Len(sink) < SinkCap THEN Append(sink, p) ELSE <<p>> \o Tail(sink)

\* drop = true: a full queue gives up its oldest packet for the new one.
Queue(p) == sink' = Append(IF Len(sink) < SinkCap THEN sink ELSE Tail(sink), p)

\* The pipeline lives as long as the drain thread does, which owns it.
Produce ==
  /\ drain \in {"wait", "check", "pull"} /\ ~failed
  /\ Len(channel) < MaxChannel
  /\ Queue(next)
  /\ next' = (next + 1) % Cycle
  /\ UNCHANGED <<session, drain, failed, channel, sent>>

PipelineFails ==
  /\ drain \in {"wait", "check", "pull"} /\ ~failed
  /\ failed' = TRUE
  /\ UNCHANGED <<session, drain, next, sink, channel, sent>>

-----------------------------------------------------------------------------
(* The drain thread.                                                       *)

DrainCheck ==
  /\ drain = "check"
  /\ drain' = IF running THEN "pull" ELSE "ended"
  /\ UNCHANGED <<session, failed, next, sink, channel, sent>>

Pull ==
  /\ drain = "pull" /\ sink # <<>>
  /\ channel' = Append(channel, Head(sink))
  /\ sink' = Tail(sink)
  /\ drain' = "check"
  /\ UNCHANGED <<session, failed, next, sent>>

\* No packet in 100 ms: the bus is looked at, and an error ends the thread.
PullTimesOut ==
  /\ drain = "pull" /\ sink = <<>>
  /\ drain' = IF failed THEN "ended" ELSE "check"
  /\ UNCHANGED <<session, failed, next, sink, channel, sent>>

-----------------------------------------------------------------------------
(* The thread of the session.                                              *)

\* Sound that is turned off, not to be had, or that fails to start costs the
\* session nothing else.
StartAudio ==
  /\ pc = "start"
  /\ drain' \in {"none", "wait"}
  /\ pc' = "connect"
  /\ UNCHANGED <<running, shutdown, failed, next, sink, channel, sent>>

\* The tablet is connected to while the pipeline plays.
Connect ==
  /\ pc = "connect"
  /\ \/ pc' = "check" /\ drain' = IF drain = "wait" THEN "check" ELSE drain
     \/ pc' = "done" /\ drain' = IF drain = "wait" THEN "ended" ELSE drain
  /\ UNCHANGED <<running, shutdown, failed, next, sink, channel, sent>>

EndLoop == pc' = "join" /\ running' = FALSE /\ UNCHANGED shutdown

GoTo(where) == pc' = where /\ UNCHANGED <<running, shutdown>>

Check ==
  /\ pc = "check"
  /\ IF shutdown THEN EndLoop ELSE GoTo("capture")
  /\ UNCHANGED <<drain, failed, next, sink, channel, sent>>

\* A frame is captured.  Wayland's capture returns only when one is painted.
Capture ==
  /\ pc = "capture"
  /\ GoTo("audio") \/ EndLoop
  /\ UNCHANGED <<drain, failed, next, sink, channel, sent>>

SendAudio ==
  /\ pc = "audio" /\ channel # <<>>
  /\ channel' = Tail(channel)
  /\ \/ sent' = Head(channel) /\ UNCHANGED session
     \/ EndLoop /\ UNCHANGED sent
  /\ UNCHANGED <<drain, failed, next, sink>>

\* Mutant of AudioSent: packets may be left for the next tick.
AudioSentLater ==
  /\ pc = "audio"
  /\ GoTo("video")
  /\ UNCHANGED <<drain, failed, next, sink, channel, sent>>

AudioSent ==
  /\ pc = "audio" /\ channel = <<>>
  /\ GoTo("video")
  /\ UNCHANGED <<drain, failed, next, sink, channel, sent>>

\* The video packets are written, and the rest of the tick is slept.
Video ==
  /\ pc = "video"
  /\ GoTo("check") \/ EndLoop
  /\ UNCHANGED <<drain, failed, next, sink, channel, sent>>

Join ==
  /\ pc = "join" /\ drain \in {"none", "ended"}
  /\ GoTo("done")
  /\ UNCHANGED <<drain, failed, next, sink, channel, sent>>

Shutdown ==
  /\ ~shutdown
  /\ shutdown' = TRUE
  /\ UNCHANGED <<pc, running, drain, failed, next, sink, channel, sent>>

Done == pc = "done" /\ UNCHANGED vars

-----------------------------------------------------------------------------
Init ==
  /\ pc = "start" /\ running = TRUE /\ shutdown = FALSE
  /\ drain = "none" /\ failed = FALSE
  /\ next = 0 /\ sink = <<>> /\ channel = <<>> /\ sent = NoPacket

Loop == StartAudio \/ Connect \/ Check \/ SendAudio \/ AudioSent \/ Video \/ Join

Next ==
  \/ Produce \/ PipelineFails
  \/ DrainCheck \/ Pull \/ PullTimesOut
  \/ Loop \/ Capture \/ Shutdown \/ Done

\* Both threads run; a write ends by its timeout if not before, and a capture
\* ends by its own on evdi only.
Fairness ==
  /\ WF_vars(Loop)
  /\ ConstantRate => WF_vars(Capture)
  /\ WF_vars(DrainCheck \/ Pull \/ PullTimesOut)

Spec == Init /\ [][Next]_vars /\ Fairness

-----------------------------------------------------------------------------
\* Sound is sent in the order it was captured, each packet once, whatever is
\* dropped from a full queue or lost with the session (audio/src/lib.rs:168-180).
Channel == INSTANCE VideoChannel
  WITH Frame <- Packet, NoFrame <- NoPacket, flight <- channel \o sink, shown <- sent

AudioInOrder == Channel!Spec

\* On evdi, whatever reaches the pacing loop is sent before the session ends:
\* no packet stays behind those that keep coming (session.rs:501-511).
AudioFlows ==
  \A p \in Packet :
    (\E k \in 1..Len(channel) : channel[k] = p) ~> (sent = p \/ pc \in {"join", "done"})

\* "drop = true bounds how far behind a stalled consumer (e.g. the daemon's pacing
\* thread ...) can fall: once 8 packets (~160ms at 20ms frames) are queued, the
\* oldest is dropped rather than letting the backlog and its latency grow without
\* bound" (audio/src/lib.rs:169-175).
BacklogBounded == Len(sink) + Len(channel) <= SinkCap + 1
=============================================================================
