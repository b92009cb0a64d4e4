--------------------------- MODULE StreamSession ---------------------------
(***************************************************************************)
(* One streaming session, from the first pass of the pacing loop of        *)
(* crates/daemon/src/session.rs to the return of run: the capture and send *)
(* loop, the drain, audio and ack threads beside it, the encoder pipeline, *)
(* the socket to the tablet and the two threads of VideoStream.kt that     *)
(* decode, render and acknowledge.                                         *)
(***************************************************************************)
EXTENDS Naturals, Sequences

CONSTANTS
  Setups,        \* the kinds of session a run looks at
  MaxFrames,     \* bound on the frames captured, when they are numbered
  SinkCap,       \* access units the appsink holds (max-buffers)
  LinkCap,       \* frames the socket holds before a write blocks
  DecoderCap,    \* input buffers of the tablet's decoder
  MaxAcks,       \* bound on the acknowledgements waiting at each end
  NoFrame

ASSUME SessionAssumption ==
  /\ MaxFrames \in Nat
  /\ Setups \subseteq [numbered : BOOLEAN, maxLost : Nat, maxAudio : Nat,
                       constantRate : BOOLEAN, mayFail : BOOLEAN]
  /\ SinkCap \in Nat \ {0} /\ LinkCap \in Nat \ {0} /\ DecoderCap \in Nat \ {0}
  /\ MaxAcks \in Nat \ {0}
  /\ NoFrame \notin Nat

VARIABLES
  setup,        \* the kind of this session
  (* the pacing loop *)
  pc, index, running, shutdown, result,
  alive,        \* the threads that have not returned
  (* the encoder pipeline *)
  raw,          \* appsrc's queue
  encoding,     \* the frame on the pipeline's streaming thread
  coded,        \* appsink's queue
  failed,       \* the bus carries an error
  (* between the threads *)
  channel,      \* encoded video, drain thread to pacing loop
  audio,        \* how many audio packets wait for the pacing loop
  sent_at,      \* the video frames whose send times await an ack
  (* the socket *)
  link,
  wire,         \* the streams of the frames in it
  video,        \* what its frames of video are
  ackWire,
  buf,          \* what the ack thread has of the next ack
  (* the tablet *)
  decoder, pendingAcks, shown

loop == <<pc, index, running, shutdown, result>>
pipeline == <<raw, encoding, coded, failed>>
socket == <<link, wire, video, ackWire>>
tablet == <<decoder, pendingAcks, shown>>
vars == <<loop, alive, pipeline, channel, audio, sent_at, socket, buf, tablet>>

Threads == {"drain", "audio", "ack"}

\* Frames bear their index, and only so many are captured; if not they are all alike.
Numbered == setup.numbered

\* Bound on the frames sent that the tablet has not rendered.
MaxLost == setup.maxLost

\* Bound on the audio packets waiting to be sent.
MaxAudio == setup.maxAudio

\* evdi, whose capture is timed; if not it is Wayland's.
ConstantRate == setup.constantRate

\* The video and audio pipelines may report errors.
MayFail == setup.mayFail

-----------------------------------------------------------------------------
(* The pacing loop.                                                        *)

\* Mutant of EndLoop: running is never cleared.
EndLoopRunning(outcome) ==
  /\ pc' = "join"
  /\ result' = outcome
  /\ UNCHANGED <<index, running, shutdown>>

\* The loop is left, with or without an error; running is cleared at once.
EndLoop(outcome) ==
  /\ pc' = "join"
  /\ running' = FALSE
  /\ result' = outcome
  /\ UNCHANGED <<index, shutdown>>

GoTo(next) == pc' = next /\ UNCHANGED <<index, running, shutdown, result>>

\* The loop condition; also the end of the sleep that paces the tick.
CheckShutdown ==
  /\ pc = "check"
  /\ IF shutdown THEN EndLoop("ok") ELSE GoTo("capture")
  /\ UNCHANGED <<alive, pipeline, channel, audio, sent_at, socket, buf, tablet>>

\* push_buffer on an appsrc of one buffer that leaks downstream: a frame already
\* waiting there is dropped for the new one.
Push(f) == raw' = <<f>>

\* capture_and_push: on Wayland it returns only with a new frame.
Capture ==
  /\ pc = "capture"
  /\ Numbered => index < MaxFrames
  /\ Push(index)
  /\ index' = IF Numbered THEN index + 1 ELSE index
  /\ pc' = "audio"
  /\ UNCHANGED <<running, shutdown, result, alive, encoding, coded, failed, channel,
                 audio, sent_at, socket, buf, tablet>>

CaptureFails ==
  /\ pc = "capture"
  /\ EndLoop("capture")
  /\ UNCHANGED <<alive, pipeline, channel, audio, sent_at, socket, buf, tablet>>

\* A write to the socket succeeds: into the connection while it is up, and
\* into nothing once after the peer has closed it.
Written(stream, frames) ==
  \/ /\ link = "up" /\ Len(wire) < LinkCap
     /\ wire' = Append(wire, stream)
     /\ video' = video \o frames
     /\ UNCHANGED <<link, ackWire>>
  \/ /\ link = "closed"
     /\ link' = "reset"
     /\ UNCHANGED <<wire, video, ackWire>>

\* Mutant of WriteFails: a write that fails by an error is tried again.
WriteFailsTimedOut == link = "up" /\ Len(wire) = LinkCap

\* A write fails: the connection is reset, or the write timeout passes.
WriteFails == link = "reset" \/ (link = "up" /\ Len(wire) = LinkCap)

SendAudio ==
  /\ pc = "audio" /\ audio > 0
  /\ audio' = audio - 1
  /\ \/ Written("audio", <<>>) /\ UNCHANGED loop
     \/ WriteFails /\ EndLoop("write") /\ UNCHANGED socket
  /\ UNCHANGED <<alive, pipeline, channel, sent_at, buf, tablet>>

AudioSent ==
  /\ pc = "audio" /\ audio = 0
  /\ GoTo("video")
  /\ UNCHANGED <<alive, pipeline, channel, audio, sent_at, socket, buf, tablet>>

\* Mutant of TakePacket: the newest send time is matched first.
TakePacketFront ==
  /\ pc = "video" /\ channel # <<>>
  /\ sent_at' = <<Head(channel)>> \o sent_at
  /\ GoTo("send")
  /\ UNCHANGED <<alive, pipeline, channel, audio, socket, buf, tablet>>

\* The next packet's send time is recorded before it is written.  It leaves
\* the channel with the write: only this thread looks at it in between.
TakePacket ==
  /\ pc = "video" /\ channel # <<>>
  /\ sent_at' = Append(sent_at, Head(channel))
  /\ GoTo("send")
  /\ UNCHANGED <<alive, pipeline, channel, audio, socket, buf, tablet>>

\* Mutant of SendVideo: a written packet stays in the channel.
SendVideoTwice ==
  /\ pc = "send"
  /\ \/ Written("video", <<Head(channel)>>) /\ GoTo("video")
     \/ WriteFails /\ EndLoop("write") /\ UNCHANGED socket
  /\ UNCHANGED <<alive, pipeline, channel, audio, sent_at, buf, tablet>>

SendVideo ==
  /\ pc = "send"
  /\ channel' = Tail(channel)
  /\ \/ Written("video", <<Head(channel)>>) /\ GoTo("video")
     \/ WriteFails /\ EndLoop("write") /\ UNCHANGED socket
  /\ UNCHANGED <<alive, pipeline, audio, sent_at, buf, tablet>>

\* Mutant of VideoSent: at most one packet is sent in a tick.
VideoSentOne ==
  /\ pc = "video"
  /\ GoTo("check")
  /\ UNCHANGED <<alive, pipeline, channel, audio, sent_at, socket, buf, tablet>>

VideoSent ==
  /\ pc = "video" /\ channel = <<>>
  /\ GoTo("check")
  /\ UNCHANGED <<alive, pipeline, channel, audio, sent_at, socket, buf, tablet>>

\* All three threads are joined and run returns.
Joined ==
  /\ pc = "join" /\ alive = {}
  /\ GoTo("done")
  /\ UNCHANGED <<alive, pipeline, channel, audio, sent_at, socket, buf, tablet>>

\* A signal handler or the --seconds timer.
Shutdown ==
  /\ ~shutdown
  /\ shutdown' = TRUE
  /\ UNCHANGED <<pc, index, running, result, alive, pipeline, channel, audio, sent_at,
                 socket, buf, tablet>>

-----------------------------------------------------------------------------
(* The encoder pipeline.                                                   *)

Encode ==
  /\ ~failed /\ raw # <<>> /\ encoding = <<>>
  /\ encoding' = raw
  /\ raw' = <<>>
  /\ UNCHANGED <<loop, alive, coded, failed, channel, audio, sent_at, socket, buf, tablet>>

\* The appsink does not drop: a full one blocks the pipeline.
Emit ==
  /\ ~failed /\ encoding # <<>> /\ Len(coded) < SinkCap
  /\ coded' = coded \o encoding
  /\ encoding' = <<>>
  /\ UNCHANGED <<loop, alive, raw, failed, channel, audio, sent_at, socket, buf, tablet>>

PipelineFails ==
  /\ MayFail /\ ~failed /\ pc # "done"
  /\ failed' = TRUE
  /\ encoding' = <<>>
  /\ UNCHANGED <<loop, alive, raw, coded, channel, audio, sent_at, socket, buf, tablet>>

-----------------------------------------------------------------------------
(* The threads beside the loop.                                            *)

Exit(thread) == thread \in alive /\ alive' = alive \ {thread}

\* pull_packet has a sample.
Drain ==
  /\ "drain" \in alive /\ running
  /\ coded # <<>>
  /\ channel' = Append(channel, Head(coded))
  /\ coded' = Tail(coded)
  /\ UNCHANGED <<loop, alive, raw, encoding, failed, audio, sent_at, socket, buf, tablet>>

\* pull_packet has none and finds the error on the bus, or the loop is over.
DrainExit ==
  /\ Exit("drain")
  /\ ~running \/ (coded = <<>> /\ failed)
  /\ UNCHANGED <<loop, pipeline, channel, audio, sent_at, socket, buf, tablet>>

AudioPacket ==
  /\ "audio" \in alive /\ running
  /\ audio < MaxAudio
  /\ audio' = audio + 1
  /\ UNCHANGED <<loop, alive, pipeline, channel, sent_at, socket, buf, tablet>>

\* The audio thread returns when the loop is over, or on an audio error.
AudioExit ==
  /\ Exit("audio")
  /\ ~running \/ MayFail
  /\ UNCHANGED <<loop, pipeline, channel, audio, sent_at, socket, buf, tablet>>

\* Acknowledgements travel as two halves, so that a read may end inside one.
Halves(pts) == <<[pts |-> pts, half |-> 1], [pts |-> pts, half |-> 2]>>

ACK_LEN == 2

\* What buf holds after a read that leaves it with these bytes.
Kept(bytes) == IF Len(bytes) = ACK_LEN THEN <<>> ELSE bytes

\* The ack thread reads n bytes into buf[filled..]; a full buffer is paired
\* with the oldest send time.
ReadAck(n) ==
  LET bytes == buf \o SubSeq(ackWire, 1, n)
  IN  /\ "ack" \in alive /\ running
      /\ n <= Len(ackWire) /\ n <= ACK_LEN - Len(buf)
      /\ ackWire' = SubSeq(ackWire, n + 1, Len(ackWire))
      /\ buf' = Kept(bytes)
      /\ sent_at' = IF Len(bytes) = ACK_LEN /\ sent_at # <<>> THEN Tail(sent_at)
                                                              ELSE sent_at
      /\ UNCHANGED <<loop, alive, pipeline, channel, audio, link, wire, video, tablet>>

\* The loop is over (noticed within the read timeout), or the tablet closed.
AckExit ==
  /\ Exit("ack")
  /\ ~running \/ (link # "up" /\ ackWire = <<>>)
  /\ UNCHANGED <<loop, pipeline, channel, audio, sent_at, socket, buf, tablet>>

-----------------------------------------------------------------------------
(* The tablet: the demultiplexing read loop, the decoder's callbacks and   *)
(* the ack writer of VideoStream.kt.                                       *)

\* What is acknowledged in full by these bytes.
AcksIn(bytes) == [i \in 1..(Len(bytes) \div ACK_LEN) |-> bytes[ACK_LEN * i].pts]

\* The frames sent whose acknowledgement the host has yet to read in full.
Unacked ==
  AcksIn(buf \o ackWire) \o pendingAcks \o decoder \o video

\* The frames sent that will never be acknowledged, or are not yet on the wire.
Lost == Len(sent_at) - Len(Unacked)

\* A further frame may go without acknowledgement (the bound MaxLost).
MayLose == Lost < MaxLost

ReadAudio ==
  /\ wire # <<>> /\ Head(wire) = "audio"
  /\ wire' = Tail(wire)
  /\ UNCHANGED <<loop, alive, pipeline, channel, audio, sent_at, link, video, ackWire, buf,
                 tablet>>

\* A free input buffer is found within INPUT_TIMEOUT_MS, or the frame dropped.
ReadVideo ==
  /\ wire # <<>> /\ Head(wire) = "video"
  /\ wire' = Tail(wire) /\ video' = Tail(video)
  /\ \/ /\ Len(decoder) < DecoderCap
        /\ decoder' = Append(decoder, Head(video))
     \/ /\ Len(decoder) = DecoderCap /\ MayLose
        /\ UNCHANGED decoder
  /\ UNCHANGED <<loop, alive, pipeline, channel, audio, sent_at, link, ackWire, buf,
                 pendingAcks, shown>>

\* onOutputBufferAvailable: with a surface the frame is rendered and its
\* acknowledgement queued; without one it is released and nothing is said.
OutputBuffer ==
  /\ decoder # <<>>
  /\ decoder' = Tail(decoder)
  /\ \/ /\ Len(pendingAcks) < MaxAcks
        /\ shown' = Head(decoder)
        /\ pendingAcks' = Append(pendingAcks, Head(decoder))
     \/ MayLose /\ UNCHANGED <<shown, pendingAcks>>
  /\ UNCHANGED <<loop, alive, pipeline, channel, audio, sent_at, socket, buf>>

WriteAck ==
  /\ link = "up" /\ pendingAcks # <<>>
  /\ Len(ackWire) + ACK_LEN <= ACK_LEN * MaxAcks
  /\ ackWire' = ackWire \o Halves(Head(pendingAcks))
  /\ pendingAcks' = Tail(pendingAcks)
  /\ UNCHANGED <<loop, alive, pipeline, channel, audio, sent_at, link, wire, video, buf,
                 decoder, shown>>

\* The cable is pulled, or the app leaves its session: the read loop's finally
\* drops the decoder, and what was under way to the tablet is lost.
Disconnect ==
  /\ link = "up" /\ pc # "done"
  /\ link' = "closed"
  /\ wire' = <<>> /\ video' = <<>>
  /\ ackWire' \in {ackWire, <<>>}
  /\ decoder' = <<>> /\ pendingAcks' = <<>>
  /\ UNCHANGED <<loop, alive, pipeline, channel, audio, sent_at, buf, shown>>

-----------------------------------------------------------------------------
Init ==
  /\ setup \in Setups
  /\ pc = "check" /\ index = 0 /\ running = TRUE /\ shutdown = FALSE /\ result = ""
  /\ alive = Threads
  /\ raw = <<>> /\ encoding = <<>> /\ coded = <<>> /\ failed = FALSE
  /\ channel = <<>> /\ audio = 0 /\ sent_at = <<>>
  /\ link = "up" /\ wire = <<>> /\ video = <<>> /\ ackWire = <<>> /\ buf = <<>>
  /\ decoder = <<>> /\ pendingAcks = <<>> /\ shown = NoFrame

\* The loop's steps that wait for nothing but a timeout.
LoopStep ==
  \/ CheckShutdown \/ SendAudio \/ AudioSent \/ TakePacket \/ SendVideo \/ VideoSent
  \/ Joined

AckStep == (\E n \in 1..ACK_LEN : ReadAck(n)) \/ AckExit

TabletStep == ReadAudio \/ ReadVideo \/ OutputBuffer \/ WriteAck

\* run has returned.
Returned == pc = "done" /\ UNCHANGED vars

Next ==
  \/ LoopStep \/ Capture \/ CaptureFails \/ Shutdown
  \/ Encode \/ Emit \/ PipelineFails
  \/ Drain \/ DrainExit \/ AudioPacket \/ AudioExit \/ AckStep
  \/ TabletStep \/ Disconnect
  \/ Returned

\* Every thread is scheduled and a healthy pipeline encodes.  Only evdi's
\* capture is sure to return.  Audio packets come 20 ms apart, so the loop
\* over them, which runs dry again and again, is not kept going for ever.
Fairness ==
  /\ WF_vars(LoopStep) /\ SF_vars(AudioSent)
  /\ WF_vars(ConstantRate /\ Capture)
  /\ WF_vars(Encode) /\ WF_vars(Emit)
  /\ WF_vars(Drain) /\ WF_vars(DrainExit) /\ WF_vars(AckStep)
  /\ WF_vars(~running /\ AudioExit)

Spec == Init /\ [][Next /\ UNCHANGED setup]_<<setup, vars>> /\ Fairness

-----------------------------------------------------------------------------
(* Properties.                                                             *)

Index == 0..MaxFrames

\* However slow the encoder, the drain thread or the socket, the frames waiting
\* on the host are bounded although the channel is not: one capture a tick and
\* a loop that empties the channel keep them from piling up, so that what is
\* sent is never older than these (encoder/src/lib.rs:280).
BacklogBounded ==
  Len(raw) + Len(encoding) + Len(coded) + Len(channel) <= SinkCap + 3

\* The ack that a read of n bytes completes.
AckOf(n) == (buf \o SubSeq(ackWire, 1, n))[ACK_LEN].pts

CompletesAck(n) == ReadAck(n) /\ n + Len(buf) = ACK_LEN

\* As long as the tablet has rendered and acknowledged whatever it was sent, every
\* ack is paired with the send time of the frame it acknowledges, though the host
\* compares nothing but positions (session.rs:504-507) and wherever a read cuts it.
\* Whatever the tablet drops, the send time is that of its own frame or of an
\* earlier one: a round trip is never reported shorter than it was
\* (protocol/src/lib.rs:205-216).
AcksPaired ==
  [][\A n \in 1..ACK_LEN : CompletesAck(n) =>
       /\ sent_at # <<>>
       /\ Head(sent_at) <= AckOf(n)
       /\ Lost <= (IF pc = "send" THEN 1 ELSE 0) => Head(sent_at) = AckOf(n)]_vars

\* The session implements the video channel it promises.
Channel == INSTANCE VideoChannel WITH
  Frame <- Index,
  flight <- decoder \o video \o channel \o coded \o encoding \o raw

\* Frames reach the screen in the order captured and none twice, through the
\* leaky queue, four threads, the socket and the decoder.
ShownInOrder == Channel!Spec

\* A shutdown ends the session (session.rs:193).  What ends is said of sessions
\* whose frames have no bound.
StopHonoured == (shutdown /\ ~Numbered) ~> (pc = "done")

\* A vanished device or a closed app ends the session, although only a write
\* finds out (session.rs:193).
DisconnectEnds == (link # "up" /\ ~Numbered) ~> (pc = "done")
=============================================================================
