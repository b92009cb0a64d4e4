------------------------------ MODULE FrameWire ------------------------------
(***************************************************************************)
(* Frames through the socket (crates/transport/src/lib.rs,                 *)
(* crates/protocol/src/lib.rs, Protocol.kt and the read loop of            *)
(* VideoStream.kt): written in as many pieces as the socket takes, read in *)
(* as many as it gives, and told apart by the lengths in their headers     *)
(* alone.  A number here stands for a field of a header or for a piece of  *)
(* a payload.                                                              *)
(***************************************************************************)
EXTENDS Naturals, Sequences, SequencesExt

CONSTANTS
  Lengths,          \* sizes of payloads
  MAX_FRAME_BYTES,  \* the largest the tablet accepts
  Window,           \* what the socket holds before a write blocks
  MaxFrames         \* bound on the frames of a session

ASSUME WireAssumption ==
  /\ Lengths \subseteq Nat /\ MAX_FRAME_BYTES \in Nat
  /\ Window \in Nat \ {0} /\ MaxFrames \in Nat

VARIABLES
  (* the host *)
  pc,        \* at the header, between frames, in a write, failed or gone
  item,      \* what is being sent, ...
  rest,      \* ... and what of it is still to be written
  frames_sent, bytes_sent,
  (* the socket *)
  link,      \* "up", "closed" by the tablet, or "reset"
  wire,
  (* the tablet *)
  reader,    \* at the stream header, a frame's header or its payload, or past
  head,      \* the fields read of a frame's header
  scratch, filled,
  (* history *)
  offered,   \* the frames the host set out to send
  got,       \* the frames the tablet handed to its decoders
  received   \* how much the tablet has read

host == <<pc, item, rest, frames_sent, bytes_sent>>
socket == <<link, wire>>
tablet == <<reader, head, scratch, filled>>
vars == <<host, socket, tablet, offered, got, received>>

STREAM_TYPE_VIDEO == 0
STREAM_TYPE_AUDIO == 1

FRAME_HEADER_LEN == 2

\* Pieces of payload are told apart by frame and place, and from any length.
Payload(k, n) == [j \in 1..n |-> (k + 1) * (MAX_FRAME_BYTES + 10) + j]

encode(frame) == <<Len(frame.payload), frame.stream>> \o frame.payload

-----------------------------------------------------------------------------
(* Sender.                                                                 *)

Begin(bytes) == pc' = "write" /\ item' = bytes /\ rest' = bytes

\* The stream header is the first thing written.
Connect ==
  /\ pc = "connect"
  /\ Begin(<<0>>)
  /\ UNCHANGED <<frames_sent, bytes_sent, socket, tablet, offered, got, received>>

\* send_video_frame and send_audio_frame.
Send(stream, n) ==
  /\ pc = "idle" /\ Len(offered) < MaxFrames
  /\ LET frame == [stream |-> stream, payload |-> Payload(Len(offered), n)]
     IN  Begin(encode(frame)) /\ offered' = Append(offered, frame)
  /\ UNCHANGED <<frames_sent, bytes_sent, socket, tablet, got, received>>

\* Mutant of Advance: a slice written in part is written again from its start.
AdvanceWhole(n) == IF n < Len(rest) THEN rest ELSE <<>>

\* IoSlice::advance_slices.
Advance(n) == SubSeq(rest, n + 1, Len(rest))

\* write_vectored takes what there is room for, or all into nothing once after
\* the tablet has closed.
Write ==
  /\ pc = "write" /\ rest # <<>>
  /\ \/ /\ link = "up"
        /\ \E n \in 1..Len(rest) :
             /\ Len(wire) + n <= Window
             /\ wire' = wire \o SubSeq(rest, 1, n)
             /\ rest' = Advance(n)
        /\ UNCHANGED link
     \/ /\ link = "closed"
        /\ link' = "reset" /\ rest' = <<>>
        /\ UNCHANGED wire
  /\ UNCHANGED <<pc, item, frames_sent, bytes_sent, tablet, offered, got, received>>

\* The write timeout passes, or the connection is reset: the session ends with
\* the frame half written, and the socket is closed.
WriteFails ==
  /\ pc = "write" /\ rest # <<>>
  /\ link = "reset" \/ (link = "up" /\ Len(wire) = Window)
  /\ pc' = "failed"
  /\ UNCHANGED <<item, rest, frames_sent, bytes_sent, socket, tablet, offered, got,
                 received>>

\* Mutant of Written: the stream header is not counted.
WrittenFrames ==
  /\ pc = "write" /\ rest = <<>>
  /\ pc' = "idle"
  /\ frames_sent' = Len(offered)
  /\ bytes_sent' = IF offered = <<>> THEN bytes_sent ELSE bytes_sent + Len(item)
  /\ UNCHANGED <<item, rest, socket, tablet, offered, got, received>>

Written ==
  /\ pc = "write" /\ rest = <<>>
  /\ pc' = "idle"
  /\ frames_sent' = IF offered = <<>> THEN 0 ELSE frames_sent + 1
  /\ bytes_sent' = bytes_sent + Len(item)
  /\ UNCHANGED <<item, rest, socket, tablet, offered, got, received>>

\* The session ends between two frames.
Leave ==
  /\ pc = "idle"
  /\ pc' = "gone"
  /\ UNCHANGED <<item, rest, frames_sent, bytes_sent, socket, tablet, offered, got,
                 received>>

-----------------------------------------------------------------------------
(* The tablet's read loop.                                                 *)

Take(n) ==
  /\ n <= Len(wire)
  /\ wire' = SubSeq(wire, n + 1, Len(wire))
  /\ received' = received + n

ReadStreamHeader ==
  /\ reader = "start"
  /\ Take(1)
  /\ reader' = "header"
  /\ UNCHANGED <<host, link, head, scratch, filled, offered, got>>

\* readFrameHeader, field by field.
ReadField ==
  /\ reader = "header" /\ Len(head) < FRAME_HEADER_LEN
  /\ Take(1)
  /\ head' = Append(head, wire[1])
  /\ UNCHANGED <<host, link, reader, scratch, filled, offered, got>>

length == head[1]

\* The buffer is made anew only for a frame it is too small for.
Fits == Len(scratch) >= length

ReadHeader ==
  /\ reader = "header" /\ Len(head) = FRAME_HEADER_LEN
  /\ length <= MAX_FRAME_BYTES
  /\ reader' = "payload"
  /\ filled' = 0
  /\ scratch' = IF Fits THEN scratch ELSE [j \in 1..length |-> 0]
  /\ UNCHANGED <<host, socket, head, offered, got, received>>

\* readFully: a read may give any part of what is missing.
ReadPayload ==
  /\ reader = "payload"
  /\ \E n \in 1..(length - filled) :
       /\ Take(n)
       /\ scratch' = [j \in DOMAIN scratch |->
                        IF j \in (filled + 1)..(filled + n) THEN wire[j - filled] ELSE scratch[j]]
       /\ filled' = filled + n
  /\ UNCHANGED <<host, link, reader, head, offered, got>>

\* The frame goes to the decoder of its stream; one of no known stream is dropped.
Demux ==
  /\ reader = "payload" /\ filled = length
  /\ got' = IF head[2] \in {STREAM_TYPE_VIDEO, STREAM_TYPE_AUDIO}
            THEN Append(got, [stream |-> head[2], payload |-> SubSeq(scratch, 1, length)])
            ELSE got
  /\ reader' = "header" /\ head' = <<>>
  /\ UNCHANGED <<host, socket, scratch, filled, offered, received>>

\* The tablet's socket is closed, and what was under way is lost.
Close(why) ==
  /\ reader' = why
  /\ link' = "closed" /\ wire' = <<>>
  /\ UNCHANGED <<host, head, scratch, filled, offered, got, received>>

Implausible ==
  /\ reader = "header" /\ Len(head) = FRAME_HEADER_LEN
  /\ length > MAX_FRAME_BYTES
  /\ Close("refused")

\* The stream ends, in the middle of a frame or between two.
EndOfStream ==
  /\ reader \in {"start", "header", "payload"}
  /\ pc \in {"failed", "gone"} /\ wire = <<>>
  /\ reader = "header" => Len(head) < FRAME_HEADER_LEN
  /\ reader = "payload" => filled < length
  /\ Close("ended")

\* The switch is turned off, or the cable pulled.
TabletLeaves ==
  /\ reader \in {"start", "header", "payload"}
  /\ Close("left")

Done == pc \in {"failed", "gone"} /\ reader \in {"refused", "ended", "left"} /\ UNCHANGED vars

-----------------------------------------------------------------------------
Init ==
  /\ pc = "connect" /\ item = <<>> /\ rest = <<>> /\ frames_sent = 0 /\ bytes_sent = 0
  /\ link = "up" /\ wire = <<>>
  /\ reader = "start" /\ head = <<>> /\ scratch = <<>> /\ filled = 0
  /\ offered = <<>> /\ got = <<>> /\ received = 0

Next ==
  \/ Connect \/ Write \/ WriteFails \/ Written \/ Leave
  \/ \E stream \in {STREAM_TYPE_VIDEO, STREAM_TYPE_AUDIO}, n \in Lengths : Send(stream, n)
  \/ ReadStreamHeader \/ ReadField \/ ReadHeader \/ ReadPayload \/ Demux
  \/ Implausible \/ EndOfStream \/ TabletLeaves
  \/ Done

Spec == Init /\ [][Next]_vars

-----------------------------------------------------------------------------
\* However writes and reads cut the stream, and wherever it breaks off, the decoders
\* are given whole frames only, those that were sent, in their order and bytes: a
\* frame half written is never completed by what follows it, and nothing of a longer
\* frame before shows in the buffer they share (transport/src/lib.rs:117-131,
\* VideoStream.kt:217-252).
FramesWhole == IsPrefix(got, offered)

\* "byte-exact" (transport_probe.rs:200): when the host has left between two frames
\* and the tablet read to the end, every frame arrived and every byte was counted,
\* the stream header's too (transport/src/lib.rs:39-44, 87-90).
ByteExact ==
  pc = "gone" /\ reader = "ended" =>
    got = offered /\ received = bytes_sent /\ frames_sent = Len(got)
=============================================================================
