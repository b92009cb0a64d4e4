--------------------------- MODULE TabletDecoder ----------------------------
(***************************************************************************)
(* The decoder of the tablet over consecutive sessions (VideoStream.kt):   *)
(* the read loop that feeds it, its callbacks on the main thread, the      *)
(* threads that write acknowledgements, and the two queues that these      *)
(* share and that outlive every session.                                   *)
(***************************************************************************)
EXTENDS Naturals, Sequences, FiniteSets, SequencesExt

CONSTANTS
  MaxSessions,    \* bound on the sessions, one after another
  MaxFrames,      \* bound on the video frames of a session
  Inputs,         \* indices of a decoder's input buffers, the same in each
  QuickCallback   \* a callback returns before the session after its own begins

ASSUME DecoderAssumption ==
  /\ MaxSessions \in Nat \ {0} /\ MaxFrames \in Nat
  /\ IsFiniteSet(Inputs) /\ QuickCallback \in BOOLEAN

Sessions == 1..MaxSessions

Frames == Sessions \X (1..MaxFrames)

VARIABLES
  (* the accept loop's thread *)
  pc, session,
  count,        \* video frames read in this session
  up,           \* the socket of this session
  (* the queues that all sessions share *)
  freeInputs, pendingAcks,
  (* the decoder of this session *)
  unannounced,  \* input buffers it is yet to offer
  queued,       \* frames it is fed with, each in its input buffer
  ready,        \* frames in its output buffers
  (* the main thread *)
  inputCall,    \* what the callback it is in will offer to freeInputs, ...
  ackCall,      \* ... and to pendingAcks; both are empty outside callbacks
  surface,      \* a valid one is attached
  (* the ack writers *)
  writer, interrupted,
  took,         \* the acknowledgement it has in hand
  (* history *)
  rendered, acked

thread == <<pc, session, count, up>>
decoder == <<unannounced, queued, ready>>
main == <<inputCall, ackCall, surface>>
writers == <<writer, interrupted, took>>
vars == <<thread, freeInputs, pendingAcks, decoder, main, writers, rendered, acked>>

GoTo(from, to) == pc = from /\ pc' = to

InCallback == inputCall # <<>> \/ ackCall # <<>>

-----------------------------------------------------------------------------
(* session.                                                                *)

Accept ==
  /\ GoTo("accept", "clear")
  /\ session < MaxSessions
  /\ session' = session + 1 /\ count' = 0 /\ up' = TRUE
  /\ UNCHANGED <<freeInputs, pendingAcks, decoder, main, writers, rendered, acked>>

\* Mutants of Clear: one of the queues keeps what the last session left.
ClearAcks ==
  /\ GoTo("clear", "start")
  /\ QuickCallback => ~InCallback
  /\ pendingAcks' = <<>>
  /\ UNCHANGED <<session, count, up, freeInputs, decoder, main, writers, rendered, acked>>

ClearInputs ==
  /\ GoTo("clear", "start")
  /\ QuickCallback => ~InCallback
  /\ freeInputs' = <<>>
  /\ UNCHANGED <<session, count, up, pendingAcks, decoder, main, writers, rendered, acked>>

\* The header is read and there is a surface.
Clear ==
  /\ GoTo("clear", "start")
  /\ QuickCallback => ~InCallback
  /\ freeInputs' = <<>> /\ pendingAcks' = <<>>
  /\ UNCHANGED <<session, count, up, decoder, main, writers, rendered, acked>>

\* configureCodec: from its start on the decoder calls back.
StartCodec ==
  /\ GoTo("start", "writer")
  /\ unannounced' = Inputs
  /\ UNCHANGED <<session, count, up, freeInputs, pendingAcks, queued, ready, main,
                 writers, rendered, acked>>

\* Or it fails, before there is anything to undo.
StartFails ==
  /\ GoTo("start", "close")
  /\ UNCHANGED <<session, count, up, freeInputs, pendingAcks, decoder, main, writers,
                 rendered, acked>>

StartAckWriter ==
  /\ GoTo("writer", "read")
  /\ writer' = [writer EXCEPT ![session] = "check"]
  /\ UNCHANGED <<session, count, up, freeInputs, pendingAcks, decoder, main,
                 interrupted, took, rendered, acked>>

ReadFrame ==
  /\ GoTo("read", "feed")
  /\ up /\ count < MaxFrames
  /\ count' = count + 1
  /\ UNCHANGED <<session, up, freeInputs, pendingAcks, decoder, main, writers,
                 rendered, acked>>

\* The frame goes into the input buffer that has been free for longest.
Feed ==
  /\ GoTo("feed", "read")
  /\ freeInputs # <<>>
  /\ queued' = Append(queued, [frame |-> <<session, count>>, index |-> Head(freeInputs)])
  /\ freeInputs' = Tail(freeInputs)
  /\ UNCHANGED <<session, count, up, pendingAcks, unannounced, ready, main, writers,
                 rendered, acked>>

\* None is free for INPUT_TIMEOUT_MS: the frame is dropped.
Starved ==
  /\ GoTo("feed", "read")
  /\ freeInputs = <<>>
  /\ UNCHANGED <<session, count, up, freeInputs, pendingAcks, decoder, main, writers,
                 rendered, acked>>

\* finally: the decoder is stopped and released, and calls back no more.
Release ==
  /\ GoTo("read", "interrupt")
  /\ ~up
  /\ unannounced' = {} /\ queued' = <<>> /\ ready' = <<>>
  /\ UNCHANGED <<session, count, up, freeInputs, pendingAcks, main, writers, rendered, acked>>

\* Mutant of Interrupt: the writer is left to find out for itself.
InterruptNot ==
  /\ GoTo("interrupt", "close")
  /\ UNCHANGED <<session, count, up, freeInputs, pendingAcks, decoder, main, writers,
                 rendered, acked>>

Interrupt ==
  /\ GoTo("interrupt", "close")
  /\ interrupted' = [interrupted EXCEPT ![session] = TRUE]
  /\ UNCHANGED <<session, count, up, freeInputs, pendingAcks, decoder, main, writer,
                 took, rendered, acked>>

\* The accept loop closes the socket.
Close ==
  /\ GoTo("close", "accept")
  /\ up' = FALSE
  /\ UNCHANGED <<session, count, freeInputs, pendingAcks, decoder, main, writers,
                 rendered, acked>>

\* The host leaves.
Disconnect ==
  /\ up /\ pc # "accept"
  /\ up' = FALSE
  /\ UNCHANGED <<pc, session, count, freeInputs, pendingAcks, decoder, main, writers,
                 rendered, acked>>

-----------------------------------------------------------------------------
(* The decoder and its callbacks.                                          *)

Decode ==
  /\ queued # <<>>
  /\ ready' = Append(ready, Head(queued).frame)
  /\ unannounced' = unannounced \cup {Head(queued).index}
  /\ queued' = Tail(queued)
  /\ UNCHANGED <<thread, freeInputs, pendingAcks, main, writers, rendered, acked>>

\* onInputBufferAvailable is entered ...
InputBuffer(i) ==
  /\ ~InCallback /\ i \in unannounced
  /\ inputCall' = <<i>>
  /\ unannounced' = unannounced \ {i}
  /\ UNCHANGED <<thread, freeInputs, pendingAcks, queued, ready, ackCall, surface,
                 writers, rendered, acked>>

\* ... and onOutputBufferAvailable, which renders if there is a surface, and has
\* nothing more to do if not.
OutputBuffer ==
  /\ ~InCallback /\ ready # <<>>
  /\ ready' = Tail(ready)
  /\ IF surface
     THEN /\ ackCall' = <<Head(ready)>>
          /\ rendered' = [rendered EXCEPT ![session] = Append(@, Head(ready))]
     ELSE UNCHANGED <<ackCall, rendered>>
  /\ UNCHANGED <<thread, freeInputs, pendingAcks, unannounced, queued, inputCall, surface,
                 writers, acked>>

\* The callback offers what it has to its queue, whoever reads that by now.
Return ==
  /\ InCallback
  /\ freeInputs' = freeInputs \o inputCall /\ inputCall' = <<>>
  /\ pendingAcks' = pendingAcks \o ackCall /\ ackCall' = <<>>
  /\ UNCHANGED <<thread, decoder, surface, writers, rendered, acked>>

SetSurface ==
  /\ surface' = ~surface
  /\ UNCHANGED <<thread, freeInputs, pendingAcks, decoder, inputCall, ackCall, writers,
                 rendered, acked>>

-----------------------------------------------------------------------------
(* The ack writer of session w.                                            *)

Goes(w, from, to) == writer[w] = from /\ writer' = [writer EXCEPT ![w] = to]

Check(w) ==
  /\ Goes(w, "check", IF interrupted[w] THEN "ended" ELSE "poll")
  /\ UNCHANGED <<thread, freeInputs, pendingAcks, decoder, main, interrupted, took,
                 rendered, acked>>

Poll(w) ==
  /\ ~interrupted[w] /\ pendingAcks # <<>>
  /\ Goes(w, "poll", "write")
  /\ took' = [took EXCEPT ![w] = <<Head(pendingAcks)>>]
  /\ pendingAcks' = Tail(pendingAcks)
  /\ UNCHANGED <<thread, freeInputs, decoder, main, interrupted, rendered, acked>>

\* 500 ms without one, or the interrupt, which poll throws.
PollNone(w) ==
  /\ interrupted[w] \/ pendingAcks = <<>>
  /\ Goes(w, "poll", IF interrupted[w] THEN "ended" ELSE "check")
  /\ UNCHANGED <<thread, freeInputs, pendingAcks, decoder, main, interrupted, took,
                 rendered, acked>>

\* The write fails once the socket is closed, at either end.
Write(w) ==
  /\ \/ /\ w = session /\ up
        /\ Goes(w, "write", "check")
        /\ acked' = [acked EXCEPT ![w] = @ \o took[w]]
     \/ /\ w # session \/ ~up
        /\ Goes(w, "write", "ended")
        /\ UNCHANGED acked
  /\ took' = [took EXCEPT ![w] = <<>>]
  /\ UNCHANGED <<thread, freeInputs, pendingAcks, decoder, main, interrupted, rendered>>

-----------------------------------------------------------------------------
Init ==
  /\ pc = "accept" /\ session = 0 /\ count = 0 /\ up = FALSE
  /\ freeInputs = <<>> /\ pendingAcks = <<>>
  /\ unannounced = {} /\ queued = <<>> /\ ready = <<>>
  /\ inputCall = <<>> /\ ackCall = <<>> /\ surface = TRUE
  /\ writer = [w \in Sessions |-> "none"]
  /\ interrupted = [w \in Sessions |-> FALSE] /\ took = [w \in Sessions |-> <<>>]
  /\ rendered = [w \in Sessions |-> <<>>] /\ acked = [w \in Sessions |-> <<>>]

SessionStep ==
  \/ Clear \/ StartCodec \/ StartFails \/ StartAckWriter
  \/ Feed \/ Starved \/ Release \/ Interrupt \/ Close

WriterStep(w) == Check(w) \/ Poll(w) \/ PollNone(w) \/ Write(w)

MainStep == OutputBuffer \/ Return \/ \E i \in Inputs : InputBuffer(i)

\* Between two sessions there may be nothing left to do.
Rest == pc = "accept" /\ UNCHANGED vars

Next ==
  \/ Accept \/ SessionStep \/ ReadFrame \/ Disconnect \/ Decode \/ MainStep \/ SetSurface
  \/ \E w \in Sessions : WriterStep(w)
  \/ Rest

\* The three kinds of thread run, and so does the decoder.
Fairness ==
  /\ WF_vars(SessionStep) /\ WF_vars(MainStep) /\ WF_vars(Decode)
  /\ \A w \in Sessions : WF_vars(WriterStep(w))

Spec == Init /\ [][Next]_vars /\ Fairness

-----------------------------------------------------------------------------
\* What is acknowledged on a session's socket is what that session rendered, in
\* the order it did and each frame once: the host pairs them with its sends by
\* position only (crates/daemon/src/session.rs:505-508).  Nothing of the session
\* before comes through the queue that both use (VideoStream.kt:209-210).
AcksOwn == \A w \in Sessions : IsPrefix(acked[w], rendered[w])

\* The places in which an input buffer of the running decoder is.
Places(i) ==
  Cardinality({<<"free", k>> : k \in {k \in DOMAIN freeInputs : freeInputs[k] = i}}
              \cup {<<"queued", k>> : k \in {k \in DOMAIN queued : queued[k].index = i}}
              \cup {<<"callback", k>> : k \in {k \in DOMAIN inputCall : inputCall[k] = i}}
              \cup {<<"decoder">> : u \in unannounced \cap {i}})

\* While a session runs each input buffer of its decoder is in one place: none is
\* lost, so the decoder is never starved for good, and none is handed out twice or
\* comes from a decoder that was released (VideoStream.kt:237-248).
BuffersKept == pc \in {"writer", "read", "feed"} => \A i \in Inputs : Places(i) = 1

\* Whatever a session renders it acknowledges, unless it ends first: no writer of a
\* session before takes the acknowledgement away (VideoStream.kt:257-258, 315-331).
RenderedAcked ==
  \A w \in Sessions, k \in 1..MaxFrames :
    Contains(rendered[w], <<w, k>>) ~> (Contains(acked[w], <<w, k>>) \/ session # w \/ ~up)
=============================================================================
