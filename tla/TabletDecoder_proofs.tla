----------------------- MODULE TabletDecoder_proofs ------------------------
(***************************************************************************)
(* Proofs that a session acknowledges nothing but what it rendered, in the *)
(* order it did, though its queue and the main thread outlive it, and that *)
(* no input buffer of its decoder is lost or comes twice.  At the end, of  *)
(* the threads around it (TabletVideo, of which it takes an instance): no  *)
(* field names a decoder that is being released, and a decoder follows the *)
(* surface.                                                                *)
(***************************************************************************)
EXTENDS TabletDecoder, SequenceTheorems, FiniteSetTheorems, TLAPS

-----------------------------------------------------------------------------
(* Sequences.                                                              *)

\* Frames by session and number; the bounds do not matter.
Frame == Nat \X Nat

\* Moving the first element of a queue to who takes it leaves the line as it was.
LEMMA LineTake ==
  ASSUME NEW a \in Seq(Frame), NEW p \in Seq(Frame), NEW c \in Seq(Frame), p # <<>>
  PROVE  ((a \o <<Head(p)>>) \o Tail(p)) \o c = ((a \o <<>>) \o p) \o c
<1>1. Head(p) \in Frame /\ Tail(p) \in Seq(Frame) /\ <<Head(p)>> \o Tail(p) = p
  BY HeadTailProperties
<1>2. (a \o <<Head(p)>>) \o Tail(p) = a \o (<<Head(p)>> \o Tail(p))
  BY <1>1, ConcatAssociative, <<Head(p)>> \in Seq(Frame)
<1>3. a \o <<>> = a
  BY ConcatEmptySeq
<1> QED
  BY <1>1, <1>2, <1>3

\* So does passing on what one has in hand, ...
LEMMA LineWrite ==
  ASSUME NEW S, NEW a \in Seq(S), NEW t \in Seq(S), NEW p \in Seq(S), NEW c \in Seq(S)
  PROVE  (((a \o t) \o <<>>) \o p) \o c = ((a \o t) \o p) \o c
<1>1. a \o t \in Seq(S)
  BY ConcatProperties
<1> QED
  BY <1>1, ConcatEmptySeq

\* ... and what a callback has.
LEMMA LineReturn ==
  ASSUME NEW a \in Seq(Frame), NEW p \in Seq(Frame), NEW c \in Seq(Frame)
  PROVE  (a \o (p \o c)) \o <<>> = (a \o p) \o c
<1>1. p \o c \in Seq(Frame) /\ a \o (p \o c) \in Seq(Frame)
  BY ConcatProperties
<1>2. (a \o (p \o c)) \o <<>> = a \o (p \o c)
  BY <1>1, ConcatEmptySeq
<1> QED
  BY <1>2, ConcatAssociative

\* Concatenation is associative, of frames too.
LEMMA LineJoin ==
  ASSUME NEW a \in Seq(Frame), NEW p \in Seq(Frame), NEW c \in Seq(Frame)
  PROVE  (a \o p) \o c = a \o (p \o c)
BY ConcatAssociative

\* What is appended to the line is appended at its end.
LEMMA LineAppend ==
  ASSUME NEW S, NEW a \in Seq(S), NEW e \in S
  PROVE  a \o <<e>> = Append(a \o <<>>, e)
  BY ConcatEmptySeq, AppendIsConcat

\* A sequence is a prefix of what continues it.
LEMMA PrefixOfConcat ==
  ASSUME NEW S, NEW a \in Seq(S), NEW r \in Seq(S)
  PROVE  IsPrefix(a, a \o r)
<1>1. Len(a) <= Len(a \o r)
  BY ConcatProperties, LenProperties, SMT
<1>2. CASE Len(a) = 0
  <2>1. a = <<>>
    BY <1>2, EmptySeq
  <2>2. SubSeq(a, 1, 0) = <<>> /\ SubSeq(a \o r, 1, 0) = <<>>
    BY SubSeqEmpty
  <2> QED
    BY <1>1, <1>2, <2>2 DEF IsPrefix
<1>3. CASE Len(a) # 0
  <2>1. 1 \in 1..Len(a) /\ Len(a) \in 1..Len(a)
    BY <1>3, LenProperties, SMT
  <2>2. SubSeq(a \o r, 1, Len(a)) = SubSeq(a, 1, Len(a))
    BY <2>1, SubSeqOfConcat1
  <2> QED
    BY <1>1, <2>2 DEF IsPrefix
<1> QED
  BY <1>2, <1>3

-----------------------------------------------------------------------------
(* The invariant.                                                          *)

ThreadType ==
  /\ pc \in {"accept", "clear", "start", "writer", "read", "feed", "interrupt", "close"}
  /\ session \in Nat /\ session <= MaxSessions /\ count \in Nat
  /\ pc # "accept" => session >= 1

QueueType ==
  /\ freeInputs \in Seq(Inputs) /\ inputCall \in Seq(Inputs)
  /\ pendingAcks \in Seq(Frame) /\ ackCall \in Seq(Frame)

CodecType ==
  /\ unannounced \subseteq Inputs
  /\ queued \in Seq([frame : Frame, index : Inputs])
  /\ ready \in Seq(Frame)

WriterType ==
  /\ writer \in [Sessions -> {"none", "check", "poll", "write", "ended"}]
  /\ interrupted \in [Sessions -> BOOLEAN]
  /\ took \in [Sessions -> Seq(Frame)]

HistoryType ==
  /\ rendered \in [Sessions -> Seq(Frame)]
  /\ acked \in [Sessions -> Seq(Frame)]

TypeInv == ThreadType /\ QueueType /\ CodecType /\ WriterType /\ HistoryType

\* A writer has something in hand only between its poll and its write.
HandInv == \A w \in Sessions : writer[w] # "write" => took[w] = <<>>

\* A writer that may poll again.
Polls(w) == writer[w] # "none" /\ ~interrupted[w]

\* Those of the sessions before do not, and those to come have not begun.
OthersInv ==
  /\ \A w \in Sessions : w > session =>
       writer[w] = "none" /\ rendered[w] = <<>> /\ acked[w] = <<>>
  /\ \A w \in Sessions : w < session => ~Polls(w)
  /\ pc = "accept" => \A w \in Sessions : ~Polls(w)

\* Where the session is says what there is of it.
PlaceInv ==
  /\ pc \in {"accept", "clear", "start", "interrupt", "close"} => queued = <<>> /\ ready = <<>>
  /\ pc \in {"accept", "interrupt"} => ~up
  /\ pc \in {"clear", "start", "writer"} => writer[session] = "none"
  /\ pc \in {"clear", "start"} => rendered[session] = <<>> /\ acked[session] = <<>>
  /\ pc = "close" => ~Polls(session)

\* The way of an acknowledgement, from the socket back to the callback.
Line == ((acked[session] \o took[session]) \o pendingAcks) \o ackCall

\* While the session is up all it has rendered is on the way, and nothing else.
LineInv == pc \notin {"accept", "clear"} /\ up => rendered[session] = Line

PrefixInv ==
  \A w \in Sessions : \E rest \in Seq(Frame) : rendered[w] = acked[w] \o rest

DecoderInv == TypeInv /\ HandInv /\ OthersInv /\ PlaceInv /\ LineInv /\ PrefixInv

LEMMA DecoderInit == Init => DecoderInv
<1> SUFFICES ASSUME Init PROVE DecoderInv
  OBVIOUS
<1>1. \A S : <<>> \in Seq(S)
  BY EmptySeq
<1>2. TypeInv
  <2>1. ThreadType
    BY DecoderAssumption DEF Init, ThreadType
  <2>2. QueueType /\ CodecType
    BY <1>1 DEF Init, QueueType, CodecType
  <2>3. WriterType /\ HistoryType
    BY <1>1 DEF Init, WriterType, HistoryType
  <2> QED
    BY <2>1, <2>2, <2>3 DEF TypeInv
<1>3. HandInv /\ OthersInv /\ PlaceInv /\ LineInv
  BY DEF Init, HandInv, OthersInv, PlaceInv, LineInv, Polls
<1>4. PrefixInv
  <2> SUFFICES ASSUME NEW w \in Sessions PROVE rendered[w] = acked[w] \o <<>>
    BY <1>1 DEF PrefixInv
  <2> QED
    BY <1>1, ConcatEmptySeq DEF Init
<1> QED
  BY <1>2, <1>3, <1>4 DEF DecoderInv

LEMMA TypeStep == ASSUME TypeInv, [Next]_vars PROVE TypeInv'
<1>0. ThreadType /\ QueueType /\ CodecType /\ WriterType /\ HistoryType
  BY DEF TypeInv
<1>1. CASE Accept
  <2>1. ThreadType'
    BY <1>0, <1>1, DecoderAssumption DEF Accept, GoTo, ThreadType
  <2>2. QueueType' /\ CodecType' /\ WriterType' /\ HistoryType'
    BY <1>0, <1>1 DEF Accept, decoder, main, writers, QueueType, CodecType, WriterType, HistoryType
  <2> QED
    BY <2>1, <2>2 DEF TypeInv
<1>2. CASE Clear
  <2>1. ThreadType'
    BY <1>0, <1>2 DEF Clear, GoTo, ThreadType
  <2>2. QueueType'
    BY <1>0, <1>2, EmptySeq DEF Clear, main, QueueType
  <2>3. CodecType' /\ WriterType' /\ HistoryType'
    BY <1>0, <1>2 DEF Clear, decoder, writers, CodecType, WriterType, HistoryType
  <2> QED
    BY <2>1, <2>2, <2>3 DEF TypeInv
<1>3. CASE StartCodec
  <2>1. ThreadType'
    BY <1>0, <1>3 DEF StartCodec, GoTo, ThreadType
  <2>2. QueueType' /\ CodecType' /\ WriterType' /\ HistoryType'
    BY <1>0, <1>3 DEF StartCodec, main, writers, QueueType, CodecType, WriterType, HistoryType
  <2> QED
    BY <2>1, <2>2 DEF TypeInv
<1>4. CASE StartFails \/ Starved \/ Close \/ Disconnect \/ ReadFrame
  <2>1. ThreadType'
    BY <1>0, <1>4 DEF StartFails, Starved, Close, Disconnect, ReadFrame, GoTo, ThreadType
  <2>2. UNCHANGED <<freeInputs, pendingAcks, decoder, main, writers, rendered, acked>>
    BY <1>4 DEF StartFails, Starved, Close, Disconnect, ReadFrame
  <2>3. QueueType' /\ CodecType' /\ WriterType' /\ HistoryType'
    BY <1>0, <2>2 DEF decoder, main, writers, QueueType, CodecType, WriterType, HistoryType
  <2> QED
    BY <2>1, <2>3 DEF TypeInv
<1>5. CASE StartAckWriter
  <2>1. ThreadType'
    BY <1>0, <1>5 DEF StartAckWriter, GoTo, ThreadType
  <2>2. WriterType'
    BY <1>0, <1>5 DEF StartAckWriter, WriterType
  <2>3. QueueType' /\ CodecType' /\ HistoryType'
    BY <1>0, <1>5 DEF StartAckWriter, decoder, main, QueueType, CodecType, HistoryType
  <2> QED
    BY <2>1, <2>2, <2>3 DEF TypeInv
<1>6. CASE Feed
  <2>1. Head(freeInputs) \in Inputs /\ Tail(freeInputs) \in Seq(Inputs)
    BY <1>0, <1>6, HeadTailProperties DEF Feed, QueueType
  <2>2. [frame |-> <<session, count>>, index |-> Head(freeInputs)] \in [frame : Frame, index : Inputs]
    BY <1>0, <2>1 DEF Frame, ThreadType
  <2>3. queued' \in Seq([frame : Frame, index : Inputs])
    BY <1>0, <1>6, <2>2, AppendProperties DEF Feed, CodecType
  <2>4. CodecType'
    BY <1>0, <1>6, <2>3 DEF Feed, CodecType
  <2>5. ThreadType'
    BY <1>0, <1>6 DEF Feed, GoTo, ThreadType
  <2>6. QueueType'
    BY <1>0, <1>6, <2>1 DEF Feed, main, QueueType
  <2>7. WriterType' /\ HistoryType'
    BY <1>0, <1>6 DEF Feed, writers, WriterType, HistoryType
  <2> QED
    BY <2>4, <2>5, <2>6, <2>7 DEF TypeInv
<1>7. CASE Release
  <2>1. ThreadType'
    BY <1>0, <1>7 DEF Release, GoTo, ThreadType
  <2>2. CodecType'
    BY <1>7, EmptySeq DEF Release, CodecType
  <2>3. QueueType' /\ WriterType' /\ HistoryType'
    BY <1>0, <1>7 DEF Release, main, writers, QueueType, WriterType, HistoryType
  <2> QED
    BY <2>1, <2>2, <2>3 DEF TypeInv
<1>8. CASE Interrupt
  <2>1. ThreadType'
    BY <1>0, <1>8 DEF Interrupt, GoTo, ThreadType
  <2>2. WriterType'
    BY <1>0, <1>8 DEF Interrupt, WriterType
  <2>3. QueueType' /\ CodecType' /\ HistoryType'
    BY <1>0, <1>8 DEF Interrupt, decoder, main, QueueType, CodecType, HistoryType
  <2> QED
    BY <2>1, <2>2, <2>3 DEF TypeInv
<1>9. CASE Decode
  <2>1. Head(queued) \in [frame : Frame, index : Inputs]
        /\ Tail(queued) \in Seq([frame : Frame, index : Inputs])
    BY <1>0, <1>9, HeadTailProperties DEF Decode, CodecType
  <2>2. Head(queued).frame \in Frame /\ Head(queued).index \in Inputs
    BY <2>1
  <2>3. ready' \in Seq(Frame)
    BY <1>0, <1>9, <2>2, AppendProperties DEF Decode, CodecType
  <2>4. CodecType'
    BY <1>0, <1>9, <2>1, <2>2, <2>3 DEF Decode, CodecType
  <2>5. ThreadType' /\ QueueType' /\ WriterType' /\ HistoryType'
    BY <1>0, <1>9 DEF Decode, thread, main, writers, ThreadType, QueueType, WriterType, HistoryType
  <2> QED
    BY <2>4, <2>5 DEF TypeInv
<1>10. ASSUME NEW i \in Inputs, InputBuffer(i) PROVE TypeInv'
  <2>1. QueueType'
    BY <1>0, <1>10, <<i>> \in Seq(Inputs) DEF InputBuffer, QueueType
  <2>2. CodecType'
    BY <1>0, <1>10 DEF InputBuffer, CodecType
  <2>3. ThreadType' /\ WriterType' /\ HistoryType'
    BY <1>0, <1>10 DEF InputBuffer, thread, writers, ThreadType, WriterType, HistoryType
  <2> QED
    BY <2>1, <2>2, <2>3 DEF TypeInv
<1>11. CASE OutputBuffer
  <2>1. Head(ready) \in Frame /\ Tail(ready) \in Seq(Frame)
    BY <1>0, <1>11, HeadTailProperties DEF OutputBuffer, CodecType
  <2>2. ackCall' \in Seq(Frame)
    BY <1>0, <1>11, <2>1, <<Head(ready)>> \in Seq(Frame) DEF OutputBuffer, QueueType
  <2>3. rendered' \in [Sessions -> Seq(Frame)]
    <3>1. CASE rendered' = rendered
      BY <1>0, <3>1 DEF HistoryType
    <3>2. CASE rendered' = [rendered EXCEPT ![session] = Append(@, Head(ready))]
      <4>1. session \in Sessions => Append(rendered[session], Head(ready)) \in Seq(Frame)
        BY <1>0, <2>1, AppendProperties DEF HistoryType
      <4> QED
        BY <1>0, <3>2, <4>1 DEF HistoryType
    <3> QED
      BY <1>11, <3>1, <3>2 DEF OutputBuffer
  <2>4. QueueType'
    BY <1>0, <1>11, <2>2 DEF OutputBuffer, QueueType
  <2>5. CodecType' /\ HistoryType'
    BY <1>0, <1>11, <2>1, <2>3 DEF OutputBuffer, CodecType, HistoryType
  <2>6. ThreadType' /\ WriterType'
    BY <1>0, <1>11 DEF OutputBuffer, thread, writers, ThreadType, WriterType
  <2> QED
    BY <2>4, <2>5, <2>6 DEF TypeInv
<1>12. CASE Return
  <2>1. freeInputs' \in Seq(Inputs) /\ pendingAcks' \in Seq(Frame)
    BY <1>0, <1>12, ConcatProperties DEF Return, QueueType
  <2>2. QueueType'
    BY <1>0, <1>12, <2>1, EmptySeq DEF Return, QueueType
  <2>3. ThreadType' /\ CodecType' /\ WriterType' /\ HistoryType'
    BY <1>0, <1>12 DEF Return, thread, decoder, writers, ThreadType, CodecType, WriterType, HistoryType
  <2> QED
    BY <2>2, <2>3 DEF TypeInv
<1>13. CASE SetSurface
  <2>1. QueueType'
    BY <1>0, <1>13 DEF SetSurface, QueueType
  <2>2. ThreadType' /\ CodecType' /\ WriterType' /\ HistoryType'
    BY <1>0, <1>13 DEF SetSurface, thread, decoder, writers, ThreadType, CodecType, WriterType,
       HistoryType
  <2> QED
    BY <2>1, <2>2 DEF TypeInv
<1>14. ASSUME NEW w \in Sessions, Check(w) \/ PollNone(w) PROVE TypeInv'
  <2>1. \E to \in {"ended", "poll", "check"} : writer' = [writer EXCEPT ![w] = to]
    BY <1>14 DEF Check, PollNone, Goes
  <2>2. UNCHANGED <<interrupted, took, freeInputs, pendingAcks, rendered, acked>>
        /\ UNCHANGED <<thread, decoder, main>>
    BY <1>14 DEF Check, PollNone
  <2>3. WriterType'
    BY <1>0, <2>1, <2>2 DEF WriterType
  <2>4. ThreadType' /\ QueueType' /\ CodecType' /\ HistoryType'
    BY <1>0, <2>2 DEF thread, decoder, main, ThreadType, QueueType, CodecType, HistoryType
  <2> QED
    BY <2>3, <2>4 DEF TypeInv
<1>15. ASSUME NEW w \in Sessions, Poll(w) PROVE TypeInv'
  <2>1. <<Head(pendingAcks)>> \in Seq(Frame) /\ Tail(pendingAcks) \in Seq(Frame)
    BY <1>0, <1>15, HeadTailProperties DEF Poll, QueueType
  <2>2. WriterType'
    BY <1>0, <1>15, <2>1 DEF Poll, Goes, WriterType
  <2>3. QueueType'
    BY <1>0, <1>15, <2>1 DEF Poll, main, QueueType
  <2>4. ThreadType' /\ CodecType' /\ HistoryType'
    BY <1>0, <1>15 DEF Poll, thread, decoder, ThreadType, CodecType, HistoryType
  <2> QED
    BY <2>2, <2>3, <2>4 DEF TypeInv
<1>16. ASSUME NEW w \in Sessions, Write(w) PROVE TypeInv'
  <2>1. acked[w] \o took[w] \in Seq(Frame) /\ <<>> \in Seq(Frame)
    BY <1>0, ConcatProperties, EmptySeq DEF WriterType, HistoryType
  <2>2. HistoryType'
    BY <1>0, <1>16, <2>1 DEF Write, HistoryType
  <2>3. WriterType'
    BY <1>0, <1>16, <2>1 DEF Write, Goes, WriterType
  <2>4. ThreadType' /\ QueueType' /\ CodecType'
    BY <1>0, <1>16 DEF Write, thread, decoder, main, ThreadType, QueueType, CodecType
  <2> QED
    BY <2>2, <2>3, <2>4 DEF TypeInv
<1>17. CASE Rest \/ UNCHANGED vars
  BY <1>0, <1>17 DEF Rest, vars, thread, decoder, main, writers, ThreadType, QueueType, CodecType,
     WriterType, HistoryType, TypeInv
<1> QED
  BY <1>1, <1>2, <1>3, <1>4, <1>5, <1>6, <1>7, <1>8, <1>9, <1>10, <1>11, <1>12, <1>13,
     <1>14, <1>15, <1>16, <1>17 DEF Next, SessionStep, MainStep, WriterStep

\* What the ack writers do to their places and to what they have in hand.
LEMMA WriterMoves ==
  ASSUME TypeInv, NEW w \in Sessions, WriterStep(w)
  PROVE  /\ writer[w] \in {"check", "poll", "write"} /\ UNCHANGED <<interrupted, rendered, thread>>
         /\ UNCHANGED <<queued, ready>>
         /\ \A x \in Sessions \ {w} : writer'[x] = writer[x] /\ took'[x] = took[x]
         /\ writer'[w] # "none"
         /\ writer[w] # "write" /\ writer'[w] # "write" => took'[w] = took[w]
         /\ writer[w] = "write" => took'[w] = <<>>
<1>0. WriterType
  BY DEF TypeInv
<1>1. CASE Check(w)
  BY <1>0, <1>1 DEF Check, Goes, WriterType, decoder
<1>2. CASE Poll(w)
  BY <1>0, <1>2 DEF Poll, Goes, WriterType, decoder
<1>3. CASE PollNone(w)
  BY <1>0, <1>3 DEF PollNone, Goes, WriterType, decoder
<1>4. CASE Write(w)
  BY <1>0, <1>4 DEF Write, Goes, WriterType, decoder
<1> QED
  BY <1>1, <1>2, <1>3, <1>4 DEF WriterStep

\* The steps that leave all writers where they are.
Others ==
  \/ Accept \/ Clear \/ StartCodec \/ StartFails \/ Feed \/ Starved \/ Release \/ Interrupt
  \/ Close \/ ReadFrame \/ Disconnect \/ Decode \/ OutputBuffer \/ Return
  \/ (\E i \in Inputs : InputBuffer(i)) \/ SetSurface \/ Rest \/ UNCHANGED vars

LEMMA OthersKeep == Others => UNCHANGED <<writer, took>>
BY DEF Others, Accept, Clear, StartCodec, StartFails, Feed, Starved, Release, Interrupt, Close,
   ReadFrame, Disconnect, Decode, OutputBuffer, Return, InputBuffer, SetSurface, Rest, vars, writers

LEMMA NextSplits ==
  [Next]_vars => Others \/ StartAckWriter \/ \E w \in Sessions : WriterStep(w)
BY DEF Next, Others, SessionStep, MainStep

LEMMA HandStep == ASSUME TypeInv, HandInv, PlaceInv, [Next]_vars PROVE HandInv'
<1>1. CASE Others
  BY <1>1, OthersKeep DEF HandInv
<1>2. CASE StartAckWriter
  BY <1>2 DEF StartAckWriter, GoTo, HandInv, PlaceInv, TypeInv, WriterType
<1>3. ASSUME NEW w \in Sessions, WriterStep(w) PROVE HandInv'
  BY <1>3, WriterMoves DEF HandInv
<1> QED
  BY <1>1, <1>2, <1>3, NextSplits

\* The steps that touch neither a writer nor the history nor change the session.
Quiet ==
  \/ Clear \/ StartCodec \/ StartFails \/ Feed \/ Starved \/ Release
  \/ ReadFrame \/ Disconnect \/ Decode \/ Return
  \/ (\E i \in Inputs : InputBuffer(i)) \/ SetSurface \/ Rest \/ UNCHANGED vars

LEMMA QuietKeep ==
  Quiet => /\ UNCHANGED <<session, writer, took, interrupted, rendered, acked>>
           /\ pc' = "accept" => pc = "accept"
BY DEF Quiet, Clear, StartCodec, StartFails, Feed, Starved, Release, GoTo,
   ReadFrame, Disconnect, Decode, Return, InputBuffer, SetSurface, Rest, vars, writers, thread

LEMMA OthersSplit == Others => Quiet \/ Accept \/ Interrupt \/ Close \/ OutputBuffer
BY DEF Others, Quiet

\* A writer never begins by itself to poll, and what it writes it writes as its session's.
LEMMA WriterPolls ==
  ASSUME TypeInv, NEW w \in Sessions, WriterStep(w)
  PROVE  /\ \A x \in Sessions : Polls(x)' => Polls(x)
         /\ \A x \in Sessions : x # session => acked'[x] = acked[x]
<1>0. WriterType /\ HistoryType
  BY DEF TypeInv
<1>1. \A x \in Sessions : Polls(x)' => Polls(x)
  BY WriterMoves DEF Polls
<1>2. ASSUME NEW x \in Sessions, x # session PROVE acked'[x] = acked[x]
  BY <1>0, <1>2 DEF WriterStep, Check, Poll, PollNone, Write, HistoryType
<1> QED
  BY <1>1, <1>2

LEMMA OthersStep == ASSUME TypeInv, PlaceInv, OthersInv, [Next]_vars PROVE OthersInv'
<1>0. ThreadType /\ WriterType /\ HistoryType
  BY DEF TypeInv
<1>1. CASE Quiet
  BY <1>1, QuietKeep DEF OthersInv, Polls
<1>2. CASE Accept
  <2>1. pc = "accept" /\ pc' = "clear" /\ session' = session + 1
        /\ UNCHANGED <<writer, interrupted, rendered, acked>>
    BY <1>2 DEF Accept, GoTo, writers
  <2>2. \A w \in Sessions : w > session' => w > session
    BY <1>0, <2>1 DEF ThreadType, Sessions
  <2>3. \A w \in Sessions : ~Polls(w)'
    BY <2>1 DEF OthersInv, Polls
  <2> QED
    BY <2>1, <2>2, <2>3 DEF OthersInv, Polls
<1>3. CASE Interrupt
  <2>1. UNCHANGED <<session, writer, rendered, acked>> /\ pc' = "close"
    BY <1>3 DEF Interrupt, GoTo
  <2>2. \A w \in Sessions : Polls(w)' => Polls(w)
    BY <1>0, <1>3 DEF Interrupt, Polls, WriterType
  <2> QED
    BY <2>1, <2>2 DEF OthersInv, Polls
<1>4. CASE Close
  <2>1. UNCHANGED <<session, writer, interrupted, rendered, acked>> /\ pc = "close"
    BY <1>4 DEF Close, GoTo, writers
  <2>2. \A w \in Sessions : w < session \/ w = session \/ w > session
    BY <1>0 DEF ThreadType, Sessions
  <2>3. \A w \in Sessions : ~Polls(w)
    BY <2>1, <2>2 DEF OthersInv, PlaceInv, Polls
  <2> QED
    BY <2>1, <2>3 DEF OthersInv, Polls
<1>5. CASE OutputBuffer
  <2>1. UNCHANGED <<pc, session, writer, interrupted, acked>>
    BY <1>5 DEF OutputBuffer, thread, writers
  <2>2. \A w \in Sessions : w > session => rendered'[w] = rendered[w]
    <3>1. \A w \in Sessions : w > session => w # session
      BY <1>0 DEF ThreadType, Sessions
    <3>2. \A w \in Sessions : w # session => rendered'[w] = rendered[w]
      BY <1>0, <1>5 DEF OutputBuffer, HistoryType
    <3> QED
      BY <3>1, <3>2
  <2> QED
    BY <2>1, <2>2 DEF OthersInv, Polls
<1>6. CASE StartAckWriter
  <2>1. UNCHANGED <<session, interrupted, rendered, acked>> /\ pc' = "read"
        /\ \A w \in Sessions : w # session => writer'[w] = writer[w]
    BY <1>0, <1>6 DEF StartAckWriter, GoTo, WriterType
  <2>2. \A w \in Sessions : w < session \/ w > session => w # session
    BY <1>0 DEF ThreadType, Sessions
  <2> QED
    BY <2>1, <2>2 DEF OthersInv, Polls
<1>7. ASSUME NEW w \in Sessions, WriterStep(w) PROVE OthersInv'
  <2>1. UNCHANGED <<pc, session, rendered>> /\ writer[w] # "none"
        /\ \A x \in Sessions \ {w} : writer'[x] = writer[x]
    BY <1>7, WriterMoves DEF thread
  <2>2. \A x \in Sessions : x > session => x # session
    BY <1>0 DEF ThreadType, Sessions
  <2> QED
    BY <1>7, <2>1, <2>2, WriterPolls DEF OthersInv
<1> QED
  BY <1>1, <1>2, <1>3, <1>4, <1>5, <1>6, <1>7, NextSplits, OthersSplit

LEMMA PlaceStep ==
  ASSUME TypeInv, HandInv, OthersInv, PlaceInv, [Next]_vars PROVE PlaceInv'
<1>0. ThreadType /\ CodecType /\ WriterType /\ HistoryType
  BY DEF TypeInv
<1>1. CASE Accept
  <2>1. pc = "accept" /\ pc' = "clear" /\ session' = session + 1
        /\ UNCHANGED <<writer, interrupted, rendered, acked, queued, ready>>
    BY <1>1 DEF Accept, GoTo, writers, decoder
  <2>2. session' \in Sessions /\ session' > session
    BY <1>0, <1>1, DecoderAssumption DEF Accept, ThreadType, Sessions
  <2> QED
    BY <2>1, <2>2 DEF OthersInv, PlaceInv
<1>2. CASE Clear \/ StartCodec \/ StartFails
  <2>1. /\ pc \in {"clear", "start"} /\ pc' \in {"start", "writer", "close"}
        /\ pc' = "start" => pc = "clear"
        /\ UNCHANGED <<session, up, queued, ready, writer, interrupted, rendered, acked>>
    BY <1>2 DEF Clear, StartCodec, StartFails, GoTo, decoder, writers
  <2> QED
    BY <2>1 DEF PlaceInv, Polls
<1>3. CASE StartAckWriter \/ ReadFrame \/ Feed \/ Starved
  BY <1>3 DEF StartAckWriter, ReadFrame, Feed, Starved, GoTo, PlaceInv
<1>4. CASE Release
  BY <1>4 DEF Release, GoTo, PlaceInv
<1>5. CASE Interrupt
  <2>1. session \in Sessions
    BY <1>0, <1>5 DEF Interrupt, GoTo, ThreadType, Sessions
  <2>2. ~Polls(session)'
    BY <1>0, <1>5, <2>1 DEF Interrupt, Polls, WriterType
  <2> QED
    BY <1>5, <2>2 DEF Interrupt, GoTo, PlaceInv, decoder
<1>6. CASE Close
  BY <1>6 DEF Close, GoTo, PlaceInv, decoder
<1>7. CASE Disconnect
  BY <1>7 DEF Disconnect, PlaceInv, Polls, decoder, writers
<1>8. CASE Decode
  BY <1>8 DEF Decode, PlaceInv, Polls, thread, writers
<1>9. CASE OutputBuffer
  <2>1. pc \notin {"accept", "clear", "start", "interrupt", "close"}
    BY <1>9 DEF OutputBuffer, PlaceInv
  <2> QED
    BY <1>9, <2>1 DEF OutputBuffer, PlaceInv, Polls, thread, writers
<1>10. CASE Return \/ SetSurface \/ Rest \/ UNCHANGED vars \/ \E i \in Inputs : InputBuffer(i)
  <2>1. UNCHANGED <<pc, session, up, queued, ready, writer, interrupted, rendered, acked>>
    BY <1>10 DEF Return, SetSurface, Rest, InputBuffer, vars, thread, decoder, writers
  <2> QED
    BY <2>1 DEF PlaceInv, Polls
<1>11. ASSUME NEW w \in Sessions, WriterStep(w) PROVE PlaceInv'
  <2>1. /\ UNCHANGED <<pc, session, up, queued, ready, rendered>> /\ writer[w] # "none"
        /\ \A x \in Sessions \ {w} : writer'[x] = writer[x]
    BY <1>11, WriterMoves DEF thread
  <2>2. pc # "accept" => session \in Sessions
    BY <1>0 DEF ThreadType, Sessions
  <2>3. pc \in {"clear", "start", "writer"} => writer'[session] = "none"
    BY <2>1, <2>2 DEF PlaceInv
  <2>4. pc \in {"clear", "start"} => acked'[session] = acked[session]
    <3>1. pc \in {"clear", "start"} => w # session
      BY <2>1 DEF PlaceInv
    <3> QED
      BY <1>0, <1>11, <2>2, <3>1 DEF WriterStep, Check, Poll, PollNone, Write, HistoryType
  <2>5. pc = "close" => ~Polls(session)'
    BY <1>11, <2>1, <2>2, WriterPolls DEF PlaceInv, Polls
  <2> QED
    BY <2>1, <2>3, <2>4, <2>5 DEF PlaceInv
<1> QED
  BY <1>1, <1>2, <1>3, <1>4, <1>5, <1>6, <1>7, <1>8, <1>9, <1>10, <1>11, NextSplits DEF Others

\* The steps that leave the line and the history where they are.
Still ==
  \/ StartCodec \/ StartFails \/ StartAckWriter \/ ReadFrame \/ Feed \/ Starved \/ Release
  \/ Interrupt \/ Close \/ Disconnect \/ Decode \/ (\E i \in Inputs : InputBuffer(i))
  \/ SetSurface \/ Rest \/ UNCHANGED vars \/ \E w \in Sessions : Check(w) \/ PollNone(w)

LEMMA StillKeep ==
  Still => /\ UNCHANGED <<session, took, pendingAcks, ackCall, rendered, acked>>
           /\ pc' \notin {"accept", "clear"} => pc \notin {"accept", "clear"}
           /\ up' => up
BY DEF Still, StartCodec, StartFails, StartAckWriter, ReadFrame, Feed, Starved, Release, Interrupt,
   Close, Disconnect, Decode, InputBuffer, SetSurface, Rest, vars, Check, PollNone, GoTo,
   thread, main, writers

LEMMA StillSplits ==
  [Next]_vars => \/ Still \/ Accept \/ Clear \/ OutputBuffer \/ Return
                 \/ \E w \in Sessions : Poll(w) \/ Write(w)
BY DEF Next, Still, SessionStep, MainStep, WriterStep

LEMMA LineStep ==
  ASSUME QuickCallback, DecoderInv, [Next]_vars PROVE LineInv'
<1>0. TypeInv /\ HandInv /\ OthersInv /\ PlaceInv /\ LineInv
      /\ ThreadType /\ QueueType /\ CodecType /\ WriterType /\ HistoryType
  BY DEF DecoderInv, TypeInv
<1>1. CASE Still
  BY <1>0, <1>1, StillKeep DEF LineInv, Line
<1>2. CASE Accept
  BY <1>2 DEF Accept, GoTo, LineInv
<1>3. CASE Clear
  <2>1. pc = "clear" /\ UNCHANGED <<session, took, ackCall, rendered, acked>> /\ pendingAcks' = <<>>
        /\ ackCall = <<>>
    BY <1>3 DEF Clear, GoTo, InCallback, main, writers
  <2>2. session \in Sessions /\ writer[session] = "none"
        /\ rendered[session] = <<>> /\ acked[session] = <<>>
    BY <1>0, <2>1 DEF PlaceInv, ThreadType, Sessions
  <2>3. took[session] = <<>>
    BY <1>0, <2>2 DEF HandInv
  <2>4. <<>> \o <<>> = <<>>
    BY EmptySeq, ConcatEmptySeq
  <2> QED
    BY <2>1, <2>2, <2>3, <2>4 DEF LineInv, Line
<1>4. CASE OutputBuffer
  <2>1. /\ UNCHANGED <<pc, session, up, pendingAcks, took, acked>>
        /\ ackCall = <<>> /\ ready # <<>>
    BY <1>4 DEF OutputBuffer, InCallback, thread, writers
  <2>2. pc \notin {"accept", "clear"} /\ session \in Sessions
    BY <1>0, <2>1 DEF PlaceInv, ThreadType, Sessions
  <2>3. CASE UNCHANGED <<ackCall, rendered>>
    BY <1>0, <2>1, <2>3 DEF LineInv, Line
  <2>4. CASE /\ ackCall' = <<Head(ready)>>
             /\ rendered' = [rendered EXCEPT ![session] = Append(@, Head(ready))]
    <3> DEFINE front == (acked[session] \o took[session]) \o pendingAcks
    <3>1. Head(ready) \in Frame
      BY <1>0, <2>1, HeadTailProperties DEF CodecType
    <3>2. front \in Seq(Frame)
      BY <1>0, <2>2, ConcatProperties DEF QueueType, WriterType, HistoryType
    <3>3. front \o <<Head(ready)>> = Append(front \o <<>>, Head(ready))
      BY <3>1, <3>2, LineAppend
    <3>4. rendered'[session] = Append(rendered[session], Head(ready))
      BY <1>0, <2>2, <2>4 DEF HistoryType
    <3>5. Line' = front \o <<Head(ready)>> /\ Line = front \o <<>>
      BY <2>1, <2>4 DEF Line
    <3> HIDE DEF front
    <3> QED
      BY <1>0, <2>1, <3>3, <3>4, <3>5 DEF LineInv
  <2> QED
    BY <1>4, <2>3, <2>4 DEF OutputBuffer
<1>5. CASE Return
  <2>1. UNCHANGED <<pc, session, up, took, rendered, acked>>
        /\ pendingAcks' = pendingAcks \o ackCall /\ ackCall' = <<>>
    BY <1>5 DEF Return, thread, writers
  <2>2. ASSUME pc \notin {"accept", "clear"} PROVE Line' = Line
    <3>1. session \in Sessions
      BY <1>0, <2>2 DEF ThreadType, Sessions
    <3>2. /\ acked[session] \o took[session] \in Seq(Frame)
          /\ pendingAcks \in Seq(Frame) /\ ackCall \in Seq(Frame)
      BY <1>0, <3>1, ConcatProperties DEF QueueType, WriterType, HistoryType
    <3>3. ((acked[session] \o took[session]) \o (pendingAcks \o ackCall)) \o <<>>
          = ((acked[session] \o took[session]) \o pendingAcks) \o ackCall
      BY <3>2, LineReturn
    <3> QED
      BY <2>1, <3>3 DEF Line
  <2> QED
    BY <1>0, <2>1, <2>2 DEF LineInv
<1>6. ASSUME NEW w \in Sessions, Poll(w) PROVE LineInv'
  <2>1. /\ UNCHANGED <<pc, session, up, ackCall, rendered, acked>> /\ pendingAcks # <<>>
        /\ Polls(w) /\ writer[w] # "write"
        /\ took' = [took EXCEPT ![w] = <<Head(pendingAcks)>>] /\ pendingAcks' = Tail(pendingAcks)
    BY <1>6 DEF Poll, Goes, Polls, thread, main
  <2>2. ASSUME pc # "accept" PROVE w = session
    <3>1. w < session \/ w = session \/ w > session
      BY <1>0 DEF ThreadType, Sessions
    <3> QED
      BY <1>0, <2>1, <3>1 DEF OthersInv, Polls
  <2>3. ASSUME w = session PROVE Line' = Line
    <3>1. took[session] = <<>> /\ took'[session] = <<Head(pendingAcks)>>
      BY <1>0, <2>1, <2>3 DEF HandInv, WriterType
    <3>2. acked[session] \in Seq(Frame) /\ pendingAcks \in Seq(Frame) /\ ackCall \in Seq(Frame)
      BY <1>0, <2>3 DEF QueueType, HistoryType
    <3>3. ((acked[session] \o <<Head(pendingAcks)>>) \o Tail(pendingAcks)) \o ackCall
          = ((acked[session] \o <<>>) \o pendingAcks) \o ackCall
      BY <2>1, <3>2, LineTake
    <3> QED
      BY <2>1, <3>1, <3>3 DEF Line
  <2> QED
    BY <1>0, <2>1, <2>2, <2>3 DEF LineInv
<1>7. ASSUME NEW w \in Sessions, Write(w) PROVE LineInv'
  <2>1. UNCHANGED <<pc, session, up, pendingAcks, ackCall, rendered>>
        /\ took' = [took EXCEPT ![w] = <<>>]
    BY <1>7 DEF Write, thread, main
  <2>2. CASE w # session
    <3>1. acked' = acked
      BY <1>7, <2>2 DEF Write
    <3>2. took'[session] = took[session]
      BY <1>0, <2>1, <2>2 DEF WriterType
    <3> QED
      BY <1>0, <2>1, <3>1, <3>2 DEF LineInv, Line
  <2>3. CASE w = session /\ up
    <3>1. acked' = [acked EXCEPT ![w] = @ \o took[w]]
      BY <1>7, <2>3 DEF Write
    <3>2. acked'[session] = acked[session] \o took[session] /\ took'[session] = <<>>
      BY <1>0, <2>1, <2>3, <3>1 DEF WriterType, HistoryType
    <3>3. (((acked[session] \o took[session]) \o <<>>) \o pendingAcks) \o ackCall
          = ((acked[session] \o took[session]) \o pendingAcks) \o ackCall
      BY <1>0, <2>3, LineWrite DEF QueueType, WriterType, HistoryType
    <3>4. Line' = Line
      BY <2>1, <3>2, <3>3 DEF Line
    <3> QED
      BY <1>0, <2>1, <3>4 DEF LineInv
  <2>4. CASE ~up
    BY <2>1, <2>4 DEF LineInv
  <2> QED
    BY <2>2, <2>3, <2>4
<1> QED
  BY <1>1, <1>2, <1>3, <1>4, <1>5, <1>6, <1>7, StillSplits

LEMMA PrefixStep == ASSUME DecoderInv, [Next]_vars PROVE PrefixInv'
<1>0. HandInv /\ OthersInv /\ PlaceInv /\ LineInv /\ PrefixInv
      /\ ThreadType /\ QueueType /\ CodecType /\ WriterType /\ HistoryType
  BY DEF DecoderInv, TypeInv
<1>1. CASE Still \/ Accept \/ Clear \/ Return \/ \E w \in Sessions : Poll(w)
  <2>1. UNCHANGED <<rendered, acked>>
    BY <1>1, StillKeep DEF Accept, Clear, Return, Poll
  <2> QED
    BY <1>0, <2>1 DEF PrefixInv
<1>2. CASE OutputBuffer
  <2>1. acked' = acked /\ ready # <<>>
    BY <1>2 DEF OutputBuffer
  <2>2. SUFFICES ASSUME NEW w \in Sessions
                 PROVE  \E rest \in Seq(Frame) : rendered'[w] = acked[w] \o rest
    BY <2>1 DEF PrefixInv
  <2>3. PICK rest \in Seq(Frame) : rendered[w] = acked[w] \o rest
    BY <1>0 DEF PrefixInv
  <2>4. CASE rendered'[w] = rendered[w]
    BY <2>3, <2>4
  <2>5. CASE rendered'[w] = Append(rendered[w], Head(ready))
    <3>1. Head(ready) \in Frame /\ <<Head(ready)>> \in Seq(Frame)
      BY <1>0, <2>1, HeadTailProperties DEF CodecType
    <3>2. rendered[w] \in Seq(Frame) /\ acked[w] \in Seq(Frame)
      BY <1>0 DEF HistoryType
    <3>3. Append(rendered[w], Head(ready)) = rendered[w] \o <<Head(ready)>>
      BY <3>1, <3>2, AppendIsConcat
    <3>4. (acked[w] \o rest) \o <<Head(ready)>> = acked[w] \o (rest \o <<Head(ready)>>)
      BY <3>1, <3>2, LineJoin
    <3>5. rest \o <<Head(ready)>> \in Seq(Frame)
      BY <3>1, ConcatProperties
    <3> QED
      BY <2>3, <2>5, <3>3, <3>4, <3>5
  <2>6. rendered'[w] = rendered[w] \/ rendered'[w] = Append(rendered[w], Head(ready))
    BY <1>0, <1>2 DEF OutputBuffer, HistoryType
  <2> QED
    BY <2>4, <2>5, <2>6
<1>3. ASSUME NEW v \in Sessions, Write(v) PROVE PrefixInv'
  <2>1. rendered' = rendered /\ writer[v] = "write"
    BY <1>3 DEF Write, Goes
  <2>2. CASE UNCHANGED acked
    BY <1>0, <2>1, <2>2 DEF PrefixInv
  <2>3. CASE v = session /\ up /\ acked' = [acked EXCEPT ![v] = @ \o took[v]]
    <3>1. pc \notin {"accept", "clear"}
      BY <1>0, <2>1, <2>3 DEF PlaceInv
    <3>2. rendered[v] = ((acked[v] \o took[v]) \o pendingAcks) \o ackCall
      BY <1>0, <2>3, <3>1 DEF LineInv, Line
    <3>3. /\ acked[v] \o took[v] \in Seq(Frame) /\ pendingAcks \o ackCall \in Seq(Frame)
          /\ pendingAcks \in Seq(Frame) /\ ackCall \in Seq(Frame)
      BY <1>0, ConcatProperties DEF QueueType, WriterType, HistoryType
    <3>4. ((acked[v] \o took[v]) \o pendingAcks) \o ackCall
          = (acked[v] \o took[v]) \o (pendingAcks \o ackCall)
      BY <3>3, LineJoin
    <3>5. acked'[v] = acked[v] \o took[v] /\ \A w \in Sessions : w # v => acked'[w] = acked[w]
      BY <1>0, <2>3 DEF HistoryType
    <3> QED
      BY <1>0, <2>1, <3>2, <3>3, <3>4, <3>5 DEF PrefixInv
  <2> QED
    BY <1>3, <2>2, <2>3 DEF Write
<1> QED
  BY <1>1, <1>2, <1>3, StillSplits

\* If callbacks return before the session after theirs has begun, whatever a session
\* acknowledges is a prefix of what it rendered, for any number of sessions, frames and
\* input buffers (VideoStream.kt:209-210, 281-297, 315-331).
THEOREM AcksAreOwn == ASSUME QuickCallback PROVE Spec => []AcksOwn
<1>1. DecoderInv /\ [Next]_vars => DecoderInv'
  BY TypeStep, HandStep, OthersStep, PlaceStep, LineStep, PrefixStep DEF DecoderInv
<1>2. DecoderInv => AcksOwn
  <2> SUFFICES ASSUME DecoderInv, NEW w \in Sessions PROVE IsPrefix(acked[w], rendered[w])
    BY DEF AcksOwn
  <2>1. PICK rest \in Seq(Frame) : rendered[w] = acked[w] \o rest
    BY DEF DecoderInv, PrefixInv
  <2>2. acked[w] \in Seq(Frame)
    BY DEF DecoderInv, TypeInv, HistoryType
  <2> QED
    BY <2>1, <2>2, PrefixOfConcat
<1> QED
  BY <1>1, <1>2, DecoderInit, PTL DEF Spec

-----------------------------------------------------------------------------
(* No input buffer is lost or comes twice.                                 *)

NoneIn(s, i) == \A k \in DOMAIN s : s[k] # i

OneIn(s, i) == \E k \in DOMAIN s : s[k] = i /\ \A j \in DOMAIN s : s[j] = i => j = k

\* The input buffers in which queued frames wait.
QueuedInputs == [k \in DOMAIN queued |-> queued[k].index]

\* Buffer i is free, queued, in a callback or with the decoder, and only one of these.
Once(i) ==
  \/ /\ OneIn(freeInputs, i) /\ NoneIn(QueuedInputs, i) /\ NoneIn(inputCall, i)
     /\ i \notin unannounced
  \/ /\ NoneIn(freeInputs, i) /\ OneIn(QueuedInputs, i) /\ NoneIn(inputCall, i)
     /\ i \notin unannounced
  \/ /\ NoneIn(freeInputs, i) /\ NoneIn(QueuedInputs, i) /\ OneIn(inputCall, i)
     /\ i \notin unannounced
  \/ /\ NoneIn(freeInputs, i) /\ NoneIn(QueuedInputs, i) /\ NoneIn(inputCall, i)
     /\ i \in unannounced

Running == pc \in {"writer", "read", "feed"}

\* A decoder that does not run has no buffers, and the one to be started finds none of
\* another's.
KeptInv ==
  /\ inputCall = <<>> \/ \E i \in Inputs : inputCall = <<i>>
  /\ ~Running => unannounced = {} /\ queued = <<>>
  /\ pc = "start" => freeInputs = <<>> /\ inputCall = <<>>
  /\ Running => \A i \in Inputs : Once(i)

\* What becomes of the places of i in a sequence that gives up its first element ...
LEMMA OnceTail ==
  ASSUME NEW S, NEW s \in Seq(S), s # <<>>, NEW i
  PROVE  /\ NoneIn(s, i) => NoneIn(Tail(s), i)
         /\ OneIn(s, i) => IF Head(s) = i THEN NoneIn(Tail(s), i) ELSE OneIn(Tail(s), i)
         /\ Head(s) = i => ~NoneIn(s, i)
<1>1. /\ Tail(s) \in Seq(S) /\ Len(s) \in Nat /\ Len(s) >= 1 /\ Head(s) = s[1]
      /\ DOMAIN s = 1..Len(s) /\ DOMAIN Tail(s) = 1..(Len(s) - 1)
      /\ \A k \in 1..(Len(s) - 1) : Tail(s)[k] = s[k + 1]
  OBVIOUS
<1>2. \A k \in DOMAIN Tail(s) : k + 1 \in DOMAIN s /\ Tail(s)[k] = s[k + 1] /\ k + 1 # 1
  BY <1>1
<1>3. NoneIn(s, i) => NoneIn(Tail(s), i)
  BY <1>2 DEF NoneIn
<1>4. ASSUME NEW k \in DOMAIN s, s[k] = i, \A j \in DOMAIN s : s[j] = i => j = k
      PROVE  IF Head(s) = i THEN NoneIn(Tail(s), i) ELSE OneIn(Tail(s), i)
  <2>1. CASE Head(s) = i
    <3>1. k = 1
      BY <1>1, <1>4, <2>1
    <3> QED
      BY <1>2, <1>4, <2>1, <3>1 DEF NoneIn
  <2>2. CASE Head(s) # i
    <3>1. k # 1
      BY <1>1, <1>4, <2>2
    <3>2. k - 1 \in DOMAIN Tail(s) /\ (k - 1) + 1 = k
      BY <1>1, <1>4, <3>1
    <3>3. Tail(s)[k - 1] = i
      BY <1>2, <1>4, <3>2
    <3>4. ASSUME NEW j \in DOMAIN Tail(s), Tail(s)[j] = i PROVE j = k - 1
      <4>1. j + 1 = k
        BY <1>2, <1>4, <3>4
      <4> QED
        BY <1>1, <4>1
    <3> QED
      BY <2>2, <3>2, <3>3, <3>4 DEF OneIn
  <2> QED
    BY <2>1, <2>2
<1>5. Head(s) = i => ~NoneIn(s, i)
  BY <1>1 DEF NoneIn
<1> QED
  BY <1>3, <1>4, <1>5 DEF OneIn

\* ... and in one that is given another at its end.
LEMMA OnceAppend ==
  ASSUME NEW S, NEW s \in Seq(S), NEW e \in S, NEW i
  PROVE  /\ NoneIn(s, i) => IF e = i THEN OneIn(Append(s, e), i) ELSE NoneIn(Append(s, e), i)
         /\ OneIn(s, i) /\ e # i => OneIn(Append(s, e), i)
<1> DEFINE t == Append(s, e)
<1>1. /\ Len(s) \in Nat /\ DOMAIN s = 1..Len(s) /\ DOMAIN t = 1..(Len(s) + 1)
      /\ t[Len(s) + 1] = e /\ \A k \in 1..Len(s) : t[k] = s[k]
  BY AppendProperties
<1>2. /\ Len(s) + 1 \in DOMAIN t
      /\ \A k \in DOMAIN s : k \in DOMAIN t /\ t[k] = s[k]
      /\ \A k \in DOMAIN t : k \in DOMAIN s \/ k = Len(s) + 1
  BY <1>1
<1> HIDE DEF t
<1>3. ASSUME NoneIn(s, i) PROVE IF e = i THEN OneIn(t, i) ELSE NoneIn(t, i)
  <2>1. \A k \in DOMAIN t : k # Len(s) + 1 => t[k] # i
    BY <1>2, <1>3 DEF NoneIn
  <2> QED
    BY <1>1, <1>2, <2>1 DEF NoneIn, OneIn
<1>4. ASSUME OneIn(s, i), e # i PROVE OneIn(t, i)
  <2>1. PICK k \in DOMAIN s : s[k] = i /\ \A j \in DOMAIN s : s[j] = i => j = k
    BY <1>4 DEF OneIn
  <2>2. \A j \in DOMAIN t : t[j] = i => j = k
    BY <1>1, <1>2, <1>4, <2>1
  <2> QED
    BY <1>2, <2>1, <2>2 DEF OneIn
<1> QED
  BY <1>3, <1>4 DEF t

LEMMA OnceEmpty == \A i : NoneIn(<<>>, i) /\ ~OneIn(<<>>, i)
BY DEF NoneIn, OneIn

LEMMA OnceSingle == ASSUME NEW e, NEW i PROVE IF e = i THEN OneIn(<<e>>, i) ELSE NoneIn(<<e>>, i)
<1>1. DOMAIN <<e>> = {1} /\ <<e>>[1] = e
  OBVIOUS
<1> QED
  BY <1>1 DEF NoneIn, OneIn

LEMMA QueuedType ==
  ASSUME CodecType
  PROVE  QueuedInputs \in Seq(Inputs) /\ Len(QueuedInputs) = Len(queued)
         /\ (queued = <<>> => QueuedInputs = <<>>)
<1>1. queued \in Seq([frame : Frame, index : Inputs]) /\ Len(queued) \in Nat
      /\ DOMAIN queued = 1..Len(queued)
  BY DEF CodecType
<1>2. \A k \in 1..Len(queued) : queued[k].index \in Inputs
  <2>1. \A k \in 1..Len(queued) : queued[k] \in [frame : Frame, index : Inputs]
    BY <1>1, ElementOfSeq
  <2> QED
    BY <2>1
<1> DEFINE N == Len(queued)
           At(k) == queued[k].index
<1>3. QueuedInputs = [k \in 1..N |-> At(k)] /\ N \in Nat /\ \A k \in 1..N : At(k) \in Inputs
  BY <1>1, <1>2 DEF QueuedInputs
<1>4. queued = <<>> => N = 0
  OBVIOUS
<1> HIDE DEF N, At
<1>5. QueuedInputs \in Seq(Inputs) /\ Len(QueuedInputs) = N
  BY <1>3
<1> QED
  BY <1>4, <1>5, EmptySeq DEF N

\* Another frame is queued in buffer h.
LEMMA QueuedAppend ==
  ASSUME CodecType, NEW f \in Frame, NEW h \in Inputs,
         queued' = Append(queued, [frame |-> f, index |-> h])
  PROVE  QueuedInputs' = Append(QueuedInputs, h)
<1> DEFINE e == [frame |-> f, index |-> h]
           T == [frame : Frame, index : Inputs]
<1>1. queued \in Seq(T) /\ e \in T /\ e.index = h
  BY DEF CodecType
<1> HIDE DEF e
<1>2. /\ Len(queued) \in Nat /\ DOMAIN queued' = 1..(Len(queued) + 1)
      /\ queued'[Len(queued) + 1] = e
      /\ \A k \in 1..Len(queued) : queued'[k] = queued[k]
  <2>1. queued' = Append(queued, e)
    BY DEF e
  <2> HIDE DEF T
  <2> QED
    BY <1>1, <2>1, AppendProperties
<1>3. /\ DOMAIN QueuedInputs' = 1..(Len(queued) + 1)
      /\ \A k \in 1..(Len(queued) + 1) : QueuedInputs'[k] = queued'[k].index
  BY <1>2 DEF QueuedInputs
<1>4. /\ QueuedInputs \in Seq(Inputs) /\ Len(QueuedInputs) = Len(queued)
      /\ \A k \in 1..Len(queued) : QueuedInputs[k] = queued[k].index
  BY <1>1, QueuedType DEF QueuedInputs, T
<1>5. /\ Append(QueuedInputs, h) \in Seq(Inputs) /\ Len(Append(QueuedInputs, h)) = Len(queued) + 1
      /\ Append(QueuedInputs, h)[Len(queued) + 1] = h
      /\ \A k \in 1..Len(queued) : Append(QueuedInputs, h)[k] = QueuedInputs[k]
  BY <1>4, AppendProperties
<1>6. \A k \in 1..(Len(queued) + 1) : QueuedInputs'[k] = Append(QueuedInputs, h)[k]
  <2> TAKE k \in 1..(Len(queued) + 1)
  <2>1. CASE k = Len(queued) + 1
    BY <1>1, <1>2, <1>3, <1>5, <2>1
  <2>2. CASE k # Len(queued) + 1
    <3>1. k \in 1..Len(queued)
      BY <1>2, <2>2
    <3> QED
      BY <1>2, <1>3, <1>4, <1>5, <3>1
  <2> QED
    BY <2>1, <2>2
<1>7. QueuedInputs' \in Seq(Inputs) /\ Len(QueuedInputs') = Len(queued) + 1
  <2>1. \A k \in 1..(Len(queued) + 1) : QueuedInputs'[k] \in Inputs
    BY <1>2, <1>5, <1>6, ElementOfSeq
  <2>2. QueuedInputs' = [k \in 1..(Len(queued) + 1) |-> QueuedInputs'[k]]
    BY <1>2 DEF QueuedInputs
  <2>3. Len(queued) + 1 \in Nat
    BY <1>2
  <2>4. QueuedInputs' \in [1..(Len(queued) + 1) -> Inputs]
    BY <2>1, <2>2
  <2> QED
    BY <2>3, <2>4
<1> QED
  BY <1>5, <1>6, <1>7, SeqEqual

\* The first queued frame is decoded.
LEMMA QueuedTail ==
  ASSUME CodecType, queued # <<>>, queued' = Tail(queued)
  PROVE  /\ QueuedInputs' = Tail(QueuedInputs) /\ QueuedInputs # <<>>
         /\ Head(QueuedInputs) = Head(queued).index /\ Head(queued).index \in Inputs
<1> DEFINE T == [frame : Frame, index : Inputs]
           q == QueuedInputs
<1>1. /\ queued \in Seq(T) /\ Len(queued) \in Nat /\ Len(queued) >= 1
      /\ Head(queued) = queued[1] /\ DOMAIN queued' = 1..(Len(queued) - 1)
      /\ \A k \in 1..(Len(queued) - 1) : queued'[k] = queued[k + 1]
  <2>1. queued \in Seq(T)
    BY DEF CodecType
  <2> HIDE DEF T
  <2> QED
    BY <2>1
<1>2. /\ q \in Seq(Inputs) /\ Len(q) = Len(queued)
      /\ \A k \in 1..Len(queued) : q[k] = queued[k].index
  BY <1>1, QueuedType DEF QueuedInputs, T
<1>3. /\ DOMAIN QueuedInputs' = 1..(Len(queued) - 1)
      /\ \A k \in 1..(Len(queued) - 1) : QueuedInputs'[k] = queued'[k].index
      /\ QueuedInputs' = [k \in 1..(Len(queued) - 1) |-> QueuedInputs'[k]]
  BY <1>1 DEF QueuedInputs
<1> HIDE DEF q
<1>4. /\ Tail(q) \in Seq(Inputs) /\ Len(Tail(q)) = Len(queued) - 1 /\ q # <<>>
      /\ \A k \in 1..(Len(queued) - 1) : Tail(q)[k] = q[k + 1]
      /\ Head(q) = q[1] /\ q[1] \in Inputs
  BY <1>1, <1>2
<1>5. \A k \in 1..(Len(queued) - 1) : QueuedInputs'[k] = Tail(q)[k]
  <2> TAKE k \in 1..(Len(queued) - 1)
  <2>1. k + 1 \in 1..Len(queued)
    BY <1>1
  <2> QED
    BY <1>1, <1>2, <1>3, <1>4, <2>1
<1>6. QueuedInputs' \in Seq(Inputs) /\ Len(QueuedInputs') = Len(queued) - 1
  <2>1. \A k \in 1..(Len(queued) - 1) : QueuedInputs'[k] \in Inputs
    BY <1>4, <1>5, ElementOfSeq
  <2>2. Len(queued) - 1 \in Nat
    BY <1>1
  <2>3. QueuedInputs' \in [1..(Len(queued) - 1) -> Inputs]
    BY <1>3, <2>1
  <2> QED
    BY <2>2, <2>3
<1>7. QueuedInputs' = Tail(q)
  BY <1>4, <1>5, <1>6, SeqEqual
<1>8. Head(q) = Head(queued).index
  <2>1. 1 \in 1..Len(queued)
    BY <1>1
  <2> QED
    BY <1>1, <1>2, <1>4, <2>1
<1> QED
  BY <1>4, <1>7, <1>8 DEF q

-----------------------------------------------------------------------------
LEMMA KeptFeed == ASSUME TypeInv, KeptInv, Feed PROVE KeptInv'
<1>0. ThreadType /\ QueueType /\ CodecType
  BY DEF TypeInv
<1>1. /\ pc = "feed" /\ pc' = "read" /\ freeInputs # <<>> /\ freeInputs' = Tail(freeInputs)
      /\ queued' = Append(queued, [frame |-> <<session, count>>, index |-> Head(freeInputs)])
      /\ inputCall' = inputCall /\ unannounced' = unannounced
  BY DEF Feed, GoTo, main
<1>2. Head(freeInputs) \in Inputs /\ <<session, count>> \in Frame /\ freeInputs \in Seq(Inputs)
  BY <1>0, <1>1, HeadTailProperties DEF QueueType, Frame, ThreadType
<1>3. QueuedInputs \in Seq(Inputs) /\ QueuedInputs' = Append(QueuedInputs, Head(freeInputs))
  BY <1>0, <1>1, <1>2, QueuedType, QueuedAppend
<1>4. ASSUME NEW i \in Inputs PROVE Once(i)'
  <2>1. Once(i)
    BY <1>1 DEF KeptInv, Running
  <2>2. /\ NoneIn(freeInputs, i) => NoneIn(freeInputs', i)
        /\ OneIn(freeInputs, i) => IF Head(freeInputs) = i THEN NoneIn(freeInputs', i)
                                   ELSE OneIn(freeInputs', i)
        /\ Head(freeInputs) = i => ~NoneIn(freeInputs, i)
    BY <1>1, <1>2, OnceTail
  <2>3. /\ NoneIn(QueuedInputs, i) => IF Head(freeInputs) = i THEN OneIn(QueuedInputs', i)
                                      ELSE NoneIn(QueuedInputs', i)
        /\ OneIn(QueuedInputs, i) /\ Head(freeInputs) # i => OneIn(QueuedInputs', i)
    BY <1>2, <1>3, OnceAppend
  <2> QED
    BY <1>1, <2>1, <2>2, <2>3 DEF Once
<1> QED
  BY <1>1, <1>4 DEF KeptInv, Running

LEMMA KeptDecode == ASSUME TypeInv, KeptInv, Decode PROVE KeptInv'
<1>0. CodecType
  BY DEF TypeInv
<1>1. /\ queued # <<>> /\ queued' = Tail(queued)
      /\ unannounced' = unannounced \cup {Head(queued).index}
      /\ UNCHANGED <<pc, freeInputs, inputCall>>
  BY DEF Decode, thread, main
<1>2. Running
  BY <1>1 DEF KeptInv
<1>3. /\ QueuedInputs' = Tail(QueuedInputs) /\ QueuedInputs # <<>>
      /\ Head(QueuedInputs) = Head(queued).index /\ QueuedInputs \in Seq(Inputs)
  BY <1>0, <1>1, QueuedType, QueuedTail
<1>4. ASSUME NEW i \in Inputs PROVE Once(i)'
  <2>1. Once(i)
    BY <1>2 DEF KeptInv
  <2>2. /\ NoneIn(QueuedInputs, i) => NoneIn(QueuedInputs', i)
        /\ OneIn(QueuedInputs, i) => IF Head(queued).index = i THEN NoneIn(QueuedInputs', i)
                                     ELSE OneIn(QueuedInputs', i)
        /\ Head(queued).index = i => ~NoneIn(QueuedInputs, i)
    BY <1>3, OnceTail
  <2> QED
    BY <1>1, <2>1, <2>2 DEF Once
<1> QED
  BY <1>1, <1>2, <1>4 DEF KeptInv, Running

LEMMA KeptInputBuffer ==
  ASSUME TypeInv, KeptInv, NEW b \in Inputs, InputBuffer(b)
  PROVE  KeptInv'
<1>1. /\ inputCall = <<>> /\ inputCall' = <<b>> /\ b \in unannounced
      /\ unannounced' = unannounced \ {b}
      /\ UNCHANGED <<pc, freeInputs, queued>>
  BY DEF InputBuffer, InCallback, thread
<1>2. Running /\ QueuedInputs' = QueuedInputs
  BY <1>1 DEF KeptInv, QueuedInputs
<1>3. ASSUME NEW i \in Inputs PROVE Once(i)'
  <2>1. Once(i)
    BY <1>2 DEF KeptInv
  <2>2. /\ NoneIn(inputCall, i) /\ ~OneIn(inputCall, i)
        /\ IF b = i THEN OneIn(inputCall', i) ELSE NoneIn(inputCall', i)
    BY <1>1, OnceEmpty, OnceSingle
  <2> QED
    BY <1>1, <1>2, <2>1, <2>2 DEF Once
<1> QED
  BY <1>1, <1>2, <1>3 DEF KeptInv, Running

LEMMA KeptReturn == ASSUME TypeInv, KeptInv, Return PROVE KeptInv'
<1>0. QueueType
  BY DEF TypeInv
<1>1. /\ freeInputs' = freeInputs \o inputCall /\ inputCall' = <<>>
      /\ UNCHANGED <<pc, queued, unannounced>>
  BY DEF Return, thread, decoder
<1>2. QueuedInputs' = QueuedInputs
  BY <1>1 DEF QueuedInputs
<1>3. CASE inputCall = <<>>
  <2>1. freeInputs' = freeInputs
    BY <1>0, <1>1, <1>3, ConcatEmptySeq DEF QueueType
  <2> QED
    BY <1>1, <1>2, <1>3, <2>1 DEF KeptInv, Running, Once
<1>4. ASSUME NEW b \in Inputs, inputCall = <<b>> PROVE KeptInv'
  <2>1. freeInputs \in Seq(Inputs) /\ freeInputs' = Append(freeInputs, b)
    BY <1>0, <1>1, <1>4, AppendIsConcat DEF QueueType
  <2>2. pc # "start"
    BY <1>4 DEF KeptInv
  <2>3. ASSUME NEW i \in Inputs, Once(i) PROVE Once(i)'
    <3>1. /\ NoneIn(freeInputs, i) => IF b = i THEN OneIn(freeInputs', i)
                                      ELSE NoneIn(freeInputs', i)
          /\ OneIn(freeInputs, i) /\ b # i => OneIn(freeInputs', i)
      BY <2>1, OnceAppend
    <3>2. /\ NoneIn(inputCall', i)
          /\ IF b = i THEN OneIn(inputCall, i) ELSE NoneIn(inputCall, i)
      BY <1>1, <1>4, OnceEmpty, OnceSingle
    <3>3. ~(OneIn(inputCall, i) /\ NoneIn(inputCall, i))
      BY DEF OneIn, NoneIn
    <3> QED
      BY <1>1, <1>2, <2>3, <3>1, <3>2, <3>3 DEF Once
  <2> QED
    BY <1>1, <2>2, <2>3 DEF KeptInv, Running
<1> QED
  BY <1>3, <1>4 DEF KeptInv

LEMMA KeptStart == ASSUME TypeInv, KeptInv, StartCodec PROVE KeptInv'
<1>0. CodecType
  BY DEF TypeInv
<1>1. /\ pc = "start" /\ pc' = "writer" /\ unannounced' = Inputs
      /\ UNCHANGED <<freeInputs, queued, inputCall>>
  BY DEF StartCodec, GoTo, main
<1>2. freeInputs = <<>> /\ inputCall = <<>> /\ queued = <<>>
  BY <1>1 DEF KeptInv, Running
<1>3. QueuedInputs' = QueuedInputs /\ QueuedInputs = <<>>
  BY <1>0, <1>1, <1>2, QueuedType DEF QueuedInputs
<1>4. ASSUME NEW i \in Inputs PROVE Once(i)'
  BY <1>1, <1>2, <1>3, OnceEmpty DEF Once
<1> QED
  BY <1>1, <1>2, <1>4 DEF KeptInv, Running

LEMMA KeptStep == ASSUME QuickCallback, TypeInv, KeptInv, [Next]_vars PROVE KeptInv'
<1>1. ASSUME UNCHANGED <<freeInputs, queued, unannounced, inputCall>>,
             Running <=> Running', pc' = "start" => pc = "start"
      PROVE  KeptInv'
  <2>1. QueuedInputs' = QueuedInputs
    BY <1>1 DEF QueuedInputs
  <2> QED
    BY <1>1, <2>1 DEF KeptInv, Once
<1>2. CASE Clear
  <2>1. /\ pc = "clear" /\ pc' = "start" /\ freeInputs' = <<>> /\ inputCall = <<>>
        /\ UNCHANGED <<queued, unannounced, inputCall>>
    BY <1>2 DEF Clear, GoTo, InCallback, decoder, main
  <2> QED
    BY <2>1 DEF KeptInv, Running
<1>3. CASE Release
  <2>1. /\ pc' = "interrupt" /\ unannounced' = {} /\ queued' = <<>>
        /\ UNCHANGED <<freeInputs, inputCall>>
    BY <1>3 DEF Release, GoTo, main
  <2> QED
    BY <2>1 DEF KeptInv, Running
<1>4. CASE \/ Accept \/ StartFails \/ StartAckWriter \/ Starved \/ Interrupt \/ Close
           \/ ReadFrame
  BY <1>1, <1>4 DEF Accept, StartFails, StartAckWriter, Starved, Interrupt, Close, ReadFrame,
     GoTo, decoder, main, Running
<1>5. CASE \/ Disconnect \/ OutputBuffer \/ SetSurface \/ Rest \/ UNCHANGED vars
           \/ \E w \in Sessions : WriterStep(w)
  BY <1>1, <1>5 DEF Disconnect, OutputBuffer, SetSurface, Rest, vars, WriterStep, Check, Poll,
     PollNone, Write, thread, decoder, main, Running
<1> QED
  BY <1>2, <1>3, <1>4, <1>5, KeptFeed, KeptDecode, KeptInputBuffer, KeptReturn, KeptStart
     DEF Next, SessionStep, MainStep

\* One place of its own, and no other.
LEMMA OncePlace == ASSUME NEW i, Once(i) PROVE Places(i) = 1
<1> DEFINE free == {<<"free", k>> : k \in {k \in DOMAIN freeInputs : freeInputs[k] = i}}
           fed == {<<"queued", k>> : k \in {k \in DOMAIN queued : queued[k].index = i}}
           called == {<<"callback", k>> : k \in {k \in DOMAIN inputCall : inputCall[k] = i}}
           left == {<<"decoder">> : u \in unannounced \cap {i}}
<1>1. Places(i) = Cardinality(free \cup fed \cup called \cup left)
  BY DEF Places
<1>2. /\ NoneIn(freeInputs, i) => free = {}
      /\ OneIn(freeInputs, i) => \E p : free = {p}
  <2>3. NoneIn(freeInputs, i) => free = {}
    BY DEF NoneIn
  <2>4. ASSUME OneIn(freeInputs, i) PROVE \E p : free = {p}
    <3>1. PICK k \in DOMAIN freeInputs : freeInputs[k] = i /\ \A j \in DOMAIN freeInputs : freeInputs[j] = i => j = k
      BY <2>4 DEF OneIn
    <3>2. {j \in DOMAIN freeInputs : freeInputs[j] = i} = {k}
      BY <3>1
    <3>3. free = {<<"free", k>>}
      BY <3>2
    <3> QED
      BY <3>3
  <2> QED
    BY <2>3, <2>4
<1>3. /\ NoneIn(QueuedInputs, i) => fed = {}
      /\ OneIn(QueuedInputs, i) => \E p : fed = {p}
  <2>1. \A k \in DOMAIN queued : QueuedInputs[k] = queued[k].index
    BY DEF QueuedInputs
  <2>2. DOMAIN QueuedInputs = DOMAIN queued
    BY DEF QueuedInputs
  <2>3. NoneIn(QueuedInputs, i) => fed = {}
    BY <2>1, <2>2 DEF NoneIn
  <2>4. ASSUME OneIn(QueuedInputs, i) PROVE \E p : fed = {p}
    <3>1. PICK k \in DOMAIN QueuedInputs : QueuedInputs[k] = i /\ \A j \in DOMAIN QueuedInputs : QueuedInputs[j] = i => j = k
      BY <2>4 DEF OneIn
    <3>2. {j \in DOMAIN queued : queued[j].index = i} = {k}
      BY <2>1, <2>2, <3>1
    <3>3. fed = {<<"queued", k>>}
      BY <3>2
    <3> QED
      BY <3>3
  <2> QED
    BY <2>3, <2>4
<1>4. /\ NoneIn(inputCall, i) => called = {}
      /\ OneIn(inputCall, i) => \E p : called = {p}
  <2>3. NoneIn(inputCall, i) => called = {}
    BY DEF NoneIn
  <2>4. ASSUME OneIn(inputCall, i) PROVE \E p : called = {p}
    <3>1. PICK k \in DOMAIN inputCall : inputCall[k] = i /\ \A j \in DOMAIN inputCall : inputCall[j] = i => j = k
      BY <2>4 DEF OneIn
    <3>2. {j \in DOMAIN inputCall : inputCall[j] = i} = {k}
      BY <3>1
    <3>3. called = {<<"callback", k>>}
      BY <3>2
    <3> QED
      BY <3>3
  <2> QED
    BY <2>3, <2>4
<1>5. /\ i \notin unannounced => left = {}
      /\ i \in unannounced => \E p : left = {p}
  OBVIOUS
<1> HIDE DEF free, fed, called, left
<1>6. \E p : free \cup fed \cup called \cup left = {p}
  BY <1>2, <1>3, <1>4, <1>5 DEF Once
<1>7. \A p : Cardinality({p}) = 1
  BY FS_Singleton
<1> QED
  BY <1>1, <1>6, <1>7

\* While a session runs, each input buffer of its decoder is in one place: none is lost
\* or handed out twice, and none of a decoder that was released comes back, for any
\* number of sessions, frames and buffers, if callbacks return before the session after
\* theirs has begun (VideoStream.kt:209-210, 237-248, 281-284).
THEOREM BuffersAreKept == ASSUME QuickCallback PROVE Spec => []BuffersKept
<1>1. Init => KeptInv
  BY DEF Init, KeptInv, Running
<1>2. TypeInv /\ KeptInv /\ [Next]_vars => (TypeInv /\ KeptInv)'
  BY TypeStep, KeptStep
<1>3. KeptInv => BuffersKept
  BY OncePlace DEF KeptInv, BuffersKept, Running
<1>4. Init => TypeInv
  BY DecoderInit DEF DecoderInv
<1> QED
  BY <1>1, <1>2, <1>3, <1>4, PTL DEF Spec

-----------------------------------------------------------------------------
(* The threads around the sessions (TabletVideo): the decoder that the     *)
(* activity reaches, and the surface it renders to.                        *)

CONSTANTS Loops, Surfaces, SlowSurface, None

VARIABLES running, phase, codec, serverSocket, client, lpc, bound, socket, target, mpc, handle, host

Video == INSTANCE TabletVideo

Shown == Surfaces \cup {None}

VideoTypes ==
  /\ lpc \in [Loops -> Video!Where] /\ codec \in Loops \cup {None}
  /\ surface \in Shown /\ target \in [Loops -> Shown]
  /\ handle \in Loops \cup {None}

CodecInv == VideoTypes /\ Video!CodecLive

\* What concerns loop t if it is the only one: from the moment it has found a surface
\* no other comes before setSurface can reach its decoder, and then the decoder is on
\* the surface there is, or setSurface is about to read its field or has it in hand.
Rendering(t) ==
  /\ lpc[t] \in Video!Unreachable /\ surface # None => target[t] = surface
  /\ lpc[t] \in {"stream", "read"} =>
       /\ codec = t
       /\ \/ mpc = "surface"
          \/ mpc = "swap" /\ handle = t
          \/ surface # None => target[t] = surface

RenderingInv == \A t \in Loops : Rendering(t)

\* A loop moves on, and its decoder is not published.
LEMMA LoopMoves ==
  ASSUME VideoTypes, NEW t \in Loops, NEW to \in Video!Where, lpc' = [lpc EXCEPT ![t] = to]
  PROVE  /\ lpc' \in [Loops -> Video!Where] /\ lpc'[t] = to
         /\ \A u \in Loops : u # t => lpc'[u] = lpc[u]
  BY DEF VideoTypes

LEMMA CodecInit == ASSUME Video!TabletAssumption, Video!Init PROVE CodecInv
<1>1. VideoTypes
  BY DEF Video!Init, VideoTypes, Video!Where, Shown
<1> QED
  BY <1>1 DEF Video!Init, CodecInv, Video!CodecLive, Video!TabletAssumption

\* Steps of a loop outside of its streaming.
LEMMA CodecOutside ==
  ASSUME CodecInv, NEW t \in Loops, NEW to \in Video!Where, lpc' = [lpc EXCEPT ![t] = to],
         lpc[t] \notin {"stream", "read", "finally"}, VideoTypes', UNCHANGED codec
  PROVE  CodecInv'
  BY LoopMoves DEF CodecInv, Video!CodecLive

Outside(t) ==
  \/ Video!LoopTop(t) \/ Video!Bind(t) \/ Video!BindFails(t) \/ Video!Listen(t)
  \/ Video!Accept(t) \/ Video!AcceptFails(t) \/ Video!Accepted(t) \/ Video!LoopError(t)
  \/ Video!SessionOver(t) \/ Video!ReadHeader(t) \/ Video!HeaderFails(t)
  \/ Video!NoSurface(t)

LEMMA OutsideMoves ==
  ASSUME NEW t \in Loops, Outside(t)
  PROVE  /\ \E to \in Video!Where :
              /\ lpc' = [lpc EXCEPT ![t] = to]
              /\ to \notin {"configure", "publish", "stream", "read", "finally"}
         /\ lpc[t] \notin {"stream", "read", "finally"}
         /\ UNCHANGED <<codec, surface, target, mpc, handle>>
  BY DEF Outside, Video!Step, Video!Where, Video!fields, Video!main,
         Video!LoopTop, Video!Bind, Video!BindFails, Video!Listen, Video!Accept,
         Video!AcceptFails, Video!Accepted, Video!LoopError, Video!SessionOver,
         Video!ReadHeader, Video!HeaderFails, Video!NoSurface

\* Steps of a loop while its decoder is published.
Inside(t) == Video!StreamLoop(t) \/ Video!ReadFrame(t) \/ Video!ReadFails(t)

LEMMA InsideMoves ==
  ASSUME NEW t \in Loops, Inside(t)
  PROVE  /\ \E to \in {"stream", "read", "finally"} : lpc' = [lpc EXCEPT ![t] = to]
         /\ lpc[t] \in {"stream", "read"}
         /\ UNCHANGED <<codec, surface, target, mpc, handle>>
  BY DEF Inside, Video!Step, Video!fields, Video!main, Video!StreamLoop, Video!ReadFrame,
         Video!ReadFails

\* Steps that touch no loop and no decoder.
Around == Video!Stop \/ Video!StopCloses \/ Video!HostConnects \/ Video!HostLeaves
          \/ UNCHANGED Video!vars

LEMMA AroundKeeps ==
  ASSUME Around
  PROVE  /\ UNCHANGED <<lpc, codec, surface, target, handle>>
         /\ mpc' = mpc \/ (mpc \in {"idle", "stop"} /\ mpc' \in {"idle", "stop"})
  BY DEF Around, Video!Stop, Video!StopCloses, Video!HostConnects, Video!HostLeaves,
         Video!vars, Video!fields, Video!threads, Video!main

LEMMA VideoSplits ==
  ASSUME [Video!Next]_(Video!vars)
  PROVE  \/ \E t \in Loops : \/ Outside(t) \/ Inside(t) \/ Video!AwaitSurface(t)
                             \/ Video!ConfigureCodec(t) \/ Video!ConfigureFails(t)
                             \/ Video!PublishCodec(t) \/ Video!Unpublish(t)
                             \/ Video!ReleaseCodec(t)
         \/ Video!Start \/ Video!ReadCodec \/ Video!SwapSurface \/ Around
         \/ \E s \in Shown : Video!SetSurface(s)
  BY DEF Video!Next, Video!MainStep, Video!User, Video!Host, Video!LoopStep,
         Outside, Inside, Around, Shown

LEMMA CodecStep ==
  ASSUME Video!TabletAssumption, CodecInv, [Video!Next]_(Video!vars)
  PROVE  CodecInv'
<1>0. None \in Shown
  BY DEF Shown
<1>1. ASSUME NEW t \in Loops, Outside(t) PROVE CodecInv'
  <2>1. VideoTypes'
    BY <1>1, OutsideMoves, LoopMoves DEF CodecInv, VideoTypes
  <2> QED
    BY <1>1, <2>1, OutsideMoves, CodecOutside
<1>2. ASSUME NEW t \in Loops, Inside(t) PROVE CodecInv'
  <2>1. PICK to \in {"stream", "read", "finally"} : lpc' = [lpc EXCEPT ![t] = to]
    BY <1>2, InsideMoves
  <2>2. UNCHANGED <<codec, surface, target, handle>> /\ to \in Video!Where
    BY <1>2, <2>1, InsideMoves DEF Video!Where
  <2>3. VideoTypes'
    BY <2>1, <2>2, LoopMoves DEF CodecInv, VideoTypes
  <2>4. Video!CodecLive'
    BY <2>1, <2>2, LoopMoves DEF CodecInv, Video!CodecLive
  <2> QED
    BY <2>3, <2>4 DEF CodecInv
<1>3. ASSUME NEW t \in Loops,
             Video!AwaitSurface(t) \/ Video!ConfigureCodec(t) \/ Video!ConfigureFails(t)
      PROVE  CodecInv'
  <2>1. PICK to \in {"configure", "publish", "failed"} :
          /\ lpc[t] \in {"await", "configure"} /\ lpc' = [lpc EXCEPT ![t] = to]
    BY <1>3 DEF Video!AwaitSurface, Video!ConfigureCodec, Video!ConfigureFails, Video!Step
  <2>2. to \in Video!Where /\ UNCHANGED <<codec, surface, handle>>
    BY <1>3, <2>1 DEF Video!AwaitSurface, Video!ConfigureCodec, Video!ConfigureFails,
                      Video!fields, Video!main, Video!Where
  <2>3. target' \in [Loops -> Shown]
    BY <1>0, <1>3 DEF Video!AwaitSurface, Video!ConfigureCodec, Video!ConfigureFails,
                      CodecInv, VideoTypes
  <2>4. VideoTypes'
    BY <2>1, <2>2, <2>3, LoopMoves DEF CodecInv, VideoTypes
  <2> QED
    BY <2>1, <2>2, <2>4, CodecOutside
<1>4. ASSUME NEW t \in Loops, Video!PublishCodec(t) PROVE CodecInv'
  <2>1. /\ lpc[t] = "publish" /\ lpc' = [lpc EXCEPT ![t] = "stream"]
        /\ codec' = t /\ UNCHANGED <<surface, target, handle>>
    BY <1>4 DEF Video!PublishCodec, Video!Step, Video!main
  <2>2. "stream" \in Video!Where
    BY DEF Video!Where
  <2>3. VideoTypes'
    BY <2>1, <2>2, LoopMoves DEF CodecInv, VideoTypes
  <2>4. Video!CodecLive'
    BY <2>1, <2>2, LoopMoves DEF CodecInv, Video!CodecLive
  <2> QED
    BY <2>3, <2>4 DEF CodecInv
<1>5. ASSUME NEW t \in Loops, Video!Unpublish(t) \/ Video!ReleaseCodec(t) PROVE CodecInv'
  <2>1. PICK to \in {"release", "ended", "failed"} : lpc' = [lpc EXCEPT ![t] = to]
    BY <1>5 DEF Video!Unpublish, Video!ReleaseCodec, Video!Step
  <2>2. to \in Video!Where /\ surface' = surface /\ handle' \in {handle, None}
    BY <1>5, <2>1 DEF Video!Unpublish, Video!ReleaseCodec, Video!Where, Video!fields, Video!main
  <2>3. target' \in [Loops -> Shown]
    BY <1>0, <1>5 DEF Video!Unpublish, Video!ReleaseCodec, CodecInv, VideoTypes
  <2>4. codec' = None \/ (codec' = codec /\ lpc[t] = "release")
    BY <1>5 DEF Video!Unpublish, Video!ReleaseCodec, Video!Step, Video!fields
  <2>5. VideoTypes'
    BY <2>1, <2>2, <2>3, <2>4, LoopMoves DEF CodecInv, VideoTypes
  <2>6. CASE codec' = None
    BY <2>5, <2>6 DEF CodecInv, Video!CodecLive, Video!TabletAssumption
  <2>7. CASE codec' = codec /\ lpc[t] = "release"
    BY <2>1, <2>2, <2>5, <2>7, CodecOutside
  <2> QED
    BY <2>4, <2>6, <2>7
<1>6. CASE Video!Start
  <2>1. PICK t \in Loops : lpc[t] = "none" /\ lpc' = [lpc EXCEPT ![t] = "top"]
    BY <1>6 DEF Video!Start, Video!Step
  <2>2. UNCHANGED <<codec, surface, target, handle>> /\ "top" \in Video!Where
    BY <1>6 DEF Video!Start, Video!Where, Video!main
  <2>3. VideoTypes'
    BY <2>1, <2>2, LoopMoves DEF CodecInv, VideoTypes
  <2> QED
    BY <2>1, <2>2, <2>3, CodecOutside
<1>7. CASE Video!ReadCodec \/ Video!SwapSurface
  <2>1. UNCHANGED <<lpc, codec, surface>> /\ handle' \in {codec, None}
    BY <1>7 DEF Video!ReadCodec, Video!SwapSurface, Video!fields, Video!threads
  <2>2. target' \in [Loops -> Shown]
    BY <1>7 DEF Video!ReadCodec, Video!SwapSurface, Video!threads, CodecInv, VideoTypes
  <2>3. VideoTypes'
    BY <2>1, <2>2 DEF CodecInv, VideoTypes
  <2> QED
    BY <2>1, <2>3 DEF CodecInv, Video!CodecLive
<1>8. CASE Around
  BY <1>8, AroundKeeps DEF CodecInv, VideoTypes, Video!CodecLive
<1>9. ASSUME NEW s \in Shown, Video!SetSurface(s) PROVE CodecInv'
  BY <1>9 DEF Video!SetSurface, Video!threads, CodecInv, VideoTypes, Video!CodecLive
<1> QED
  BY <1>1, <1>2, <1>3, <1>4, <1>5, <1>6, <1>7, <1>8, <1>9, VideoSplits

\* For any number of loops and surfaces, and however the switch is flicked: the codec
\* field never names a decoder that is being stopped or released
\* (VideoStream.kt:123-125, 254-256).
THEOREM CodecsLive == ASSUME Video!TabletAssumption PROVE Video!Spec => []Video!CodecLive
<1>1. Video!Init => CodecInv
  BY CodecInit
<1>2. CodecInv /\ [Video!Next]_(Video!vars) => CodecInv'
  BY CodecStep
<1>3. CodecInv => Video!CodecLive
  BY DEF CodecInv
<1> QED
  BY <1>1, <1>2, <1>3, PTL DEF Video!Spec

\* The only loop in a session moves on: the others are out of every session.
LEMMA RenderingAlone ==
  ASSUME VideoTypes, Video!OneLoop, Video!OneLoop', NEW t \in Loops,
         NEW to \in Video!Where, to # "none", lpc' = [lpc EXCEPT ![t] = to], Rendering(t)'
  PROVE  RenderingInv'
<1> SUFFICES ASSUME NEW u \in Loops PROVE Rendering(u)'
  BY DEF RenderingInv
<1>1. CASE u = t
  BY <1>1
<1>2. CASE u # t
  <2>1. lpc'[t] # "none" /\ lpc'[u] = lpc[u]
    BY <1>2, LoopMoves
  <2>2. lpc'[u] = "none"
    BY <1>2, <2>1 DEF Video!OneLoop
  <2> QED
    BY <2>2 DEF Rendering, Video!Unreachable
<1> QED
  BY <1>1, <1>2

LEMMA RenderingStep ==
  ASSUME Video!TabletAssumption, SlowSurface = TRUE, CodecInv, RenderingInv,
         Video!OneLoop, Video!OneLoop', [Video!Next]_(Video!vars)
  PROVE  RenderingInv'
<1>0. VideoTypes
  BY DEF CodecInv
<1>1. ASSUME NEW t \in Loops, Outside(t) PROVE RenderingInv'
  <2>1. PICK to \in Video!Where :
          /\ lpc' = [lpc EXCEPT ![t] = to]
          /\ to \notin {"configure", "publish", "stream", "read", "finally"}
    BY <1>1, OutsideMoves
  <2>2. lpc'[t] = to /\ \A u \in Loops : u # t => lpc'[u] = lpc[u]
    BY <1>0, <2>1, LoopMoves
  <2>3. UNCHANGED <<codec, surface, target, mpc, handle>>
    BY <1>1, OutsideMoves
  <2> QED
    BY <2>1, <2>2, <2>3 DEF RenderingInv, Rendering, Video!Unreachable
<1>2. ASSUME NEW t \in Loops, Inside(t) PROVE RenderingInv'
  <2>1. PICK to \in {"stream", "read", "finally"} : lpc' = [lpc EXCEPT ![t] = to]
    BY <1>2, InsideMoves
  <2>2. to \in Video!Where
    BY <2>1 DEF Video!Where
  <2>3. lpc'[t] = to /\ \A u \in Loops : u # t => lpc'[u] = lpc[u]
    BY <1>0, <2>1, <2>2, LoopMoves
  <2>4. UNCHANGED <<codec, surface, target, mpc, handle>> /\ lpc[t] \in {"stream", "read"}
    BY <1>2, InsideMoves
  <2> QED
    BY <2>1, <2>3, <2>4 DEF RenderingInv, Rendering, Video!Unreachable
<1>3. ASSUME NEW t \in Loops,
             Video!AwaitSurface(t) \/ Video!ConfigureCodec(t) \/ Video!ConfigureFails(t)
      PROVE  RenderingInv'
  <2>1. PICK to \in {"configure", "publish", "failed"} : lpc' = [lpc EXCEPT ![t] = to]
    BY <1>3 DEF Video!AwaitSurface, Video!ConfigureCodec, Video!ConfigureFails, Video!Step
  <2>2. to \in Video!Where /\ surface' = surface
    BY <1>3, <2>1 DEF Video!AwaitSurface, Video!ConfigureCodec, Video!ConfigureFails,
                      Video!fields, Video!Where
  <2>3. lpc'[t] = to
    BY <1>0, <2>1, <2>2, LoopMoves
  <2>4. CASE Video!AwaitSurface(t)
    <3>1. target'[t] = surface'
      BY <1>0, <2>2, <2>4 DEF Video!AwaitSurface, VideoTypes
    <3>2. Rendering(t)'
      BY <2>1, <2>3, <3>1 DEF Rendering
    <3> QED
      BY <1>0, <2>1, <2>2, <3>2, RenderingAlone
  <2>5. CASE Video!ConfigureCodec(t)
    <3>1. lpc[t] = "configure" /\ target' = target
      BY <2>5 DEF Video!ConfigureCodec, Video!Step
    <3>2. Rendering(t)'
      BY <2>1, <2>2, <2>3, <3>1 DEF RenderingInv, Rendering, Video!Unreachable
    <3> QED
      BY <1>0, <2>1, <2>2, <3>2, RenderingAlone
  <2>6. CASE Video!ConfigureFails(t)
    <3>1. lpc'[t] = "failed"
      BY <1>0, <2>2, <2>3, <2>6 DEF Video!ConfigureFails, Video!Step, VideoTypes
    <3>2. Rendering(t)'
      BY <3>1 DEF Rendering, Video!Unreachable
    <3> QED
      BY <1>0, <2>1, <2>2, <3>2, RenderingAlone
  <2> QED
    BY <1>3, <2>4, <2>5, <2>6
<1>4. ASSUME NEW t \in Loops, Video!PublishCodec(t) PROVE RenderingInv'
  <2>1. /\ lpc[t] = "publish" /\ lpc' = [lpc EXCEPT ![t] = "stream"]
        /\ "stream" \in Video!Where /\ codec' = t
        /\ UNCHANGED <<surface, target, mpc, handle>>
    BY <1>4 DEF Video!PublishCodec, Video!Step, Video!Where, Video!main
  <2>2. surface # None => target[t] = surface
    BY <2>1 DEF RenderingInv, Rendering, Video!Unreachable
  <2>3. lpc'[t] = "stream"
    BY <1>0, <2>1, LoopMoves
  <2>4. Rendering(t)'
    BY <2>1, <2>2, <2>3 DEF Rendering, Video!Unreachable
  <2> QED
    BY <1>0, <2>1, <2>4, RenderingAlone
<1>5. ASSUME NEW t \in Loops, Video!Unpublish(t) \/ Video!ReleaseCodec(t)
      PROVE  RenderingInv'
  <2>1. PICK to \in {"release", "ended", "failed"} : lpc' = [lpc EXCEPT ![t] = to]
    BY <1>5 DEF Video!Unpublish, Video!ReleaseCodec, Video!Step
  <2>2. to \in Video!Where
    BY <2>1 DEF Video!Where
  <2>3. lpc'[t] = to
    BY <1>0, <2>1, <2>2, LoopMoves
  <2>4. Rendering(t)'
    BY <2>1, <2>3 DEF Rendering, Video!Unreachable
  <2> QED
    BY <1>0, <2>1, <2>2, <2>4, RenderingAlone
<1>6. CASE Video!Start
  <2>1. PICK t \in Loops : lpc' = [lpc EXCEPT ![t] = "top"]
    BY <1>6 DEF Video!Start, Video!Step
  <2>2. "top" \in Video!Where
    BY DEF Video!Where
  <2>3. lpc'[t] = "top"
    BY <1>0, <2>1, <2>2, LoopMoves
  <2>4. Rendering(t)'
    BY <2>3 DEF Rendering, Video!Unreachable
  <2> QED
    BY <1>0, <2>1, <2>2, <2>4, RenderingAlone
<1>7. CASE Video!ReadCodec
  <2>1. /\ mpc = "surface" /\ mpc' = (IF codec = None THEN "idle" ELSE "swap")
        /\ handle' = codec /\ UNCHANGED <<lpc, codec, surface, target>>
    BY <1>7 DEF Video!ReadCodec, Video!fields, Video!threads
  <2> QED
    BY <2>1 DEF RenderingInv, Rendering, Video!TabletAssumption
<1>8. CASE Video!SwapSurface
  <2>1. /\ mpc = "swap" /\ UNCHANGED <<lpc, codec, surface>>
        /\ IF handle = None THEN UNCHANGED target
                            ELSE target' = [target EXCEPT ![handle] = surface]
    BY <1>8 DEF Video!SwapSurface, Video!fields
  <2> SUFFICES ASSUME NEW t \in Loops PROVE Rendering(t)'
    BY DEF RenderingInv
  <2>2. target'[t] = target[t] \/ target'[t] = surface'
    BY <1>0, <2>1 DEF VideoTypes
  <2>3. handle = t => target'[t] = surface'
    BY <1>0, <2>1 DEF VideoTypes, Video!TabletAssumption
  <2> QED
    BY <2>1, <2>2, <2>3 DEF RenderingInv, Rendering
<1>9. CASE Around
  BY <1>9, AroundKeeps DEF RenderingInv, Rendering
<1>10. ASSUME NEW s \in Shown, Video!SetSurface(s) PROVE RenderingInv'
  <2>1. /\ mpc = "idle" /\ UNCHANGED <<lpc, codec, target, handle>> /\ surface' = s
        /\ s # None => /\ mpc' = "surface"
                       /\ \A t \in Loops : lpc[t] \notin Video!Unreachable
    BY <1>10 DEF Video!SetSurface, Video!threads
  <2> QED
    BY <2>1 DEF RenderingInv, Rendering
<1> QED
  BY <1>1, <1>2, <1>3, <1>4, <1>5, <1>6, <1>7, <1>8, <1>9, <1>10, VideoSplits

\* For any number of loops and surfaces: as long as there is one accept loop, and no
\* new surface comes between the return of awaitSurface and the publication of the
\* decoder (VideoStream.kt:190-213), a decoder renders to the surface there is,
\* whenever it changed and although its release may overtake a swap
\* (VideoStream.kt:108-128).
THEOREM SurfacesFollowed ==
  ASSUME Video!TabletAssumption, SlowSurface = TRUE
  PROVE  Video!Spec => Video!SurfaceFollowed
<1>1. Video!Init => CodecInv
  BY CodecInit
<1>2. CodecInv /\ [Video!Next]_(Video!vars) => CodecInv'
  BY CodecStep
<1>3. Video!Init => RenderingInv
  BY DEF Video!Init, RenderingInv, Rendering, Video!Unreachable
<1>4. CodecInv /\ RenderingInv /\ Video!OneLoop /\ Video!OneLoop' /\ [Video!Next]_(Video!vars)
        => RenderingInv'
  BY RenderingStep
<1>5. RenderingInv => Video!Followed
  BY DEF RenderingInv, Rendering, Video!Followed
<1> QED
  BY <1>1, <1>2, <1>3, <1>4, <1>5, PTL DEF Video!Spec, Video!SurfaceFollowed
=============================================================================
