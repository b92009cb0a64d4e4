------------------------ MODULE StreamSession_proofs ------------------------
(***************************************************************************)
(* Proofs about StreamSession for every queue size, link and tablet: the   *)
(* frames waiting on the host are bounded, the session implements the      *)
(* video channel, and acks are paired with the frames they acknowledge.    *)
(* At the end, about the session's sound (AudioPath) and clock             *)
(* (PacingLoop), of which it takes instances.                              *)
(***************************************************************************)
EXTENDS StreamSession, SequenceTheorems, FiniteSetTheorems, FunctionTheorems, TLAPS

-----------------------------------------------------------------------------
(* The backlog on the host.                                                *)

Waiting == Len(raw) + Len(encoding) + Len(coded) + Len(channel)

\* The bound is one lower from the moment the loop has emptied the channel to
\* its next capture: then only the pipeline's own places can be taken.
BacklogInv ==
  /\ raw \in Seq(Nat) /\ Len(raw) <= 1
  /\ encoding \in Seq(Nat) /\ Len(encoding) <= 1
  /\ coded \in Seq(Nat) /\ Len(coded) <= SinkCap
  /\ channel \in Seq(Nat)
  /\ index \in Nat
  /\ Waiting <= SinkCap + 3
  /\ pc \in {"check", "capture"} => Waiting <= SinkCap + 2
  /\ pc = "send" => channel # <<>>

LEMMA SinkCapType == SinkCap \in Nat
  BY SessionAssumption

LEMMA BacklogInit == Init => BacklogInv
<1> SUFFICES ASSUME Init PROVE BacklogInv
  OBVIOUS
<1>1. raw = <<>> /\ encoding = <<>> /\ coded = <<>> /\ channel = <<>> /\ index = 0
      /\ pc = "check"
  BY DEF Init
<1>2. Len(<<>>) = 0 /\ <<>> \in Seq(Nat) /\ 0 \in Nat
  OBVIOUS
<1>3. Waiting = 0
  BY <1>1, <1>2 DEF Waiting
<1> QED BY <1>1, <1>2, <1>3, SinkCapType DEF BacklogInv

\* Steps that touch none of the host's queues only need the program counter.
LEMMA BacklogFrame ==
  ASSUME BacklogInv, UNCHANGED <<raw, encoding, coded, channel, index>>,
         pc' \in {"check", "capture"} => pc \in {"check", "capture"},
         pc' = "send" => pc = "send" \/ channel # <<>>
  PROVE  BacklogInv'
  BY SinkCapType DEF BacklogInv, Waiting

LEMMA BacklogCapture == ASSUME BacklogInv, Capture PROVE BacklogInv'
<1>1. /\ raw' = <<index>>
      /\ UNCHANGED <<encoding, coded, channel>>
      /\ pc = "capture" /\ pc' = "audio"
  BY DEF Capture, Push
<1>2. raw' \in Seq(Nat) /\ Len(raw') = 1
  BY <1>1 DEF BacklogInv
<1>3. index' \in Nat
  BY DEF Capture, BacklogInv
<1>4. Waiting <= SinkCap + 2 /\ Len(raw) \in Nat /\ Len(encoding) \in Nat
      /\ Len(coded) \in Nat /\ Len(channel) \in Nat
  BY <1>1 DEF BacklogInv
<1>5. Waiting' <= SinkCap + 3
  BY <1>1, <1>2, <1>4, SinkCapType DEF Waiting
<1> QED BY <1>1, <1>2, <1>3, <1>5 DEF BacklogInv

LEMMA BacklogSendVideo == ASSUME BacklogInv, SendVideo PROVE BacklogInv'
<1>1. channel \in Seq(Nat) /\ channel # <<>>
  BY DEF BacklogInv, SendVideo
<1>2. channel' \in Seq(Nat) /\ Len(channel') = Len(channel) - 1 /\ Len(channel) \in Nat
  BY <1>1 DEF SendVideo
<1>3. UNCHANGED <<raw, encoding, coded, index>> /\ pc' \in {"video", "join"}
  BY DEF SendVideo, GoTo, EndLoop, pipeline
<1>4. Len(raw) \in Nat /\ Len(encoding) \in Nat /\ Len(coded) \in Nat
  BY DEF BacklogInv
<1>5. Waiting' <= SinkCap + 3
  BY <1>2, <1>3, <1>4, SinkCapType DEF Waiting, BacklogInv
<1> QED BY <1>2, <1>3, <1>5 DEF BacklogInv

\* The loop leaves the channel empty, so that only the pipeline holds frames.
LEMMA BacklogVideoSent == ASSUME BacklogInv, VideoSent PROVE BacklogInv'
<1>1. /\ UNCHANGED <<raw, encoding, coded, channel, index>>
      /\ channel = <<>> /\ pc' = "check"
  BY DEF VideoSent, GoTo, pipeline
<1>2. Len(raw) \in Nat /\ Len(encoding) \in Nat /\ Len(coded) \in Nat /\ Len(channel) = 0
  BY <1>1 DEF BacklogInv
<1>3. Len(raw) <= 1 /\ Len(encoding) <= 1 /\ Len(coded) <= SinkCap
  BY DEF BacklogInv
<1>4. Waiting' \in Nat /\ Waiting' <= SinkCap + 2
  BY <1>1, <1>2, <1>3, SinkCapType DEF Waiting
<1> QED BY <1>1, <1>4, SinkCapType DEF BacklogInv

LEMMA BacklogEncode == ASSUME BacklogInv, Encode PROVE BacklogInv'
<1>1. /\ encoding' = raw /\ raw' = <<>> /\ encoding = <<>>
      /\ UNCHANGED <<coded, channel, index, pc>>
  BY DEF Encode, loop
<1>2. Len(raw) \in Nat /\ Len(encoding) = 0 /\ Len(coded) \in Nat /\ Len(channel) \in Nat
      /\ raw' \in Seq(Nat) /\ Len(raw') = 0
  BY <1>1 DEF BacklogInv
<1>3. Waiting' = Waiting
  BY <1>1, <1>2 DEF Waiting
<1> QED BY <1>1, <1>2, <1>3 DEF BacklogInv

LEMMA BacklogEmit == ASSUME BacklogInv, Emit PROVE BacklogInv'
<1>1. /\ coded' = coded \o encoding /\ encoding' = <<>> /\ encoding # <<>>
      /\ Len(coded) < SinkCap
      /\ UNCHANGED <<raw, channel, index, pc>>
  BY DEF Emit, loop
<1>2. Len(raw) \in Nat /\ Len(encoding) \in Nat /\ Len(encoding) <= 1
      /\ Len(coded) \in Nat /\ Len(channel) \in Nat
      /\ encoding' \in Seq(Nat) /\ Len(encoding') = 0
  BY <1>1 DEF BacklogInv
<1>3. coded' \in Seq(Nat) /\ Len(coded') = Len(coded) + Len(encoding)
  BY <1>1 DEF BacklogInv
<1>4. Waiting' = Waiting /\ Len(coded') <= SinkCap
  BY <1>1, <1>2, <1>3, SinkCapType DEF Waiting
<1> QED BY <1>1, <1>2, <1>3, <1>4 DEF BacklogInv

LEMMA BacklogPipelineFails == ASSUME BacklogInv, PipelineFails PROVE BacklogInv'
<1>1. encoding' = <<>> /\ UNCHANGED <<raw, coded, channel, index, pc>>
  BY DEF PipelineFails, loop
<1>2. Len(raw) \in Nat /\ Len(encoding) \in Nat /\ Len(coded) \in Nat
      /\ Len(channel) \in Nat /\ encoding' \in Seq(Nat) /\ Len(encoding') = 0
  BY <1>1 DEF BacklogInv
<1>3. Waiting' <= Waiting /\ Waiting \in Nat /\ Waiting' \in Nat
  BY <1>1, <1>2 DEF Waiting
<1> QED BY <1>1, <1>2, <1>3, SinkCapType DEF BacklogInv

LEMMA BacklogDrain == ASSUME BacklogInv, Drain PROVE BacklogInv'
<1>1. /\ coded # <<>> /\ coded \in Seq(Nat) /\ channel \in Seq(Nat)
      /\ channel' = Append(channel, Head(coded)) /\ coded' = Tail(coded)
      /\ UNCHANGED <<raw, encoding, index, pc>>
  BY DEF Drain, loop, BacklogInv
<1>2. /\ coded' \in Seq(Nat) /\ Len(coded') = Len(coded) - 1 /\ Len(coded) \in Nat
      /\ channel' \in Seq(Nat) /\ Len(channel') = Len(channel) + 1 /\ Len(channel) \in Nat
  BY <1>1
<1>3. Len(raw) \in Nat /\ Len(encoding) \in Nat
  BY DEF BacklogInv
<1>4. Waiting' = Waiting
  BY <1>1, <1>2, <1>3 DEF Waiting
<1>5. channel' # <<>>
  BY <1>2
<1> QED BY <1>1, <1>2, <1>4, <1>5, SinkCapType DEF BacklogInv

LEMMA BacklogStep == BacklogInv /\ [Next]_vars => BacklogInv'
<1> SUFFICES ASSUME BacklogInv, [Next]_vars PROVE BacklogInv'
  OBVIOUS
<1>1. CASE UNCHANGED vars \/ Returned
  BY <1>1, BacklogFrame DEF Returned, vars, loop, pipeline
<1>2. CASE CheckShutdown \/ AudioSent \/ TakePacket \/ Joined
  BY <1>2, BacklogFrame
     DEF CheckShutdown, AudioSent, TakePacket, Joined, GoTo, EndLoop, pipeline
<1>3. CASE SendAudio
  BY <1>3, BacklogFrame DEF SendAudio, EndLoop, loop, pipeline
<1>4. CASE SendVideo \/ VideoSent
  BY <1>4, BacklogSendVideo, BacklogVideoSent
<1>5. CASE Capture \/ Encode \/ Emit \/ PipelineFails \/ Drain
  BY <1>5, BacklogCapture, BacklogEncode, BacklogEmit, BacklogPipelineFails, BacklogDrain
<1>6. CASE CaptureFails \/ Shutdown
  BY <1>6, BacklogFrame DEF CaptureFails, Shutdown, EndLoop, pipeline
<1>7. CASE DrainExit \/ AudioPacket \/ AudioExit \/ AckStep
  BY <1>7, BacklogFrame
     DEF DrainExit, AudioPacket, AudioExit, AckStep, AckExit, ReadAck, loop, pipeline
<1>8. CASE TabletStep \/ Disconnect
  BY <1>8, BacklogFrame
     DEF TabletStep, ReadAudio, ReadVideo, OutputBuffer, WriteAck, Disconnect, loop, pipeline
<1> QED
  BY <1>1, <1>2, <1>3, <1>4, <1>5, <1>6, <1>7, <1>8 DEF Next, LoopStep

\* Whatever the sizes of the queues and however the threads are scheduled, at
\* most SinkCap + 3 captured frames wait on the host: the unbounded channel of
\* run (session.rs:434) cannot pile up.
THEOREM BacklogCorrect == Spec => []BacklogBounded
<1>1. BacklogInv => BacklogBounded
  BY DEF BacklogInv, BacklogBounded, Waiting
<1>2. [Next /\ UNCHANGED setup]_<<setup, vars>> => [Next]_vars
  OBVIOUS
<1> QED BY <1>1, <1>2, BacklogInit, BacklogStep, PTL DEF Spec

-----------------------------------------------------------------------------
(* Queues laid end to end, and a run of neighbours lost from them.          *)

\* Whatever run of neighbours goes, the rest survives.
LEMMA LostRun ==
  ASSUME NEW S, NEW a \in Seq(S), NEW b \in Seq(S), NEW c \in Seq(S)
  PROVE  Channel!Survives(a \o c, a \o b \o c)
<1> DEFINE long == a \o b \o c
<1>1. /\ long \in Seq(S) /\ Len(long) = Len(a) + Len(b) + Len(c)
      /\ a \o c \in Seq(S) /\ Len(a \o c) = Len(a) + Len(c)
      /\ Len(a) \in Nat /\ Len(b) \in Nat /\ Len(c) \in Nat
  OBVIOUS
<1>2. \A i \in 1..Len(long) :
        long[i] = IF i <= Len(a) THEN a[i]
                  ELSE IF i <= Len(a) + Len(b) THEN b[i - Len(a)] ELSE c[i - Len(a) - Len(b)]
  OBVIOUS
<1>3. SubSeq(long, 1, Len(a)) = a
  <2>1. /\ SubSeq(long, 1, Len(a)) \in Seq(S) /\ Len(SubSeq(long, 1, Len(a))) = Len(a)
        /\ \A i \in 1..Len(a) : SubSeq(long, 1, Len(a))[i] = long[i]
    BY <1>1
  <2> QED  BY <1>1, <1>2, <2>1, SeqEqual
<1>4. SubSeq(long, Len(a) + Len(b) + 1, Len(long)) = c
  <2> DEFINE rest == SubSeq(long, Len(a) + Len(b) + 1, Len(long))
  <2>1. rest \in Seq(S) /\ Len(rest) = Len(c)
    BY <1>1
  <2>2. \A i \in 1..Len(c) : rest[i] = long[Len(a) + Len(b) + i]
    BY <1>1
  <2>3. \A i \in 1..Len(c) : rest[i] = c[i]
    BY <1>1, <1>2, <2>2
  <2> QED  BY <2>1, <2>3, SeqEqual
<1>5. Len(a) \in 0..Len(a \o c) /\ Len(long) - Len(a \o c) = Len(b)
  BY <1>1
<1>6. a \o c = SubSeq(long, 1, Len(a))
               \o SubSeq(long, Len(a) + (Len(long) - Len(a \o c)) + 1, Len(long))
  BY <1>3, <1>4, <1>5
<1>7. \A short : /\ Len(a) \in 0..Len(short) /\ Len(long) - Len(short) >= 0
                 /\ short = SubSeq(long, 1, Len(a))
                             \o SubSeq(long, Len(a) + (Len(long) - Len(short)) + 1, Len(long))
                 => Channel!Survives(short, long)
  <2> HIDE DEF long
  <2> QED  BY Zenon DEF Channel!Survives
<1>8. Len(long) - Len(a \o c) >= 0  BY <1>1, <1>5
<1> HIDE DEF long
<1>9. Channel!Survives(a \o c, long)  BY <1>5, <1>6, <1>7, <1>8, Zenon
<1> QED  BY <1>9 DEF long

\* The head of a queue, and the rest, before another queue.
LEMMA HeadTail ==
  ASSUME NEW S, NEW s \in Seq(S), s # <<>>, NEW x \in Seq(S)
  PROVE  /\ Head(s) \in S /\ Tail(s) \in Seq(S)
         /\ <<Head(s)>> \o Tail(s) = s
         /\ Head(s \o x) = Head(s) /\ Tail(s \o x) = Tail(s) \o x
<1>1. Head(s) \in S /\ Tail(s) \in Seq(S) /\ Len(s) \in Nat \ {0}  OBVIOUS
<1>2. <<Head(s)>> \o Tail(s) = s
  <2>1. <<Head(s)>> \in Seq(S)  BY <1>1
  <2>2. Len(<<Head(s)>> \o Tail(s)) = Len(s)  BY <1>1, <2>1
  <2>3. \A i \in 1..Len(s) : (<<Head(s)>> \o Tail(s))[i] = s[i]  BY <1>1, <2>1
  <2> QED  BY <1>1, <2>1, <2>2, <2>3, SeqEqual
<1>3. Head(s \o x) = Head(s)  BY <1>1
<1>4. Tail(s \o x) = Tail(s) \o x
  <2>1. s \o x \in Seq(S) /\ Len(s \o x) = Len(s) + Len(x) /\ Len(x) \in Nat /\ s \o x # <<>>
    BY <1>1
  <2>2. Len(Tail(s \o x)) = Len(Tail(s) \o x) /\ Tail(s \o x) \in Seq(S)
    BY <1>1, <2>1
  <2>3. \A i \in 1..Len(Tail(s \o x)) : Tail(s \o x)[i] = (Tail(s) \o x)[i]
    BY <1>1, <2>1
  <2> QED  BY <1>1, <2>2, <2>3, SeqEqual
<1> QED  BY <1>1, <1>2, <1>3, <1>4

Associates(T) == \A x, y, z \in T : x \o y \o z = x \o (y \o z)

\* Concatenation associates.
LEMMA Assoc == \A S : Associates(Seq(S))
  BY ConcatAssociative DEF Associates

SameTriple(x, y, z) == x \o y \o z = x \o (y \o z)

\* The same, in a form that can be instantiated at once.
LEMMA AssocAll == \A S : \A x, y, z \in Seq(S) : SameTriple(x, y, z)
  BY ConcatAssociative DEF SameTriple

\* Concatenations grouped to the right.
LEMMA Grouped ==
  ASSUME NEW S, NEW a \in Seq(S), NEW b \in Seq(S), NEW c \in Seq(S), NEW d \in Seq(S),
         NEW e \in Seq(S), NEW f \in Seq(S)
  PROVE  a \o b \o c \o d \o e \o f = a \o (b \o (c \o (d \o (e \o f))))
<1> DEFINE T == Seq(S)
           ab == a \o b
           abc == ab \o c
           abcd == abc \o d
           ef == e \o f
           def == d \o ef
           cdef == c \o def
<1>1. ab \in T /\ abc \in T /\ abcd \in T /\ ef \in T /\ def \in T /\ cdef \in T
      /\ a \in T /\ b \in T /\ c \in T /\ d \in T /\ e \in T /\ f \in T
  OBVIOUS
<1>2. Associates(T)  BY Assoc, Zenon
<1>3. abcd \o e \o f = abcd \o ef
  <2>1. abcd \in T /\ e \in T /\ f \in T  BY <1>1
  <2> HIDE DEF T, abcd
  <2> QED  BY <2>1, <1>2, Zenon DEF Associates
<1>4. abc \o d \o ef = abc \o def
  <2>1. abc \in T /\ d \in T /\ ef \in T  BY <1>1
  <2> HIDE DEF T, abc, ef
  <2> QED  BY <2>1, <1>2, Zenon DEF Associates
<1>5. ab \o c \o def = ab \o cdef
  <2>1. ab \in T /\ c \in T /\ def \in T  BY <1>1
  <2> HIDE DEF T, ab, def
  <2> QED  BY <2>1, <1>2, Zenon DEF Associates
<1>6. a \o b \o cdef = a \o (b \o cdef)
  <2>1. a \in T /\ b \in T /\ cdef \in T  BY <1>1
  <2> HIDE DEF T, cdef
  <2> QED  BY <2>1, <1>2, Zenon DEF Associates
<1> QED  BY <1>3, <1>4, <1>5, <1>6, Zenon

SameRow(a, b, c, d, e, f) ==
  a \o b \o c \o d \o e \o f = a \o (b \o (c \o (d \o (e \o f))))

LEMMA GroupedAll == \A S : \A a, b, c, d, e, f \in Seq(S) : SameRow(a, b, c, d, e, f)
  BY Grouped DEF SameRow

\* The head of a queue between two others is lost.
LEMMA LostHead ==
  ASSUME NEW S, NEW x \in Seq(S), NEW t \in Seq(S), t # <<>>, NEW y \in Seq(S)
  PROVE  Channel!Survives(x \o (Tail(t) \o y), x \o (t \o y))
<1> DEFINE T == Seq(S)
           h == <<Head(t)>>
           rest == Tail(t) \o y
<1>1. Head(t) \in S /\ Tail(t) \in T /\ h \o Tail(t) = t  BY HeadTail
<1>2. h \in T /\ rest \in T  BY <1>1
<1>3. h \o rest = t \o y
  <2> DEFINE tail == Tail(t)
  <2>1. Associates(T) /\ h \in T /\ tail \in T /\ y \in T  BY <1>1, <1>2, Assoc, Zenon
  <2> HIDE DEF T, h, tail
  <2>2. h \o tail \o y = h \o (tail \o y)  BY <2>1, Zenon DEF Associates
  <2> QED  BY <1>1, <2>2, Zenon DEF tail
<1>4. x \o h \o rest = x \o (h \o rest)
  <2>1. Associates(T) /\ x \in T /\ h \in T /\ rest \in T  BY <1>2, Assoc, Zenon
  <2> HIDE DEF T, h, rest
  <2> QED  BY <2>1, Zenon DEF Associates
<1>5. Channel!Survives(x \o rest, x \o h \o rest)
  <2> HIDE DEF h, rest
  <2> QED  BY <1>2, LostRun
<1> HIDE DEF h
<1> QED  BY <1>3, <1>4, <1>5, Zenon

\* The head of a queue moves to the end of the queue before it.
LEMMA HandOver ==
  ASSUME NEW S, NEW x \in Seq(S), NEW s \in Seq(S), NEW t \in Seq(S), t # <<>>
  PROVE  x \o (s \o <<Head(t)>>) \o Tail(t) = x \o s \o t
<1> DEFINE T == Seq(S)
           h == <<Head(t)>>
           tail == Tail(t)
           xs == x \o s
<1>1. Head(t) \in S /\ tail \in T /\ h \o tail = t  BY HeadTail
<1>2. h \in T /\ xs \in T /\ x \in T /\ s \in T  BY <1>1
<1>3. Associates(T)  BY Assoc, Zenon
<1> HIDE DEF T, h, tail
<1>4. x \o s \o h = x \o (s \o h)  BY <1>2, <1>3, Zenon DEF Associates
<1>5. xs \o h \o tail = xs \o (h \o tail)
  <2> HIDE DEF xs
  <2> QED  BY <1>1, <1>2, <1>3, Zenon DEF Associates
<1>6. x \o (s \o h) \o tail = x \o s \o t  BY <1>1, <1>4, <1>5, Zenon
<1> QED  BY <1>6 DEF h, tail

HandsOver(x, s, t) == x \o (s \o <<Head(t)>>) \o Tail(t) = x \o s \o t

LEMMA HandOverAll == \A S : \A x, s, t \in Seq(S) : t # <<>> => HandsOver(x, s, t)
  BY HandOver DEF HandsOver

\* All that comes first is lost.
LEMMA LostFirst ==
  ASSUME NEW S, NEW b \in Seq(S), NEW c \in Seq(S)
  PROVE  Channel!Survives(c, b \o c)
<1> DEFINE none == <<>>
<1>1. none \in Seq(S) /\ none \o c = c /\ none \o b = b  OBVIOUS
<1> HIDE DEF none
<1>2. Channel!Survives(none \o c, none \o b \o c)  BY <1>1, LostRun
<1> QED  BY <1>1, <1>2, Zenon

\* The head of the first queue is lost.
LEMMA LostHeadFirst ==
  ASSUME NEW S, NEW t \in Seq(S), t # <<>>, NEW y \in Seq(S)
  PROVE  Channel!Survives(Tail(t) \o y, t \o y)
<1> DEFINE none == <<>>
           c == Tail(t) \o y
           l == t \o y
<1>1. none \in Seq(S) /\ none \o c = c /\ none \o l = l  OBVIOUS
<1>2. Channel!Survives(none \o c, none \o l)
  <2> HIDE DEF none
  <2> QED  BY <1>1, LostHead
<1> HIDE DEF none, c, l
<1>3. Channel!Survives(c, l)  BY <1>1, <1>2, Zenon
<1> QED  BY <1>3 DEF c, l

\* One end of a queue moves to the end of the queue before it.
LEMMA Passes ==
  ASSUME NEW S, NEW s \in Seq(S), NEW t \in Seq(S), t # <<>>
  PROVE  (s \o <<Head(t)>>) \o Tail(t) = s \o t
<1> DEFINE none == <<>>
           sh == s \o <<Head(t)>>
<1>1. Head(t) \in S /\ Tail(t) \in Seq(S) /\ none \in Seq(S)  OBVIOUS
<1>2. none \o s = s /\ none \o sh = sh  BY <1>1
<1> HIDE DEF none
<1>3. HandsOver(none, s, t)  BY <1>1, HandOverAll, Zenon
<1> QED  BY <1>2, <1>3, Zenon DEF HandsOver

Moves(s, t) == (s \o <<Head(t)>>) \o Tail(t) = s \o t

LEMMA MovesAll == \A S : \A s, t \in Seq(S) : t # <<>> => Moves(s, t)
  BY Passes DEF Moves

TailOver(s, x) == s \o x # <<>> /\ Tail(s \o x) = Tail(s) \o x

\* The tail of two queues end to end.
LEMMA TailOverAll == \A S : \A s, x \in Seq(S) : s # <<>> => TailOver(s, x)
<1> SUFFICES ASSUME NEW S, NEW s \in Seq(S), NEW x \in Seq(S), s # <<>>
             PROVE  s \o x # <<>> /\ Tail(s \o x) = Tail(s) \o x
  BY DEF TailOver
<1>1. s \o x # <<>>  OBVIOUS
<1>2. Tail(s \o x) = Tail(s) \o x  BY HeadTail
<1> QED  BY <1>1, <1>2

\* A queue loses its head.
LEMMA LostHeadOf == ASSUME NEW S, NEW t \in Seq(S), t # <<>> PROVE Channel!Survives(Tail(t), t)
<1> DEFINE none == <<>>
           rest == Tail(t)
<1>1. none \in Seq(S) /\ rest \in Seq(S) /\ rest \o none = rest /\ t \o none = t  OBVIOUS
<1>2. Channel!Survives(rest \o none, t \o none)
  <2> HIDE DEF none
  <2> QED  BY <1>1, LostHeadFirst
<1> HIDE DEF none, rest
<1>3. Channel!Survives(rest, t)  BY <1>1, <1>2, Zenon
<1> QED  BY <1>3 DEF rest

\* The head of the last queue is lost.
LEMMA LostHeadLast ==
  ASSUME NEW S, NEW x \in Seq(S), NEW t \in Seq(S), t # <<>>
  PROVE  Channel!Survives(x \o Tail(t), x \o t)
<1> DEFINE none == <<>>
           rest == Tail(t)
<1>1. none \in Seq(S) /\ rest \in Seq(S) /\ rest \o none = rest /\ t \o none = t  OBVIOUS
<1>2. Channel!Survives(x \o (rest \o none), x \o (t \o none))
  <2> HIDE DEF none
  <2> QED  BY <1>1, LostHead
<1> HIDE DEF none, rest
<1>3. Channel!Survives(x \o rest, x \o t)  BY <1>1, <1>2, Zenon
<1> QED  BY <1>3 DEF rest

\* What is first in a sequence is what is left of it when the rest is lost.
LEMMA LostLast ==
  ASSUME NEW S, NEW a \in Seq(S), NEW b \in Seq(S)
  PROVE  Channel!Survives(a, a \o b)
<1> DEFINE none == <<>>
           l == a \o b
<1>1. none \in Seq(S) /\ a \o none = a /\ l \o none = l  OBVIOUS
<1>2. Channel!Survives(a \o none, l \o none)
  <2> HIDE DEF none
  <2> QED  BY <1>1, LostRun
<1> HIDE DEF none, l
<1>3. Channel!Survives(a, l)  BY <1>1, <1>2, Zenon
<1> QED  BY <1>3 DEF l

\* A sequence cut in two.
LEMMA CutAt ==
  ASSUME NEW S, NEW s \in Seq(S), NEW n \in Nat, n <= Len(s)
  PROVE  /\ SubSeq(s, 1, n) \in Seq(S) /\ Len(SubSeq(s, 1, n)) = n
         /\ SubSeq(s, n + 1, Len(s)) \in Seq(S) /\ Len(SubSeq(s, n + 1, Len(s))) = Len(s) - n
         /\ SubSeq(s, 1, n) \o SubSeq(s, n + 1, Len(s)) = s
<1> DEFINE a == SubSeq(s, 1, n)
           c == SubSeq(s, n + 1, Len(s))
<1>1. Len(s) \in Nat  OBVIOUS
<1>2. /\ a \in Seq(S) /\ Len(a) = n
      /\ \A i \in 1..n : a[i] = s[i]
  BY <1>1
<1>3. /\ c \in Seq(S) /\ Len(c) = Len(s) - n
      /\ \A i \in 1..(Len(s) - n) : c[i] = s[n + i]
  BY <1>1
<1> HIDE DEF a, c
<1>4. /\ a \o c \in Seq(S) /\ Len(a \o c) = Len(s)
      /\ \A i \in 1..Len(s) : (a \o c)[i] = s[i]
  <2>1. /\ a \o c \in Seq(S) /\ Len(a \o c) = Len(a) + Len(c)
        /\ \A i \in 1..(Len(a) + Len(c)) :
             (a \o c)[i] = IF i <= Len(a) THEN a[i] ELSE c[i - Len(a)]
    BY <1>2, <1>3, ConcatProperties, Zenon
  <2>2. Len(a) + Len(c) = Len(s)  BY <1>1, <1>2, <1>3
  <2>3. \A i \in 1..Len(s) : (a \o c)[i] = IF i <= n THEN a[i] ELSE c[i - n]
    BY <1>2, <2>1, <2>2, Zenon
  <2>4. \A i \in 1..Len(s) : IF i <= n THEN i \in 1..n
                             ELSE i - n \in 1..(Len(s) - n) /\ n + (i - n) = i
    BY <1>1
  <2>5. \A i \in 1..Len(s) : (a \o c)[i] = s[i]
    BY <1>2, <1>3, <2>3, <2>4, Zenon
  <2> QED  BY <2>1, <2>2, <2>5, Zenon
<1>5. a \o c = s  BY <1>4, SeqEqual
<1> QED  BY <1>2, <1>3, <1>5 DEF a, c

\* The rest of a sequence once its first part is gone.
LEMMA CutOff ==
  ASSUME NEW S, NEW a \in Seq(S), NEW c \in Seq(S)
  PROVE  SubSeq(a \o c, Len(a) + 1, Len(a \o c)) = c
<1> DEFINE l == a \o c
           r == SubSeq(l, Len(a) + 1, Len(l))
<1>1. Len(a) \in Nat /\ Len(c) \in Nat /\ l \in Seq(S) /\ Len(l) = Len(a) + Len(c)
  OBVIOUS
<1>2. \A i \in 1..Len(c) : l[Len(a) + i] = c[i]  OBVIOUS
<1> HIDE DEF l
<1>3. r \in Seq(S) /\ Len(r) = Len(c)
  BY <1>1
<1>4. \A i \in 1..Len(c) : r[i] = l[Len(a) + i]  BY <1>1
<1> HIDE DEF r
<1>5. r = c  BY <1>2, <1>3, <1>4, SeqEqual
<1> QED  BY <1>5 DEF r, l

LEMMA FirstPart ==
  \A S : \A a, c \in Seq(S) : \A i \in 1..Len(a) : (a \o c)[i] = a[i]
  OBVIOUS

\* The first of two queues end to end.
LEMMA FirstOf ==
  ASSUME NEW S, NEW s \in Seq(S), s # <<>>, NEW x \in Seq(S)
  PROVE  s \o x # <<>> /\ Tail(s \o x) = Tail(s) \o x /\ (s \o x)[1] = s[1]
<1>1. TailOver(s, x)  BY TailOverAll, Zenon
<1>2. 1 \in 1..Len(s)  OBVIOUS
<1>3. (s \o x)[1] = s[1]  BY <1>2, FirstPart
<1> QED  BY <1>1, <1>3 DEF TailOver

\* What survives, element by element.
LEMMA SurvivesAt ==
  ASSUME NEW S, NEW short \in Seq(S), NEW long \in Seq(S), Channel!Survives(short, long)
  PROVE  \E kept, lost \in Nat :
           /\ Len(long) = Len(short) + lost /\ kept <= Len(short)
           /\ \A i \in 1..Len(short) : short[i] = IF i <= kept THEN long[i] ELSE long[i + lost]
<1> DEFINE lost == Len(long) - Len(short)
<1>1. PICK kept \in 0..Len(short) :
        short = SubSeq(long, 1, kept) \o SubSeq(long, kept + lost + 1, Len(long))
  BY Zenon DEF Channel!Survives
<1>2. lost \in Nat /\ Len(long) \in Nat /\ Len(short) \in Nat
      /\ Len(long) = Len(short) + lost /\ kept \in Nat /\ kept <= Len(short)
  BY DEF Channel!Survives
<1> HIDE DEF lost
<1> DEFINE a == SubSeq(long, 1, kept)
           c == SubSeq(long, kept + lost + 1, Len(long))
<1>3. /\ a \in Seq(S) /\ Len(a) = kept
      /\ \A i \in 1..kept : a[i] = long[i]
  BY <1>2
<1>4. /\ c \in Seq(S) /\ Len(c) = Len(short) - kept
      /\ \A i \in 1..Len(c) : c[i] = long[kept + lost + i]
  BY <1>2
<1> HIDE DEF a, c
<1>5. short = a \o c  BY <1>1 DEF a, c
<1>6. \A i \in 1..Len(short) : short[i] = IF i <= kept THEN a[i] ELSE c[i - kept]
  BY <1>2, <1>3, <1>4, <1>5
<1>7. \A i \in 1..Len(short) : short[i] = IF i <= kept THEN long[i] ELSE long[i + lost]
  <2>1. \A i \in 1..Len(short) :
          IF i <= kept THEN i \in 1..kept
                       ELSE i - kept \in 1..Len(c) /\ kept + lost + (i - kept) = i + lost
    BY <1>2, <1>4
  <2> QED  BY <1>3, <1>4, <1>6, <2>1, Zenon
<1> QED  BY <1>2, <1>7

\* short lacks a run of long's elements, lost of them, after the first kept ones.
RunLost(short, long, kept, lost) ==
  /\ Len(long) = Len(short) + lost /\ kept <= Len(short)
  /\ \A i \in 1..Len(short) : short[i] = IF i <= kept THEN long[i] ELSE long[i + lost]

LEMMA SurvivesAll ==
  \A S : \A short, long \in Seq(S) :
    Channel!Survives(short, long) => \E kept, lost \in Nat : RunLost(short, long, kept, lost)
  BY SurvivesAt DEF RunLost

-----------------------------------------------------------------------------
(* The frames in flight, from the capture to the screen.                   *)

\* The places of the frames of video on the wire.
Videos(frames) == {i \in 1..Len(frames) : frames[i] = "video"}

\* A frame at the end of the wire adds to its frames of video if it is one.
LEMMA VideosAppend ==
  ASSUME NEW S, NEW w \in Seq(S), NEW stream \in S
  PROVE  /\ IsFiniteSet(Videos(w)) /\ Cardinality(Videos(w)) \in Nat
         /\ Cardinality(Videos(Append(w, stream)))
              = Cardinality(Videos(w)) + (IF stream = "video" THEN 1 ELSE 0)
<1>1. Len(w) \in Nat  OBVIOUS
<1>2. IsFiniteSet(1..Len(w))  BY <1>1, FS_Interval
<1>3. IsFiniteSet(Videos(w))  BY <1>2, FS_Subset DEF Videos
<1>4. CASE stream = "video"
  <2>1. Videos(Append(w, stream)) = Videos(w) \cup {Len(w) + 1}
    BY <1>1, <1>4 DEF Videos
  <2>2. Len(w) + 1 \notin Videos(w)  BY <1>1 DEF Videos
  <2>3. Cardinality(Videos(w) \cup {Len(w) + 1}) = Cardinality(Videos(w)) + 1
    BY <1>3, <2>2, FS_AddElement
  <2> QED  BY <1>3, <1>4, <2>1, <2>3, FS_CardinalityType
<1>5. CASE stream # "video"
  <2>1. Videos(Append(w, stream)) = Videos(w)  BY <1>1, <1>5 DEF Videos
  <2> QED  BY <1>3, <1>5, <2>1, FS_CardinalityType
<1> QED  BY <1>4, <1>5

\* A frame that leaves the head of the wire was one of them, or was not.
LEMMA VideosTail ==
  ASSUME NEW S, NEW w \in Seq(S), w # <<>>
  PROVE  /\ Cardinality(Videos(Tail(w)))
              = Cardinality(Videos(w)) - (IF Head(w) = "video" THEN 1 ELSE 0)
         /\ Head(w) = "video" => Cardinality(Videos(w)) > 0
<1> DEFINE late == Videos(w) \ {1}
           f == [i \in Videos(Tail(w)) |-> i + 1]
<1>1. Len(w) \in Nat \ {0} /\ Tail(w) \in Seq(S) /\ Len(Tail(w)) = Len(w) - 1
      /\ \A i \in 1..Len(Tail(w)) : Tail(w)[i] = w[i + 1]
  OBVIOUS
<1>2. IsFiniteSet(Videos(w)) /\ IsFiniteSet(Videos(Tail(w)))
      /\ Cardinality(Videos(w)) \in Nat /\ Cardinality(Videos(Tail(w))) \in Nat
  <2>1. IsFiniteSet(1..Len(w)) /\ IsFiniteSet(1..Len(Tail(w)))  BY <1>1, FS_Interval
  <2>2. Videos(w) \in SUBSET (1..Len(w)) /\ Videos(Tail(w)) \in SUBSET (1..Len(Tail(w)))
    BY DEF Videos
  <2>3. IsFiniteSet(Videos(w)) /\ IsFiniteSet(Videos(Tail(w)))  BY <2>1, <2>2, FS_Subset
  <2> QED  BY <2>3, FS_CardinalityType
<1>3. f \in Bijection(Videos(Tail(w)), late)
  <2>1. f \in [Videos(Tail(w)) -> late]  BY <1>1 DEF Videos
  <2>2. \A i, j \in Videos(Tail(w)) : f[i] = f[j] => i = j  BY <1>1 DEF Videos
  <2>3. \A i \in late : \E j \in Videos(Tail(w)) : f[j] = i
    <3> TAKE i \in late
    <3>1. i - 1 \in Videos(Tail(w))  BY <1>1 DEF Videos
    <3>2. f[i - 1] = i  BY <3>1 DEF Videos
    <3> QED  BY <3>1, <3>2
  <2> HIDE DEF f, late
  <2> QED  BY <2>1, <2>2, <2>3, Fun_IsBij
<1>4. Cardinality(late) = Cardinality(Videos(Tail(w)))
  <2> HIDE DEF f, late
  <2>1. ExistsBijection(Videos(Tail(w)), late)  BY <1>3 DEF ExistsBijection
  <2> QED  BY <1>2, <2>1, FS_Bijection
<1>5. Head(w) = "video" <=> 1 \in Videos(w)  BY <1>1 DEF Videos
<1>6. Cardinality(late) = IF 1 \in Videos(w) THEN Cardinality(Videos(w)) - 1
                                              ELSE Cardinality(Videos(w))
  BY <1>2, FS_RemoveElement
<1> HIDE DEF late, f
<1> QED  BY <1>2, <1>4, <1>5, <1>6

\* The queues of frames, and the wire.
FlowTypes ==
  /\ index \in Index
  /\ raw \in Seq(Index) /\ encoding \in Seq(Index) /\ coded \in Seq(Index)
  /\ channel \in Seq(Index) /\ video \in Seq(Index) /\ decoder \in Seq(Index)
  /\ wire \in Seq({"audio", "video"})

\* The wire holds as many frames of video as the model says what they are.
FlowInv == FlowTypes /\ Cardinality(Videos(wire)) = Len(video)

LEMMA FlowInit == Init => FlowInv
<1> SUFFICES ASSUME Init PROVE FlowInv  OBVIOUS
<1>1. Videos(<<>>) = {}  BY DEF Videos
<1>2. Cardinality(Videos(wire)) = 0  BY <1>1, FS_EmptySet DEF Init
<1>3. 0 \in Index /\ <<>> \in Seq(Index) /\ <<>> \in Seq({"audio", "video"}) /\ Len(<<>>) = 0
  BY SessionAssumption DEF Index
<1> QED  BY <1>2, <1>3 DEF Init, FlowInv, FlowTypes

\* A frame of video at the head of the wire is the first that is flying.
LEMMA HeadIsThere ==
  ASSUME FlowInv, wire # <<>>, Head(wire) = "video"
  PROVE  video # <<>>
<1>1. Cardinality(Videos(wire)) > 0  BY VideosTail DEF FlowInv, FlowTypes
<1> QED  BY <1>1 DEF FlowInv

\* A write keeps the frames of video and the wire in step.
LEMMA FlowWritten ==
  ASSUME FlowInv, NEW stream \in {"audio", "video"}, NEW frames \in Seq(Index),
         Len(frames) = (IF stream = "video" THEN 1 ELSE 0),
         Written(stream, frames), UNCHANGED <<raw, encoding, coded, index, decoder>>,
         channel' \in Seq(Index)
  PROVE  FlowInv'
<1> FlowTypes  BY DEF FlowInv
<1>1. CASE wire' = Append(wire, stream) /\ video' = video \o frames
  <2>1. video' \in Seq(Index) /\ Len(video') = Len(video) + Len(frames)
    <3>1. video \in Seq(Index)  BY DEF FlowTypes
    <3> QED  BY <1>1, <3>1, ConcatProperties
  <2>2. wire' \in Seq({"audio", "video"})  BY <1>1 DEF FlowTypes
  <2>3. wire \in Seq({"audio", "video"})  BY DEF FlowTypes
  <2>4. Cardinality(Videos(Append(wire, stream)))
          = Cardinality(Videos(wire)) + (IF stream = "video" THEN 1 ELSE 0)
    BY <2>3, VideosAppend
  <2>5. Cardinality(Videos(wire')) = Cardinality(Videos(wire)) + Len(frames)
    BY <1>1, <2>4
  <2> QED  BY <2>1, <2>2, <2>5 DEF FlowInv, FlowTypes
<1>2. CASE UNCHANGED <<wire, video>>
  BY <1>2 DEF FlowInv, FlowTypes
<1> QED  BY <1>1, <1>2 DEF Written

\* So does a read.
LEMMA FlowRead ==
  ASSUME FlowInv, ReadAudio \/ ReadVideo
  PROVE  FlowInv'
<1> FlowTypes  BY DEF FlowInv
<1>1. wire # <<>> /\ wire' = Tail(wire) /\ wire' \in Seq({"audio", "video"})
  <2>1. wire # <<>> /\ wire' = Tail(wire)  BY DEF ReadAudio, ReadVideo
  <2> QED  BY <2>1 DEF FlowTypes
<1>2. Cardinality(Videos(wire'))
        = Cardinality(Videos(wire)) - (IF Head(wire) = "video" THEN 1 ELSE 0)
  <2>1. wire \in Seq({"audio", "video"})  BY DEF FlowTypes
  <2>2. Cardinality(Videos(Tail(wire)))
          = Cardinality(Videos(wire)) - (IF Head(wire) = "video" THEN 1 ELSE 0)
    BY <1>1, <2>1, VideosTail
  <2> QED  BY <1>1, <2>2
<1>3. UNCHANGED <<index, raw, encoding, coded, channel>>
  BY DEF ReadAudio, ReadVideo, loop, pipeline
<1>4. CASE ReadAudio
  <2>1. UNCHANGED <<video, decoder>> /\ Head(wire) = "audio"
    BY <1>4 DEF ReadAudio, tablet
  <2> QED  BY <1>1, <1>2, <1>3, <2>1 DEF FlowInv, FlowTypes
<1>5. CASE ReadVideo
  <2>1. Head(wire) = "video" /\ video # <<>>  BY <1>1, <1>5, HeadIsThere DEF ReadVideo
  <2>2. video' = Tail(video) /\ video' \in Seq(Index) /\ Len(video') = Len(video) - 1
    BY <1>5, <2>1 DEF ReadVideo, FlowTypes
  <2>3. Head(video) \in Index  BY <2>1 DEF FlowTypes
  <2>4. decoder' = Append(decoder, Head(video)) \/ decoder' = decoder  BY <1>5 DEF ReadVideo
  <2>5. decoder' \in Seq(Index)
    <3>1. decoder \in Seq(Index)  BY DEF FlowTypes
    <3>2. Append(decoder, Head(video)) \in Seq(Index)  BY <2>3, <3>1, AppendProperties
    <3> QED  BY <2>4, <3>1, <3>2
  <2> QED  BY <1>1, <1>2, <1>3, <2>1, <2>2, <2>5 DEF FlowInv, FlowTypes
<1> QED  BY <1>4, <1>5

LEMMA FlowStep == FlowInv /\ BacklogInv /\ [Next]_vars => FlowInv'
<1> SUFFICES ASSUME FlowInv, BacklogInv, [Next]_vars PROVE FlowInv'  OBVIOUS
<1> FlowTypes  BY DEF FlowInv
<1> DEFINE Same == UNCHANGED <<index, raw, encoding, coded, channel, video, decoder, wire>>
<1>1. ASSUME Same PROVE FlowInv'
  BY <1>1 DEF FlowInv, FlowTypes
<1>2. CASE UNCHANGED vars \/ Returned \/ CheckShutdown \/ AudioSent \/ TakePacket \/ VideoSent
           \/ Joined \/ CaptureFails \/ Shutdown
  BY <1>1, <1>2
     DEF vars, Returned, CheckShutdown, AudioSent, TakePacket, VideoSent, Joined,
         CaptureFails, Shutdown, GoTo, EndLoop, loop, pipeline, socket, tablet
<1>3. CASE DrainExit \/ AudioPacket \/ AudioExit \/ AckStep \/ WriteAck
  BY <1>1, <1>3
     DEF DrainExit, AudioPacket, AudioExit, AckStep, AckExit, ReadAck, WriteAck,
         loop, pipeline, socket, tablet
<1>4. CASE SendAudio
  <2>1. UNCHANGED <<raw, encoding, coded, index, channel, decoder>> /\ channel' \in Seq(Index)
    BY <1>4 DEF SendAudio, EndLoop, loop, pipeline, tablet, FlowTypes
  <2>2. CASE Written("audio", <<>>)
    <3>1. <<>> \in Seq(Index) /\ Len(<<>>) = (IF "audio" = "video" THEN 1 ELSE 0)  OBVIOUS
    <3>2. UNCHANGED <<raw, encoding, coded, index, decoder>> /\ channel' \in Seq(Index)
      BY <2>1
    <3> QED  BY <2>2, <3>1, <3>2, FlowWritten, Zenon
  <2>3. CASE UNCHANGED socket  BY <1>1, <2>1, <2>3 DEF socket
  <2> QED  BY <1>4, <2>2, <2>3 DEF SendAudio
<1>5. CASE SendVideo
  <2>1. UNCHANGED <<raw, encoding, coded, index, decoder>> /\ channel # <<>>
        /\ channel' = Tail(channel)
    BY <1>5 DEF SendVideo, EndLoop, GoTo, pipeline, tablet, BacklogInv
  <2>2. channel' \in Seq(Index) /\ Head(channel) \in Index  BY <2>1 DEF FlowTypes
  <2>3. CASE Written("video", <<Head(channel)>>)
    <3>1. <<Head(channel)>> \in Seq(Index) /\ Len(<<Head(channel)>>) = 1  BY <2>2
    <3> QED  BY <2>1, <2>2, <2>3, <3>1, FlowWritten
  <2>4. CASE UNCHANGED socket
    BY <2>1, <2>2, <2>4 DEF socket, FlowInv, FlowTypes
  <2> QED  BY <1>5, <2>3, <2>4 DEF SendVideo
<1>6. CASE Capture
  <2>1. <<index>> \in Seq(Index)  BY DEF FlowTypes
  <2>2. index' \in Index  BY <1>6, SessionAssumption DEF Capture, FlowTypes, Index, Numbered
  <2> QED  BY <1>6, <2>1, <2>2 DEF Capture, Push, FlowInv, FlowTypes, socket, tablet
<1>7. CASE Encode \/ Emit \/ PipelineFails
  <2>1. UNCHANGED <<index, channel, video, decoder, wire>>
    BY <1>7 DEF Encode, Emit, PipelineFails, loop, socket, tablet
  <2>2. /\ raw' = raw \/ raw' = <<>>
        /\ encoding' = raw \/ encoding' = <<>>
        /\ coded' = coded \/ coded' = coded \o encoding
    BY <1>7 DEF Encode, Emit, PipelineFails
  <2>3. raw' \in Seq(Index) /\ encoding' \in Seq(Index) /\ coded' \in Seq(Index)
    <3>1. <<>> \in Seq(Index)  OBVIOUS
    <3>2. raw \in Seq(Index) /\ encoding \in Seq(Index) /\ coded \in Seq(Index)
      BY DEF FlowTypes
    <3>3. coded \o encoding \in Seq(Index)  BY <3>2, ConcatProperties
    <3> QED  BY <2>2, <3>1, <3>2, <3>3
  <2> QED  BY <2>1, <2>3 DEF FlowInv, FlowTypes
<1>8. CASE Drain
  <2>1. UNCHANGED <<index, raw, encoding, video, decoder, wire>>
    BY <1>8 DEF Drain, loop, socket, tablet
  <2>2. Head(coded) \in Index /\ coded' \in Seq(Index)  BY <1>8 DEF Drain, FlowTypes
  <2>3. channel' \in Seq(Index)  BY <1>8, <2>2 DEF Drain, FlowTypes
  <2> QED  BY <2>1, <2>2, <2>3 DEF FlowInv, FlowTypes
<1>9. CASE ReadAudio \/ ReadVideo  BY <1>9, FlowRead
<1>10. CASE OutputBuffer
  <2>1. UNCHANGED <<index, raw, encoding, coded, channel, video, wire>>
    BY <1>10 DEF OutputBuffer, loop, pipeline, socket
  <2>2. decoder' \in Seq(Index)  BY <1>10 DEF OutputBuffer, FlowTypes
  <2> QED  BY <2>1, <2>2 DEF FlowInv, FlowTypes
<1>11. CASE Disconnect
  <2>1. UNCHANGED <<index, raw, encoding, coded, channel>> /\ wire' = <<>> /\ video' = <<>>
        /\ decoder' = <<>>
    BY <1>11 DEF Disconnect, loop, pipeline
  <2>2. Videos(<<>>) = {}  BY DEF Videos
  <2>3. Cardinality(Videos(wire')) = 0  BY <2>1, <2>2, FS_EmptySet
  <2> QED  BY <2>1, <2>3 DEF FlowInv, FlowTypes
<1> QED
  BY <1>2, <1>3, <1>4, <1>5, <1>6, <1>7, <1>8, <1>9, <1>10, <1>11
     DEF Next, LoopStep, TabletStep

\* The frames in flight, as the channel sees them.
Flight == decoder \o video \o channel \o coded \o encoding \o raw

\* The frames on the host.
Host == channel \o (coded \o (encoding \o raw))

Parts ==
  /\ Host \in Seq(Index) /\ video \o Host \in Seq(Index)
  /\ Flight = decoder \o (video \o Host)
  /\ Flight = decoder \o video \o Host

\* The flight, grouped as the steps of the tablet and the socket see it.
LEMMA FlightParts == FlowTypes => Parts
<1> SUFFICES ASSUME FlowTypes PROVE Parts  OBVIOUS
<1>1. /\ decoder \in Seq(Index) /\ video \in Seq(Index) /\ channel \in Seq(Index)
      /\ coded \in Seq(Index) /\ encoding \in Seq(Index) /\ raw \in Seq(Index)
  BY DEF FlowTypes
<1>2. Flight = decoder \o (video \o Host)
  <2>1. SameRow(decoder, video, channel, coded, encoding, raw)
    BY <1>1, GroupedAll, Zenon
  <2> QED  BY <2>1, Zenon DEF SameRow, Flight, Host
<1>3. encoding \o raw \in Seq(Index)  BY <1>1, ConcatProperties
<1>4. coded \o (encoding \o raw) \in Seq(Index)  BY <1>1, <1>3, ConcatProperties
<1>5. Host \in Seq(Index)  BY <1>1, <1>4, ConcatProperties DEF Host
<1>6. video \o Host \in Seq(Index)  BY <1>1, <1>5, ConcatProperties
<1>7. decoder \o video \o Host = decoder \o (video \o Host)
  <2> DEFINE T == Seq(Index)
  <2>1. Associates(T)  BY Assoc, Zenon
  <2>2. decoder \in T /\ video \in T /\ Host \in T  BY <1>1, <1>5
  <2> HIDE DEF T
  <2> QED  BY <2>1, <2>2, Zenon DEF Associates
<1> QED  BY <1>2, <1>5, <1>6, <1>7, Zenon DEF Parts

\* What a step of the session is to the channel: a loss.
Loses == Channel!Survives(Flight', Flight) /\ UNCHANGED shown

\* A capture is a capture, which may cost the frame that waited in appsrc.
LEMMA MapsCapture == ASSUME FlowInv, Capture PROVE \E f \in Index : Channel!Capture(f)
<1> DEFINE x == decoder \o video \o channel \o coded \o encoding
<1>1. x \in Seq(Index) /\ raw \in Seq(Index) /\ index \in Index /\ <<>> \in Seq(Index)
  BY DEF FlowInv, FlowTypes
<1>2. raw' = <<index>> /\ UNCHANGED <<decoder, video, channel, coded, encoding, shown>>
  BY DEF Capture, Push, socket, tablet
<1>3. Flight' = x \o <<index>> /\ Flight = x \o raw  BY <1>2 DEF Flight
<1> HIDE DEF x
<1>4. Flight' = Append(x, index)  BY <1>1, <1>3, AppendIsConcat
<1>5. Len(Flight') = Len(x) + 1 /\ SubSeq(Flight', 1, Len(x)) = x /\ Len(x) \in Nat
  BY <1>1, <1>4
<1>6. SubSeq(Flight', 1, Len(Flight') - 1) = x  BY <1>5
<1>7. Channel!Survives(x \o <<>>, x \o raw \o <<>>)  BY <1>1, LostRun
<1>8. x \o <<>> = x /\ x \o raw \o <<>> = x \o raw  BY <1>1
<1>9. Channel!Survives(x, Flight)  BY <1>3, <1>7, <1>8
<1> QED  BY <1>1, <1>2, <1>4, <1>6, <1>9 DEF Channel!Capture, Flight

\* The pipeline moves frames on.
LEMMA MapsEncode == ASSUME FlowInv, Encode \/ Emit PROVE UNCHANGED <<Flight, shown>>
<1> DEFINE x == decoder \o video \o channel
           y == x \o coded
<1>1. x \in Seq(Index) /\ y \in Seq(Index) /\ raw \in Seq(Index) /\ coded \in Seq(Index)
      /\ encoding \in Seq(Index)
  BY DEF FlowInv, FlowTypes
<1>2. UNCHANGED <<decoder, video, channel, shown>>
  BY DEF Encode, Emit, socket, tablet
<1>3. Flight = y \o encoding \o raw /\ Flight = x \o coded \o encoding \o raw  BY DEF Flight
<1>4. CASE Encode
  <2>1. encoding = <<>> /\ encoding' = raw /\ raw' = <<>> /\ coded' = coded
    BY <1>4 DEF Encode
  <2>2. Flight' = y \o raw \o <<>>  BY <1>2, <2>1 DEF Flight
  <2> HIDE DEF y, x
  <2>3. y \o raw \o <<>> = y \o <<>> \o raw  BY <1>1
  <2> QED  BY <1>2, <1>3, <2>1, <2>2, <2>3
<1>5. CASE Emit
  <2>1. encoding' = <<>> /\ raw' = raw /\ coded' = coded \o encoding
    BY <1>5 DEF Emit
  <2>2. Flight' = x \o (coded \o encoding) \o <<>> \o raw  BY <1>2, <2>1 DEF Flight
  <2> HIDE DEF y, x
  <2>3. SameTriple(x, coded, encoding)  BY <1>1, AssocAll, Zenon
  <2>4. x \o (coded \o encoding) \o <<>> = x \o (coded \o encoding)  BY <1>1
  <2> QED  BY <1>2, <1>3, <2>1, <2>2, <2>3, <2>4, Zenon DEF SameTriple
<1> QED  BY <1>4, <1>5

\* A failing pipeline loses the frame in it.
LEMMA MapsPipelineFails == ASSUME FlowInv, PipelineFails PROVE Loses
<1> DEFINE x == decoder \o video \o channel \o coded
<1>1. x \in Seq(Index) /\ raw \in Seq(Index) /\ encoding \in Seq(Index)
  BY DEF FlowInv, FlowTypes
<1>2. encoding' = <<>> /\ UNCHANGED <<decoder, video, channel, coded, raw, shown>>
  BY DEF PipelineFails, socket, tablet
<1>3. Flight = x \o encoding \o raw /\ Flight' = x \o <<>> \o raw  BY <1>2 DEF Flight
<1> HIDE DEF x
<1>4. x \o <<>> = x  BY <1>1
<1>5. Channel!Survives(x \o raw, x \o encoding \o raw)  BY <1>1, LostRun
<1> QED  BY <1>2, <1>3, <1>4, <1>5, Zenon DEF Loses

\* The drain thread moves frames on.
LEMMA MapsDrain == ASSUME FlowInv, Drain PROVE UNCHANGED <<Flight, shown>>
<1> DEFINE x == decoder \o video
<1>1. x \in Seq(Index) /\ channel \in Seq(Index) /\ coded \in Seq(Index) /\ coded # <<>>
  BY DEF FlowInv, FlowTypes, Drain
<1>2. /\ channel' = Append(channel, Head(coded)) /\ coded' = Tail(coded)
      /\ UNCHANGED <<decoder, video, encoding, raw, shown>>
  BY DEF Drain, socket, tablet
<1>3. channel' = channel \o <<Head(coded)>>
  <2>1. Head(coded) \in Index  BY <1>1
  <2> QED  BY <1>1, <1>2, <2>1, AppendIsConcat
<1>4. x \o (channel \o <<Head(coded)>>) \o Tail(coded) = x \o channel \o coded
  <2> HIDE DEF x
  <2> QED  BY <1>1, HandOver
<1> QED  BY <1>2, <1>3, <1>4, Zenon DEF Flight

\* The tablet moves a frame on, or drops it for want of an input buffer.
LEMMA MapsReadVideo ==
  ASSUME FlowInv, FlowTypes', ReadVideo PROVE UNCHANGED <<Flight, shown>> \/ Loses
<1>1. /\ decoder \in Seq(Index) /\ video \in Seq(Index) /\ channel \in Seq(Index)
      /\ Parts /\ Parts'
  <2>1. Parts'  BY FlightParts, PTL
  <2> QED  BY <2>1, FlightParts DEF FlowInv, FlowTypes
<1>2. video # <<>>  BY HeadIsThere DEF ReadVideo
<1>3. video' = Tail(video) /\ UNCHANGED <<channel, coded, encoding, raw, shown>>
  BY DEF ReadVideo, loop, pipeline
<1>4. Host' = Host  BY <1>3 DEF Host
<1>5. CASE decoder' = Append(decoder, Head(video))
  <2>1. Head(video) \in Index /\ Tail(video) \in Seq(Index) BY <1>1, <1>2
  <2>2. decoder' = decoder \o <<Head(video)>>  BY <1>1, <1>5, <2>1, AppendIsConcat
  <2>3. <<>> \o (decoder \o <<Head(video)>>) \o Tail(video) = <<>> \o decoder \o video
    BY <1>1, <1>2, HandOver
  <2>4. <<>> \o decoder = decoder /\ <<>> \o (decoder \o <<Head(video)>>) = decoder \o <<Head(video)>>
    BY <1>1, <2>1
  <2>5. decoder' \o video' = decoder \o video  BY <1>3, <2>2, <2>3, <2>4, Zenon
  <2> QED  BY <1>3, <2>5, Zenon DEF Flight
<1>6. CASE decoder' = decoder
  <2>1. Host \in Seq(Index)  BY <1>1 DEF Parts
  <2>2. Channel!Survives(decoder \o (Tail(video) \o Host), decoder \o (video \o Host))
    BY <1>1, <1>2, <2>1, LostHead
  <2>3. Flight = decoder \o (video \o Host) /\ Flight' = decoder \o (Tail(video) \o Host)
    BY <1>1, <1>3, <1>4, <1>6, Zenon DEF Parts
  <2> QED  BY <1>3, <2>2, <2>3, Zenon DEF Loses
<1> QED  BY <1>5, <1>6 DEF ReadVideo

\* A frame is sent, or lost to a connection that is gone.
LEMMA MapsSendVideo ==
  ASSUME FlowInv, FlowTypes', BacklogInv, SendVideo PROVE UNCHANGED <<Flight, shown>> \/ Loses
<1>1. /\ decoder \in Seq(Index) /\ video \in Seq(Index) /\ channel \in Seq(Index)
      /\ coded \in Seq(Index) /\ encoding \in Seq(Index) /\ raw \in Seq(Index)
  BY DEF FlowInv, FlowTypes
<1>2. channel # <<>> /\ channel' = Tail(channel) /\ UNCHANGED <<coded, encoding, raw, decoder, shown>>
  BY DEF SendVideo, BacklogInv, pipeline, tablet
<1>3. CASE video' = video \o <<Head(channel)>>
  <2>1. decoder \o (video \o <<Head(channel)>>) \o Tail(channel) = decoder \o video \o channel
    <3>1. HandsOver(decoder, video, channel)  BY <1>1, <1>2, HandOverAll, Zenon
    <3> QED  BY <3>1 DEF HandsOver
  <2> QED  BY <1>2, <1>3, <2>1, Zenon DEF Flight
<1>4. CASE video' = video
  <2> DEFINE x == decoder \o video
             y == coded \o (encoding \o raw)
  <2>1. Parts /\ Parts'
    <3>1. Parts'  BY FlightParts, PTL
    <3> QED  BY <3>1, FlightParts DEF FlowInv
  <2>2. Flight = x \o (channel \o y) /\ Flight' = x \o (Tail(channel) \o y)
    BY <1>2, <1>4, <2>1, Zenon DEF Parts, Host
  <2>3. x \in Seq(Index) /\ y \in Seq(Index)
    <3>1. encoding \o raw \in Seq(Index)  BY <1>1, ConcatProperties
    <3> QED  BY <1>1, <3>1, ConcatProperties
  <2> HIDE DEF x, y
  <2>4. Channel!Survives(x \o (Tail(channel) \o y), x \o (channel \o y))
    BY <1>1, <1>2, <2>3, LostHead
  <2> QED  BY <1>2, <2>2, <2>4, Zenon DEF Loses
<1> QED  BY <1>3, <1>4 DEF SendVideo, Written, socket

\* A frame is shown, or released without a surface.
LEMMA MapsOutputBuffer ==
  ASSUME FlowInv, FlowTypes', OutputBuffer PROVE Channel!Show \/ Loses
<1> DEFINE y == video \o Host
<1>1. /\ decoder \in Seq(Index) /\ decoder # <<>> /\ y \in Seq(Index) /\ Parts /\ Parts'
  <2>1. Parts'  BY FlightParts, PTL
  <2>2. Parts  BY FlightParts DEF FlowInv
  <2> QED  BY <2>1, <2>2 DEF FlowInv, FlowTypes, Parts, OutputBuffer
<1>2. decoder' = Tail(decoder) /\ UNCHANGED <<video, channel, coded, encoding, raw>>
  BY DEF OutputBuffer, pipeline, socket
<1>3. Flight = decoder \o y /\ Flight' = Tail(decoder) \o y
  <2>1. Host' = Host  BY <1>2 DEF Host
  <2> QED  BY <1>1, <1>2, <2>1, Zenon DEF Parts
<1> HIDE DEF y
<1>4. /\ Head(decoder) \in Index /\ Tail(decoder) \in Seq(Index)
      /\ Head(decoder \o y) = Head(decoder) /\ Tail(decoder \o y) = Tail(decoder) \o y
  BY <1>1, HeadTail
<1>5. CASE shown' = Head(decoder)
  <2>1. Flight # <<>>  BY <1>1, <1>3
  <2>2. shown' = Head(Flight) /\ Flight' = Tail(Flight)  BY <1>3, <1>4, <1>5
  <2> QED  BY <2>1, <2>2 DEF Channel!Show, Flight
<1>6. CASE shown' = shown
  <2>1. Channel!Survives(Tail(decoder) \o y, decoder \o y)  BY <1>1, LostHeadFirst
  <2> QED  BY <1>3, <1>6, <2>1, Zenon DEF Loses
<1> QED  BY <1>5, <1>6 DEF OutputBuffer

\* A disconnect loses all that is under way to the screen.
LEMMA MapsDisconnect ==
  ASSUME FlowInv, FlowTypes', Disconnect PROVE Loses
<1>1. /\ decoder \in Seq(Index) /\ video \in Seq(Index) /\ Host \in Seq(Index) /\ Parts /\ Parts'
  <2>1. Parts'  BY FlightParts, PTL
  <2>2. Parts  BY FlightParts DEF FlowInv
  <2> QED  BY <2>1, <2>2 DEF FlowInv, FlowTypes, Parts
<1>2. decoder' = <<>> /\ video' = <<>> /\ UNCHANGED <<channel, coded, encoding, raw, shown>>
  BY DEF Disconnect, pipeline
<1> DEFINE x == decoder \o video
<1>3. Flight = x \o Host /\ Flight' = <<>> \o <<>> \o Host
  <2>1. Host' = Host  BY <1>2 DEF Host
  <2> QED  BY <1>1, <1>2, <2>1, Zenon DEF Parts
<1>4. x \in Seq(Index)  BY <1>1, ConcatProperties
<1> HIDE DEF x
<1>5. Channel!Survives(Host, x \o Host)  BY <1>1, <1>4, LostFirst
<1>6. <<>> \o <<>> \o Host = Host  BY <1>1
<1> QED  BY <1>2, <1>3, <1>5, <1>6, Zenon DEF Loses

\* Every step of the session is a step of the channel, or none.
LEMMA MapsStep ==
  FlowInv /\ FlowTypes' /\ BacklogInv /\ [Next]_vars => [Channel!Next]_<<Flight, shown>>
<1> SUFFICES ASSUME FlowInv, FlowTypes', BacklogInv, [Next]_vars
             PROVE  Channel!Next \/ UNCHANGED <<Flight, shown>>
  OBVIOUS
<1>1. ASSUME Loses PROVE Channel!Next
  BY <1>1 DEF Loses, Channel!Next, Channel!Lose, Flight
<1>2. CASE UNCHANGED <<decoder, video, channel, coded, encoding, raw, shown>>
  BY <1>2 DEF Flight
<1>3. CASE UNCHANGED vars \/ Returned \/ CheckShutdown \/ AudioSent \/ TakePacket \/ VideoSent
           \/ Joined \/ CaptureFails \/ Shutdown
  BY <1>2, <1>3
     DEF vars, Returned, CheckShutdown, AudioSent, TakePacket, VideoSent, Joined,
         CaptureFails, Shutdown, pipeline, socket, tablet
<1>4. CASE DrainExit \/ AudioPacket \/ AudioExit \/ AckStep \/ WriteAck \/ ReadAudio
  BY <1>2, <1>4
     DEF DrainExit, AudioPacket, AudioExit, AckStep, AckExit, ReadAck, WriteAck, ReadAudio,
         pipeline, socket, tablet
<1>5. CASE SendAudio
  <2>1. UNCHANGED <<decoder, channel, coded, encoding, raw, shown>>
    BY <1>5 DEF SendAudio, pipeline, tablet
  <2>2. video' = video \/ video' = video \o <<>>
    BY <1>5 DEF SendAudio, Written, socket
  <2>3. video' = video
    <3>1. video \in Seq(Index)  BY DEF FlowInv, FlowTypes
    <3>2. video \o <<>> = video  BY <3>1
    <3> QED  BY <2>2, <3>2
  <2> QED  BY <1>2, <2>1, <2>3
<1>6. CASE Capture  BY <1>6, MapsCapture DEF Channel!Next
<1>7. CASE SendVideo  BY <1>1, <1>7, MapsSendVideo
<1>8. CASE Encode \/ Emit  BY <1>8, MapsEncode
<1>9. CASE PipelineFails \/ Disconnect  BY <1>1, <1>9, MapsPipelineFails, MapsDisconnect
<1>10. CASE Drain  BY <1>10, MapsDrain
<1>11. CASE ReadVideo  BY <1>1, <1>11, MapsReadVideo
<1>12. CASE OutputBuffer  BY <1>1, <1>12, MapsOutputBuffer DEF Channel!Next
<1> QED
  BY <1>3, <1>4, <1>5, <1>6, <1>7, <1>8, <1>9, <1>10, <1>11, <1>12
     DEF Next, LoopStep, TabletStep

LEMMA MapsInit == Init => Channel!Init
<1> SUFFICES ASSUME Init PROVE Channel!Init  OBVIOUS
<1>1. <<>> \o <<>> = <<>>  OBVIOUS
<1> QED  BY <1>1 DEF Init, Channel!Init

\* For every session: frames reach the screen in the order captured and none twice,
\* however the leaky queue, the threads, the socket and the decoder are scheduled and
\* whatever is lost between them: the session implements the video channel, with the
\* queues from the decoder back to appsrc as what is in flight.
THEOREM ChannelImplemented == Spec => ShownInOrder
<1>1. [Next /\ UNCHANGED setup]_<<setup, vars>> => [Next]_vars
  OBVIOUS
<1>2. FlowInv => FlowTypes  BY DEF FlowInv
<1>3. Spec => [](FlowInv /\ BacklogInv)
  BY <1>1, BacklogInit, BacklogStep, FlowInit, FlowStep, PTL DEF Spec
<1>4. Spec => [][Channel!Next]_<<Flight, shown>>
  BY <1>1, <1>2, <1>3, MapsStep, PTL DEF Spec
<1> QED  BY <1>4, MapsInit, PTL DEF Spec, ShownInOrder, Channel!Spec, Flight

-----------------------------------------------------------------------------
(* Send times and the frames whose acknowledgement is under way.           *)

\* Never younger before older.
Ascends(s) == \A i, j \in 1..Len(s) : i <= j => s[i] <= s[j]

\* Sends s are matched by position with the frames u they acknowledge, p of the sends
\* not yet on the wire.
Matched(s, u, p) ==
  /\ Len(u) + p <= Len(s)
  /\ \A i \in 1..Len(u) : s[i] <= u[i]
  /\ Len(s) - Len(u) <= p => \A i \in 1..Len(u) : s[i] = u[i]

\* The send time whose frame is not on the wire yet.
Pending == IF pc = "send" THEN 1 ELSE 0

\* What ascends, or is bounded, still is when a run is lost.
LEMMA AscendsLost ==
  ASSUME NEW short \in Seq(Nat), NEW long \in Seq(Nat), Channel!Survives(short, long)
  PROVE  /\ Ascends(long) => Ascends(short)
         /\ \A v \in Nat : (\A i \in 1..Len(long) : v <= long[i])
                             => \A i \in 1..Len(short) : v <= short[i]
         /\ \A v \in Nat : (\A i \in 1..Len(long) : long[i] <= v)
                             => \A i \in 1..Len(short) : short[i] <= v
<1>1. PICK kept \in Nat, lost \in Nat : RunLost(short, long, kept, lost)
  BY SurvivesAll, Zenon
<1>2. Len(long) \in Nat /\ Len(short) \in Nat  OBVIOUS
<1>3. \A i \in 1..Len(short) :
        /\ i \in 1..Len(long) /\ i + lost \in 1..Len(long)
        /\ short[i] = IF i <= kept THEN long[i] ELSE long[i + lost]
  <2>1. Len(long) = Len(short) + lost /\ lost \in Nat  BY <1>1 DEF RunLost
  <2>2. \A i \in 1..Len(short) : i \in 1..Len(long) /\ i + lost \in 1..Len(long)
    BY <1>2, <2>1
  <2> QED  BY <1>1, <2>2 DEF RunLost
<1>4. \A v \in Nat : (\A i \in 1..Len(long) : v <= long[i])
                        => \A i \in 1..Len(short) : v <= short[i]
  BY <1>3
<1>5. \A v \in Nat : (\A i \in 1..Len(long) : long[i] <= v)
                        => \A i \in 1..Len(short) : short[i] <= v
  BY <1>3
<1>6. ASSUME Ascends(long), NEW i \in 1..Len(short), NEW j \in 1..Len(short), i <= j
      PROVE  short[i] <= short[j]
  <2> DEFINE a == IF i <= kept THEN i ELSE i + lost
             b == IF j <= kept THEN j ELSE j + lost
  <2>1. a \in 1..Len(long) /\ b \in 1..Len(long)  BY <1>3
  <2>3. a <= b
    <3>1. i <= j /\ i \in Nat /\ j \in Nat /\ lost \in Nat /\ kept \in Nat  BY <1>2, <1>6
    <3> QED  BY <3>1
  <2>2. short[i] = long[a] /\ short[j] = long[b]  BY <1>3
  <2> HIDE DEF a, b
  <2> QED  BY <1>6, <2>3, <2>1, <2>2 DEF Ascends
<1> QED  BY <1>4, <1>5, <1>6 DEF Ascends

\* Frames lost under way leave the rest matched with their own send times or earlier ones.
LEMMA MatchedLost ==
  ASSUME NEW s \in Seq(Nat), NEW short \in Seq(Nat), NEW long \in Seq(Nat), NEW p \in {0, 1},
         Ascends(s), Matched(s, long, p), Channel!Survives(short, long)
  PROVE  Matched(s, short, p)
<1>1. PICK kept \in Nat, lost \in Nat : RunLost(short, long, kept, lost)
  BY SurvivesAll, Zenon
<1>2. Len(long) \in Nat /\ Len(short) \in Nat /\ Len(s) \in Nat
      /\ Len(long) = Len(short) + lost /\ Len(long) + p <= Len(s)
  BY <1>1 DEF Matched, RunLost
<1>3. Len(short) + p <= Len(s)  BY <1>1, <1>2
<1>4. ASSUME NEW i \in 1..Len(short) PROVE s[i] <= short[i]
  <2> DEFINE a == IF i <= kept THEN i ELSE i + lost
  <2>1. a \in 1..Len(long) /\ a \in 1..Len(s) /\ i \in 1..Len(s) /\ i <= a
    <3>1. lost \in Nat /\ kept \in Nat /\ i \in 1..Len(short) /\ p \in Nat  BY <1>1
    <3>2. i \in 1..Len(long) /\ i + lost \in 1..Len(long) /\ i <= i + lost
      BY <1>2, <3>1
    <3>3. 1..Len(long) \subseteq 1..Len(s)  BY <1>2, <3>1
    <3>4. a \in {i, i + lost} /\ i <= i  BY <3>1
    <3> HIDE DEF a
    <3> QED  BY <3>2, <3>3, <3>4
  <2>2. short[i] = long[a]  BY <1>1 DEF RunLost
  <2> HIDE DEF a
  <2>3. s[i] <= s[a] BY <2>1 DEF Ascends
  <2>4. s[a] <= long[a]  BY <2>1 DEF Matched
  <2>5. s[i] \in Nat /\ s[a] \in Nat /\ long[a] \in Nat
    BY <2>1, ElementOfSeq, Zenon
  <2> QED  BY <2>2, <2>3, <2>4, <2>5
<1>5. ASSUME Len(s) - Len(short) <= p, NEW i \in 1..Len(short) PROVE s[i] = short[i]
  <2>1. lost = 0  BY <1>1, <1>2, <1>5
  <2>2. i \in 1..Len(long) /\ Len(s) - Len(long) <= p  BY <1>2, <1>5, <2>1
  <2>3. s[i] = long[i]  BY <2>2 DEF Matched
  <2>4. short[i] = long[i]  BY <1>1, <2>1, <2>2 DEF RunLost
  <2> QED  BY <2>3, <2>4
<1> QED  BY <1>3, <1>4, <1>5 DEF Matched

\* A send time is recorded.
LEMMA MatchedTaken ==
  ASSUME NEW s \in Seq(Nat), NEW u \in Seq(Nat), NEW x \in Nat, Matched(s, u, 0)
  PROVE  Matched(Append(s, x), u, 1)
<1>1. Len(s) \in Nat /\ Len(u) \in Nat /\ Len(Append(s, x)) = Len(s) + 1
      /\ \A i \in 1..Len(s) : Append(s, x)[i] = s[i]
  OBVIOUS
<1>2. \A i \in 1..Len(u) : i \in 1..Len(s)  BY <1>1 DEF Matched
<1> QED  BY <1>1, <1>2 DEF Matched

\* The frame last recorded is sent.
LEMMA MatchedSent ==
  ASSUME NEW s \in Seq(Nat), NEW u \in Seq(Nat), NEW x \in Nat, Ascends(s), Matched(s, u, 1),
         x = s[Len(s)]
  PROVE  Matched(s, Append(u, x), 0)
<1>1. Len(s) \in Nat /\ Len(u) \in Nat /\ Len(Append(u, x)) = Len(u) + 1
      /\ (\A i \in 1..Len(u) : Append(u, x)[i] = u[i]) /\ Append(u, x)[Len(u) + 1] = x
  OBVIOUS
<1>2. Len(u) + 1 \in 1..Len(s) /\ Len(s) \in 1..Len(s)  BY <1>1 DEF Matched
<1>3. s[Len(u) + 1] <= x  BY <1>1, <1>2 DEF Ascends
<1>4. Len(s) - (Len(u) + 1) <= 0 => s[Len(u) + 1] = x  BY <1>1, <1>2
<1> QED  BY <1>1, <1>2, <1>3, <1>4 DEF Matched

\* The oldest frame under way is acknowledged.
LEMMA MatchedAcked ==
  ASSUME NEW s \in Seq(Nat), NEW u \in Seq(Nat), NEW p \in {0, 1}, Matched(s, u, p), u # <<>>
  PROVE  s # <<>> /\ Len(s) > p /\ Matched(Tail(s), Tail(u), p)
<1>1. Len(s) \in Nat /\ Len(u) \in Nat \ {0}  OBVIOUS
<1>2. s # <<>> /\ Len(s) > p  BY <1>1 DEF Matched
<1>3. /\ Len(Tail(s)) = Len(s) - 1 /\ Len(Tail(u)) = Len(u) - 1
      /\ \A i \in 1..(Len(s) - 1) : Tail(s)[i] = s[i + 1]
      /\ \A i \in 1..(Len(u) - 1) : Tail(u)[i] = u[i + 1]
  BY <1>1, <1>2
<1>4. \A i \in 1..(Len(u) - 1) : i + 1 \in 1..Len(u) /\ i \in 1..(Len(s) - 1)
  BY <1>1 DEF Matched
<1> QED  BY <1>1, <1>2, <1>3, <1>4 DEF Matched

\* The last frames under way are lost.
LEMMA MatchedFirst ==
  ASSUME NEW s \in Seq(Nat), NEW a \in Seq(Nat), NEW b \in Seq(Nat), NEW p \in {0, 1},
         Ascends(s), Matched(s, a \o b, p)
  PROVE  Matched(s, a, p)
<1>1. a \o b \in Seq(Nat) /\ Channel!Survives(a, a \o b)  BY LostLast
<1> QED  BY <1>1, MatchedLost

\* What comes first of what ascends does.
LEMMA AscendsPrefix ==
  ASSUME NEW a \in Seq(Nat), NEW b \in Seq(Nat), Ascends(a \o b)
  PROVE  Ascends(a)
<1>1. Len(a) \in Nat /\ Len(b) \in Nat /\ Len(a \o b) = Len(a) + Len(b)
      /\ \A i \in 1..Len(a) : (a \o b)[i] = a[i]
  OBVIOUS
<1>2. 1..Len(a) \subseteq 1..Len(a \o b)  BY <1>1
<1> QED  BY <1>1, <1>2 DEF Ascends

LEMMA IndexNat == Index \subseteq Nat /\ \A s \in Seq(Index) : s \in Seq(Nat)
  BY SessionAssumption DEF Index

-----------------------------------------------------------------------------
(* The bytes of acknowledgements.                                          *)

\* The halves of acknowledgements.
Bytes == [pts : Index, half : {1, 2}]

\* While the link is up no half of an acknowledgement is missing from what arrived
\* and what is under way.
AckTypes ==
  /\ sent_at \in Seq(Index) /\ pendingAcks \in Seq(Index)
  /\ buf \in Seq(Bytes) /\ ackWire \in Seq(Bytes)
  /\ Len(buf) \in {0, 1}
  /\ link = "up" => \E k \in 0..Len(ackWire) : Len(buf) + Len(ackWire) = 2 * k

\* Halving, for the provers.
LEMMA HalfOf ==
  \A n \in Nat : /\ n \div 2 \in Nat /\ 2 * (n \div 2) <= n /\ n <= 2 * (n \div 2) + 1
  OBVIOUS

LEMMA HalfIs ==
  \A n, k \in Nat : n = 2 * k \/ n = 2 * k + 1 => n \div 2 = k
  OBVIOUS

\* How many acknowledgements some bytes hold, and which.
LEMMA AcksType ==
  ASSUME NEW bytes \in Seq(Bytes)
  PROVE  /\ AcksIn(bytes) \in Seq(Index) /\ Len(AcksIn(bytes)) = Len(bytes) \div 2
         /\ \A i \in 1..(Len(bytes) \div 2) : AcksIn(bytes)[i] = bytes[2 * i].pts
<1> DEFINE n == Len(bytes) \div 2
<1>1. Len(bytes) \in Nat /\ n \in Nat /\ 2 * n <= Len(bytes)  BY HalfOf
<1> HIDE DEF n
<1>2. \A i \in 1..n : 2 * i \in 1..Len(bytes)  BY <1>1
<1>3. \A i \in 1..n : bytes[2 * i].pts \in Index
  <2> TAKE i \in 1..n
  <2>1. bytes[2 * i] \in Bytes  BY <1>2
  <2> QED  BY <2>1 DEF Bytes
<1>4. AcksIn(bytes) = [i \in 1..n |-> bytes[2 * i].pts]  BY DEF AcksIn, ACK_LEN, n
<1>5. AcksIn(bytes) \in Seq(Index) /\ Len(AcksIn(bytes)) = n
  <2>1. AcksIn(bytes) \in [1..n -> Index] BY <1>3, <1>4
  <2>2. Len(AcksIn(bytes)) = n  BY <1>1, <1>4
  <2> QED  BY <1>1, <2>1, <2>2, SeqDef
<1> QED  BY <1>4, <1>5 DEF n

\* An acknowledgement is written.
LEMMA AcksAppend ==
  ASSUME NEW bytes \in Seq(Bytes), NEW k \in Nat, Len(bytes) = 2 * k, NEW h \in Index
  PROVE  AcksIn(bytes \o Halves(h)) = Append(AcksIn(bytes), h)
<1> DEFINE two == Halves(h)
           more == bytes \o two
<1>1. Halves(h) \in Seq(Bytes) /\ Len(Halves(h)) = 2 /\ Halves(h)[2].pts = h
  BY DEF Halves, Bytes
<1>2. more \in Seq(Bytes) /\ Len(more) = 2 * (k + 1)
      /\ (\A i \in 1..(2 * k) : more[i] = bytes[i]) /\ more[2 * k + 2] = Halves(h)[2]
  <2>1. two \in Seq(Bytes) /\ Len(two) = 2  BY <1>1
  <2> HIDE DEF two
  <2>2. /\ more \in Seq(Bytes) /\ Len(more) = 2 * k + 2
        /\ \A i \in 1..(2 * k + 2) : more[i] = IF i <= 2 * k THEN bytes[i] ELSE two[i - 2 * k]
    <3>1. /\ more \in Seq(Bytes) /\ Len(more) = Len(bytes) + Len(two)
          /\ \A i \in 1..(Len(bytes) + Len(two)) :
               more[i] = IF i <= Len(bytes) THEN bytes[i] ELSE two[i - Len(bytes)]
      BY <2>1, ConcatProperties, Zenon
    <3> HIDE DEF more
    <3> QED  BY <2>1, <3>1
  <2> HIDE DEF more
  <2>3. 2 * k + 2 \in 1..(2 * k + 2) /\ ~(2 * k + 2 <= 2 * k) /\ (2 * k + 2) - 2 * k = 2
        /\ \A i \in 1..(2 * k) : i \in 1..(2 * k + 2) /\ i <= 2 * k
    OBVIOUS
  <2>4. more[2 * k + 2] = two[2]  BY <2>2, <2>3
  <2>5. \A i \in 1..(2 * k) : more[i] = bytes[i]  BY <2>2, <2>3
  <2> QED  BY <2>2, <2>4, <2>5 DEF two
<1>3. Len(more) \div 2 = k + 1 /\ Len(bytes) \div 2 = k  BY <1>2, HalfIs
<1> HIDE DEF more
<1>4. /\ AcksIn(more) \in Seq(Index) /\ Len(AcksIn(more)) = k + 1
      /\ \A i \in 1..(k + 1) : AcksIn(more)[i] = more[2 * i].pts
  BY <1>2, <1>3, AcksType
<1>5. /\ AcksIn(bytes) \in Seq(Index) /\ Len(AcksIn(bytes)) = k
      /\ \A i \in 1..k : AcksIn(bytes)[i] = bytes[2 * i].pts
  BY <1>3, AcksType
<1>6. \A i \in 1..k : 2 * i \in 1..(2 * k)  OBVIOUS
<1>7. \A i \in 1..k : AcksIn(more)[i] = AcksIn(bytes)[i]
  <2> TAKE i \in 1..k
  <2>1. more[2 * i] = bytes[2 * i]  BY <1>2, <1>6
  <2>2. i \in 1..(k + 1)  OBVIOUS
  <2> QED  BY <1>4, <1>5, <2>1, <2>2
<1>8. AcksIn(more)[k + 1] = h  BY <1>1, <1>2, <1>4
<1>9. \A i \in 1..(k + 1) : AcksIn(more)[i] = Append(AcksIn(bytes), h)[i]
  BY <1>5, <1>7, <1>8
<1>10. Append(AcksIn(bytes), h) \in Seq(Index) /\ Len(Append(AcksIn(bytes), h)) = k + 1
  BY <1>5
<1> QED  BY <1>4, <1>9, <1>10, SeqEqual DEF more

\* The first acknowledgement is taken from the bytes.
LEMMA AcksTail ==
  ASSUME NEW bytes \in Seq(Bytes), Len(bytes) >= 2
  PROVE  /\ AcksIn(bytes) # <<>> /\ AcksIn(bytes)[1] = bytes[2].pts
         /\ AcksIn(SubSeq(bytes, 3, Len(bytes))) = Tail(AcksIn(bytes))
<1> DEFINE rest == SubSeq(bytes, 3, Len(bytes))
           n == Len(bytes) \div 2
<1>1. Len(bytes) \in Nat /\ n \in Nat /\ 2 * n <= Len(bytes) /\ Len(bytes) <= 2 * n + 1
  BY HalfOf
<1>2. /\ rest \in Seq(Bytes) /\ Len(rest) = Len(bytes) - 2
      /\ \A i \in 1..(Len(bytes) - 2) : rest[i] = bytes[i + 2]
  <2>1. \A i \in 3..Len(bytes) : bytes[i] \in Bytes  BY <1>1
  <2>2. /\ rest \in Seq(Bytes) /\ Len(rest) = Len(bytes) - 2
        /\ \A i \in 1..(Len(bytes) - 2) : rest[i] = bytes[3 + i - 1]
    <3>1. /\ rest \in Seq(Bytes)
          /\ Len(rest) = IF 3 <= Len(bytes) THEN Len(bytes) - 3 + 1 ELSE 0
          /\ \A i \in 1..(Len(bytes) - 3 + 1) : rest[i] = bytes[3 + i - 1]
      BY <1>1, <2>1, SubSeqProperties
    <3>2. Len(bytes) - 3 + 1 = Len(bytes) - 2  BY <1>1
    <3>3. Len(bytes) \in Nat  BY <1>1
    <3>4. \A m \in Nat : m >= 2 => (IF 3 <= m THEN m - 3 + 1 ELSE 0) = m - 2
      OBVIOUS
    <3> HIDE DEF rest
    <3> QED  BY <3>1, <3>2, <3>3, <3>4, Zenon
  <2>3. \A i \in 1..(Len(bytes) - 2) : 3 + i - 1 = i + 2  OBVIOUS
  <2> QED  BY <2>1, <2>2, <2>3
<1>3. /\ AcksIn(bytes) \in Seq(Index) /\ Len(AcksIn(bytes)) = n
      /\ \A i \in 1..n : AcksIn(bytes)[i] = bytes[2 * i].pts
  BY AcksType
<1> HIDE DEF rest
<1>4. n >= 1 /\ Len(rest) \div 2 = n - 1
  <2> HIDE DEF n
  <2>1. n >= 1  BY <1>1
  <2>2. Len(rest) = 2 * (n - 1) \/ Len(rest) = 2 * (n - 1) + 1  BY <1>1, <1>2
  <2>3. n - 1 \in Nat /\ Len(rest) \in Nat  BY <2>1, <1>1, <1>2
  <2> QED  BY <2>1, <2>2, <2>3, HalfIs
<1>5. /\ AcksIn(rest) \in Seq(Index) /\ Len(AcksIn(rest)) = n - 1
      /\ \A i \in 1..(n - 1) : AcksIn(rest)[i] = rest[2 * i].pts
  BY <1>2, <1>4, AcksType
<1> HIDE DEF n
<1>6. \A i \in 1..(n - 1) : 2 * i \in 1..(Len(bytes) - 2) /\ 2 * i + 2 = 2 * (i + 1)
                             /\ i + 1 \in 1..n
  BY <1>1
<1>7. \A i \in 1..(n - 1) : AcksIn(rest)[i] = AcksIn(bytes)[i + 1]
  <2> TAKE i \in 1..(n - 1)
  <2>1. rest[2 * i] = bytes[2 * i + 2]  BY <1>2, <1>6
  <2> QED  BY <1>3, <1>5, <1>6, <2>1
<1>8. /\ Tail(AcksIn(bytes)) \in Seq(Index) /\ Len(Tail(AcksIn(bytes))) = n - 1
      /\ \A i \in 1..(n - 1) : Tail(AcksIn(bytes))[i] = AcksIn(bytes)[i + 1]
  BY <1>1, <1>3, <1>4
<1>9. AcksIn(rest) = Tail(AcksIn(bytes))  BY <1>1, <1>4, <1>5, <1>7, <1>8, SeqEqual
<1>10. AcksIn(bytes) # <<>> /\ AcksIn(bytes)[1] = bytes[2].pts  BY <1>1, <1>3, <1>4
<1> QED  BY <1>9, <1>10 DEF rest

\* A read cuts the bytes under way and loses none of them.
LEMMA ReadBytes ==
  ASSUME AckTypes, NEW n \in 1..2, n <= Len(ackWire), n <= 2 - Len(buf),
         NEW bytes, bytes = buf \o SubSeq(ackWire, 1, n),
         NEW rest, rest = SubSeq(ackWire, n + 1, Len(ackWire))
  PROVE  /\ bytes \in Seq(Bytes) /\ rest \in Seq(Bytes)
         /\ Len(bytes) = Len(buf) + n /\ Len(rest) = Len(ackWire) - n
         /\ bytes \o rest = buf \o ackWire
         /\ Len(bytes) = 2 => /\ rest = SubSeq(buf \o ackWire, 3, Len(buf \o ackWire))
                              /\ bytes[2] = (buf \o ackWire)[2]
<1> DEFINE some == SubSeq(ackWire, 1, n)
<1>1. buf \in Seq(Bytes) /\ ackWire \in Seq(Bytes) /\ n \in Nat  BY DEF AckTypes
<1>2. some \in Seq(Bytes) /\ Len(some) = n /\ rest \in Seq(Bytes) /\ Len(rest) = Len(ackWire) - n
      /\ some \o rest = ackWire
  BY <1>1, CutAt
<1>3. bytes = buf \o some  OBVIOUS
<1> HIDE DEF some
<1>4. bytes \in Seq(Bytes) /\ Len(bytes) = Len(buf) + n  BY <1>1, <1>2, <1>3
<1>5. bytes \o rest = buf \o ackWire
  <2>1. SameTriple(buf, some, rest)  BY <1>1, <1>2, AssocAll, Zenon
  <2> QED  BY <1>2, <1>3, <2>1 DEF SameTriple
<1>6. SubSeq(bytes \o rest, Len(bytes) + 1, Len(bytes \o rest)) = rest
  BY <1>2, <1>4, CutOff
<1>7. Len(bytes) = 2 => (bytes \o rest)[2] = bytes[2]
  <2>1. \A i \in 1..Len(bytes) : (bytes \o rest)[i] = bytes[i]
    BY <1>2, <1>4, FirstPart
  <2>2. 2 \in 1..2  OBVIOUS
  <2> QED  BY <2>1, <2>2, Zenon
<1>8. Len(bytes) = 2 => rest = SubSeq(buf \o ackWire, 3, Len(buf \o ackWire))
  BY <1>5, <1>6
<1> QED  BY <1>2, <1>4, <1>5, <1>7, <1>8

LEMMA AckTypesRead ==
  ASSUME AckTypes, NEW n \in 1..ACK_LEN, ReadAck(n)
  PROVE  AckTypes'
<1> DEFINE bytes == buf \o SubSeq(ackWire, 1, n)
           rest == SubSeq(ackWire, n + 1, Len(ackWire))
<1>1. n \in 1..2 /\ n <= Len(ackWire) /\ n <= 2 - Len(buf)  BY DEF ReadAck, ACK_LEN
<1>2. /\ bytes \in Seq(Bytes) /\ rest \in Seq(Bytes)
      /\ Len(bytes) = Len(buf) + n /\ Len(rest) = Len(ackWire) - n
  BY <1>1, ReadBytes
<1>3. /\ ackWire' = rest /\ buf' = Kept(bytes) /\ link' = link /\ pendingAcks' = pendingAcks
      /\ sent_at' = sent_at \/ (sent_at # <<>> /\ sent_at' = Tail(sent_at))
  BY DEF ReadAck, tablet
<1> HIDE DEF bytes, rest
<1>4. Len(buf) \in {0, 1} /\ Len(ackWire) \in Nat /\ n \in Nat /\ Len(rest) \in Nat
  BY <1>1, <1>2 DEF AckTypes
<1>5. buf' \in Seq(Bytes) /\ Len(buf') \in {0, 1}
      /\ (Len(buf') = Len(bytes) \/ (Len(bytes) = 2 /\ Len(buf') = 0))
  BY <1>1, <1>2, <1>3, <1>4 DEF Kept, ACK_LEN
<1>6. ASSUME link' = "up"
      PROVE  \E k \in 0..Len(ackWire') : Len(buf') + Len(ackWire') = 2 * k
  <2>1. PICK k \in 0..Len(ackWire) : Len(buf) + Len(ackWire) = 2 * k
    BY <1>3, <1>6 DEF AckTypes
  <2>2. Len(bytes) + Len(rest) = 2 * k  BY <1>2, <1>4, <2>1
  <2>3. CASE Len(buf') = Len(bytes)
    <3>1. k \in 0..Len(rest)  BY <1>2, <1>4, <1>5, <2>1, <2>2, <2>3
    <3> QED  BY <1>3, <2>2, <2>3, <3>1
  <2>4. CASE Len(bytes) = 2 /\ Len(buf') = 0
    <3>1. k - 1 \in 0..Len(rest) /\ 0 + Len(rest) = 2 * (k - 1)
      <4>1. k \in Nat /\ 2 + Len(rest) = 2 * k  BY <2>1, <2>2, <2>4
      <4> QED  BY <1>4, <4>1
    <3> QED  BY <1>3, <2>4, <3>1
  <2> QED  BY <1>5, <2>3, <2>4
<1>7. sent_at' \in Seq(Index)
  <2>1. sent_at \in Seq(Index)  BY DEF AckTypes
  <2> QED  BY <1>3, <2>1
<1>8. pendingAcks' \in Seq(Index) /\ ackWire' \in Seq(Bytes)  BY <1>2, <1>3 DEF AckTypes
<1> QED  BY <1>5, <1>6, <1>7, <1>8 DEF AckTypes

LEMMA AckTypesStep == FlowInv /\ BacklogInv /\ AckTypes /\ [Next]_vars => AckTypes'
<1> SUFFICES ASSUME FlowInv, BacklogInv, AckTypes, [Next]_vars PROVE AckTypes'  OBVIOUS
<1>1. ASSUME UNCHANGED <<sent_at, pendingAcks, buf, ackWire>>, link' = "up" => link = "up"
      PROVE  AckTypes'
  BY <1>1 DEF AckTypes
<1>2. CASE UNCHANGED vars \/ Returned \/ CheckShutdown \/ AudioSent \/ VideoSent
           \/ Joined \/ CaptureFails \/ Shutdown \/ Capture
  BY <1>1, <1>2
     DEF vars, Returned, CheckShutdown, AudioSent, VideoSent,
         Joined, CaptureFails, Shutdown, Capture, pipeline, socket, tablet
<1>3. CASE DrainExit \/ AudioPacket \/ AudioExit \/ AckExit \/ ReadAudio \/ ReadVideo
  BY <1>1, <1>3
     DEF DrainExit, AudioPacket, AudioExit, AckExit, ReadAudio, ReadVideo, pipeline, socket, tablet
<1>4. CASE SendAudio \/ SendVideo
  BY <1>1, <1>4 DEF SendAudio, SendVideo, Written, socket, tablet
<1>5. CASE Encode \/ Emit \/ PipelineFails \/ Drain
  BY <1>1, <1>5 DEF Encode, Emit, PipelineFails, Drain, socket, tablet
<1>6. CASE TakePacket
  <2>1. Head(channel) \in Index  BY <1>6 DEF TakePacket, FlowInv, FlowTypes
  <2>2. sent_at \in Seq(Index)  BY DEF AckTypes
  <2>3. Append(sent_at, Head(channel)) \in Seq(Index)  BY <2>1, <2>2, AppendProperties
  <2> QED  BY <1>6, <2>3 DEF TakePacket, AckTypes, socket, tablet
<1>7. CASE \E n \in 1..ACK_LEN : ReadAck(n)  BY <1>7, AckTypesRead
<1>8. CASE OutputBuffer
  <2>1. Head(decoder) \in Index /\ pendingAcks \in Seq(Index)
    BY <1>8 DEF OutputBuffer, FlowInv, FlowTypes, AckTypes
  <2>2. Append(pendingAcks, Head(decoder)) \in Seq(Index)  BY <2>1, AppendProperties
  <2> QED  BY <1>8, <2>2 DEF OutputBuffer, AckTypes, socket
<1>9. CASE WriteAck
  <2> DEFINE h == Head(pendingAcks)
  <2>1. h \in Index /\ Tail(pendingAcks) \in Seq(Index)
    BY <1>9 DEF WriteAck, AckTypes
  <2>2. Halves(h) \in Seq(Bytes) /\ Len(Halves(h)) = 2  BY <2>1 DEF Halves, Bytes
  <2>3. ackWire' \in Seq(Bytes) /\ Len(ackWire') = Len(ackWire) + 2 /\ Len(ackWire) \in Nat
    <3>1. ackWire \in Seq(Bytes)  BY DEF AckTypes
    <3>2. ackWire' = ackWire \o Halves(h)  BY <1>9 DEF WriteAck
    <3>3. Halves(h) \in Seq(Bytes) /\ Len(Halves(h)) = 2  BY <2>2
    <3> HIDE DEF h
    <3>4. ackWire \o Halves(h) \in Seq(Bytes)
          /\ Len(ackWire \o Halves(h)) = Len(ackWire) + Len(Halves(h))
      BY <3>1, <3>3, ConcatProperties, Zenon
    <3>5. Len(ackWire) \in Nat  BY <3>1
    <3> QED  BY <3>2, <3>3, <3>4, <3>5, Zenon
  <2>4. PICK k \in 0..Len(ackWire) : Len(buf) + Len(ackWire) = 2 * k
    BY <1>9 DEF WriteAck, AckTypes
  <2>5. UNCHANGED <<sent_at, buf>> /\ pendingAcks' = Tail(pendingAcks)  BY <1>9 DEF WriteAck
  <2>6. Len(buf) \in {0, 1}  BY DEF AckTypes
  <2>7. k + 1 \in 0..Len(ackWire') /\ Len(buf') + Len(ackWire') = 2 * (k + 1)
    BY <2>3, <2>4, <2>5, <2>6
  <2> HIDE DEF h
  <2> QED  BY <2>1, <2>3, <2>5, <2>7 DEF AckTypes
<1>10. CASE Disconnect
  <2>1. link' = "closed" /\ (ackWire' = ackWire \/ ackWire' = <<>>) /\ pendingAcks' = <<>>
        /\ UNCHANGED <<sent_at, buf>>
    BY <1>10 DEF Disconnect
  <2>2. <<>> \in Seq(Index) /\ <<>> \in Seq(Bytes)  OBVIOUS
  <2>3. ackWire' \in Seq(Bytes) /\ ~(link' = "up")  BY <2>1, <2>2 DEF AckTypes
  <2> QED  BY <2>1, <2>2, <2>3, Zenon DEF AckTypes
<1> QED
  BY <1>2, <1>3, <1>4, <1>5, <1>6, <1>7, <1>8, <1>9, <1>10
     DEF Next, LoopStep, AckStep, TabletStep

-----------------------------------------------------------------------------
(* Frames not yet sent follow those that are, in order.                    *)

\* The channel without the packet that is being written.
Unsent == IF pc = "send" THEN Tail(channel) ELSE channel

\* The send times and, behind them, all that is still to be sent.
Order == sent_at \o Unsent \o coded \o encoding \o raw

OrderTypes ==
  /\ Unsent \in Seq(Index) /\ sent_at \o Unsent \in Seq(Index)
  /\ sent_at \o Unsent \o coded \in Seq(Index)
  /\ sent_at \o Unsent \o coded \o encoding \in Seq(Index)
  /\ Order \in Seq(Index)

LEMMA OrderTyped == ASSUME FlowTypes, AckTypes, BacklogInv PROVE OrderTypes
<1>1. /\ sent_at \in Seq(Index) /\ channel \in Seq(Index) /\ coded \in Seq(Index)
      /\ encoding \in Seq(Index) /\ raw \in Seq(Index)
  BY DEF FlowTypes, AckTypes
<1>2. Unsent \in Seq(Index)
  <2>1. pc = "send" => channel # <<>>  BY DEF BacklogInv
  <2> QED  BY <1>1, <2>1 DEF Unsent
<1>3. sent_at \o Unsent \in Seq(Index)  BY <1>1, <1>2, ConcatProperties
<1>4. sent_at \o Unsent \o coded \in Seq(Index)  BY <1>1, <1>3, ConcatProperties
<1>5. sent_at \o Unsent \o coded \o encoding \in Seq(Index)  BY <1>1, <1>4, ConcatProperties
<1>6. Order \in Seq(Index)  BY <1>1, <1>5, ConcatProperties DEF Order
<1> QED  BY <1>2, <1>3, <1>4, <1>5, <1>6 DEF OrderTypes

\* Nothing is out of order, and nothing newer than the next frame to be captured.
InOrder(frames) == Ascends(frames) /\ \A i \in 1..Len(frames) : frames[i] <= index

\* Losses leave the rest in order.
LEMMA OrderLost ==
  ASSUME NEW short \in Seq(Index), NEW long \in Seq(Index), Channel!Survives(short, long),
         index \in Index, InOrder(long)
  PROVE  InOrder(short)
<1>1. short \in Seq(Nat) /\ long \in Seq(Nat) /\ index \in Nat  BY IndexNat
<1> QED  BY <1>1, AscendsLost DEF InOrder

\* The next frame captured comes last.
LEMMA OrderAppend ==
  ASSUME NEW s \in Seq(Index), index \in Index, InOrder(s)
  PROVE  InOrder(Append(s, index))
<1>1. Len(s) \in Nat /\ index \in Nat /\ \A i \in 1..Len(s) : s[i] \in Nat
  BY IndexNat
<1>2. /\ Len(Append(s, index)) = Len(s) + 1
      /\ \A i \in 1..Len(s) : Append(s, index)[i] = s[i]
      /\ Append(s, index)[Len(s) + 1] = index
  OBVIOUS
<1>3. \A i \in 1..(Len(s) + 1) : i \in 1..Len(s) \/ i = Len(s) + 1  BY <1>1
<1>4. \A i \in 1..(Len(s) + 1) : Append(s, index)[i] <= index
  BY <1>1, <1>2, <1>3 DEF InOrder
<1>5. ASSUME NEW i \in 1..(Len(s) + 1), NEW j \in 1..(Len(s) + 1), i <= j
      PROVE  Append(s, index)[i] <= Append(s, index)[j]
  <2>1. CASE j = Len(s) + 1  BY <1>2, <1>4, <2>1
  <2>2. CASE j \in 1..Len(s)
    <3>1. i \in 1..Len(s)  BY <1>1, <1>5, <2>2
    <3> QED  BY <1>2, <1>5, <2>2, <3>1 DEF InOrder, Ascends
  <2> QED  BY <1>3, <2>1, <2>2
<1> QED  BY <1>2, <1>4, <1>5 DEF InOrder, Ascends

OrderOf == InOrder(Order)

LEMMA OrderCapture ==
  ASSUME FlowInv, AckTypes, BacklogInv, OrderOf, Capture
  PROVE  OrderOf'
<1> DEFINE x == sent_at \o Unsent \o coded \o encoding
<1>1. x \in Seq(Index) /\ raw \in Seq(Index) /\ index \in Index /\ Order = x \o raw
  BY OrderTyped DEF FlowInv, FlowTypes, OrderTypes, Order
<1>2. raw' = <<index>> /\ UNCHANGED <<sent_at, channel, coded, encoding>>
      /\ pc # "send" /\ pc' # "send" /\ (index' = index \/ index' = index + 1)
  BY DEF Capture, Push
<1>3. Unsent' = Unsent  BY <1>2 DEF Unsent
<1>4. Order' = x \o <<index>>  BY <1>2, <1>3, Zenon DEF Order
<1> HIDE DEF x
<1>5. Order' = Append(x, index)  BY <1>1, <1>4, AppendIsConcat
<1>6. Channel!Survives(x, x \o raw)
  <2>1. <<>> \in Seq(Index) /\ x \o <<>> = x /\ x \o raw \o <<>> = x \o raw  BY <1>1
  <2>2. Channel!Survives(x \o <<>>, x \o raw \o <<>>)  BY <1>1, <2>1, LostRun
  <2> QED  BY <2>1, <2>2
<1>7. InOrder(x)
  <2>1. x \o raw \in Seq(Index) /\ Channel!Survives(x, x \o raw)  BY <1>1, <1>6
  <2>2. InOrder(x \o raw)  BY <1>1 DEF OrderOf
  <2> QED  BY <1>1, <2>1, <2>2, OrderLost
<1>8. InOrder(Append(x, index))  BY <1>1, <1>7, OrderAppend
<1>9. Append(x, index) \in Seq(Index) /\ index \in Nat /\ index' \in Nat /\ index <= index'
  BY <1>1, <1>2, IndexNat
<1>10. \A i \in 1..Len(Append(x, index)) : Append(x, index)[i] \in Nat
  BY <1>9, IndexNat
<1> QED  BY <1>5, <1>8, <1>9, <1>10 DEF OrderOf, InOrder

LEMMA OrderSame ==
  ASSUME OrderOf, UNCHANGED <<Order, index>>
  PROVE  OrderOf'
  BY DEF OrderOf, InOrder

LEMMA OrderFewer ==
  ASSUME OrderOf, UNCHANGED index, index \in Index, Order \in Seq(Index), NEW s \in Seq(Index),
         Order' = s, Channel!Survives(s, Order)
  PROVE  OrderOf'
<1>1. InOrder(s)  BY OrderLost DEF OrderOf
<1> QED  BY <1>1 DEF OrderOf, InOrder

\* Frames move through the pipeline in order.
LEMMA OrderMoves ==
  ASSUME FlowInv, AckTypes, BacklogInv, OrderOf, Encode \/ Emit \/ Drain \/ PipelineFails
  PROVE  OrderOf'
<1> DEFINE x == sent_at \o Unsent
           y == x \o coded
           z == y \o encoding
<1>1. /\ x \in Seq(Index) /\ y \in Seq(Index) /\ z \in Seq(Index) /\ raw \in Seq(Index)
      /\ coded \in Seq(Index) /\ encoding \in Seq(Index) /\ index \in Index
      /\ Order \in Seq(Index) /\ Unsent \in Seq(Index) /\ sent_at \in Seq(Index)
  BY OrderTyped DEF FlowInv, FlowTypes, OrderTypes, AckTypes
<1>2. UNCHANGED <<index, sent_at, pc>>
  BY DEF Encode, Emit, Drain, PipelineFails, loop
<1>3. Order = z \o raw  BY Zenon DEF Order
<1>4. CASE Encode
  <2>1. encoding = <<>> /\ encoding' = raw /\ raw' = <<>> /\ coded' = coded /\ Unsent' = Unsent
    BY <1>2, <1>4 DEF Encode, Unsent
  <2>2. Order' = y \o raw \o <<>>  BY <1>2, <2>1, Zenon DEF Order
  <2> HIDE DEF y, x
  <2>3. y \o raw \o <<>> = y \o <<>> \o raw  BY <1>1
  <2>4. Order' = Order  BY <1>3, <2>1, <2>2, <2>3, Zenon
  <2> QED  BY <1>2, <2>4, OrderSame
<1>5. CASE Emit
  <2>1. encoding' = <<>> /\ raw' = raw /\ coded' = coded \o encoding /\ Unsent' = Unsent
    BY <1>2, <1>5 DEF Emit, Unsent
  <2>2. Order' = x \o (coded \o encoding) \o <<>> \o raw  BY <1>2, <2>1, Zenon DEF Order
  <2> HIDE DEF x
  <2>3. SameTriple(x, coded, encoding)  BY <1>1, AssocAll, Zenon
  <2>4. x \o (coded \o encoding) \o <<>> = x \o (coded \o encoding)  BY <1>1
  <2>5. Order' = Order  BY <1>3, <2>2, <2>3, <2>4, Zenon DEF SameTriple
  <2> QED  BY <1>2, <2>5, OrderSame
<1>6. CASE Drain
  <2>1. /\ coded # <<>> /\ channel' = Append(channel, Head(coded)) /\ coded' = Tail(coded)
        /\ UNCHANGED <<encoding, raw>>
    BY <1>6 DEF Drain
  <2>2. Head(coded) \in Index /\ channel \in Seq(Index) /\ (pc = "send" => channel # <<>>)
    BY <1>1, <2>1 DEF FlowInv, FlowTypes, BacklogInv
  <2>3. Unsent' = Unsent \o <<Head(coded)>>
    <3>1. CASE pc # "send"
      <4>1. Append(channel, Head(coded)) = channel \o <<Head(coded)>>
        BY <2>2, AppendIsConcat
      <4> QED  BY <1>2, <2>1, <3>1, <4>1 DEF Unsent
    <3>2. CASE pc = "send"
      <4>1. channel' = channel \o <<Head(coded)>>  BY <2>1, <2>2, AppendIsConcat
      <4>2. Tail(channel \o <<Head(coded)>>) = Tail(channel) \o <<Head(coded)>>
        <5>1. <<Head(coded)>> \in Seq(Index)  BY <2>2
        <5> QED  BY <2>2, <3>2, <5>1, HeadTail
      <4> QED  BY <1>2, <3>2, <4>1, <4>2 DEF Unsent
    <3> QED  BY <3>1, <3>2
  <2>4. HandsOver(sent_at, Unsent, coded)  BY <1>1, <2>1, HandOverAll, Zenon
  <2>5. Order' = Order  BY <1>2, <2>1, <2>3, <2>4, Zenon DEF Order, HandsOver
  <2> QED  BY <1>2, <2>5, OrderSame
<1>7. CASE PipelineFails
  <2>1. encoding' = <<>> /\ UNCHANGED <<channel, coded, raw>>  BY <1>7 DEF PipelineFails
  <2>2. Unsent' = Unsent  BY <1>2, <2>1 DEF Unsent
  <2>3. Order' = y \o <<>> \o raw  BY <1>2, <2>1, <2>2, Zenon DEF Order
  <2>4. Order = y \o encoding \o raw  BY <1>3
  <2> HIDE DEF x, y
  <2>5. y \o <<>> = y /\ y \o raw \in Seq(Index) BY <1>1
  <2>6. Channel!Survives(y \o raw, y \o encoding \o raw)  BY <1>1, LostRun
  <2> QED  BY <1>1, <1>2, <2>3, <2>4, <2>5, <2>6, OrderFewer
<1> QED  BY <1>4, <1>5, <1>6, <1>7

\* A frame moves from the channel to the send times when its turn comes.
LEMMA OrderTake ==
  ASSUME FlowInv, AckTypes, BacklogInv, OrderOf, TakePacket \/ SendVideo
  PROVE  OrderOf'
<1>1. UNCHANGED <<index, coded, encoding, raw>> /\ sent_at \in Seq(Index)
      /\ channel \in Seq(Index)
  BY DEF TakePacket, SendVideo, GoTo, EndLoop, pipeline, FlowInv, FlowTypes, AckTypes
<1>2. CASE TakePacket
  <2>1. /\ channel # <<>> /\ channel' = channel /\ sent_at' = Append(sent_at, Head(channel))
        /\ pc # "send" /\ pc' = "send"
    BY <1>2 DEF TakePacket, GoTo
  <2>2. Unsent = channel /\ Unsent' = Tail(channel)  BY <2>1 DEF Unsent
  <2>3. Head(channel) \in Index  BY <1>1, <2>1
  <2>4. sent_at' = sent_at \o <<Head(channel)>>  BY <1>1, <2>1, <2>3, AppendIsConcat
  <2>5. Moves(sent_at, channel)  BY <1>1, <2>1, MovesAll, Zenon
  <2>6. Order' = Order  BY <1>1, <2>2, <2>4, <2>5, Zenon DEF Order, Moves
  <2> QED  BY <1>1, <2>6, OrderSame
<1>3. CASE SendVideo
  <2>1. pc = "send" /\ pc' # "send" /\ channel' = Tail(channel) /\ sent_at' = sent_at
    BY <1>3 DEF SendVideo, GoTo, EndLoop
  <2>2. Unsent' = Unsent  BY <2>1 DEF Unsent
  <2>3. Order' = Order  BY <1>1, <2>1, <2>2, Zenon DEF Order
  <2> QED  BY <1>1, <2>3, OrderSame
<1> QED  BY <1>2, <1>3

\* An acknowledgement takes the oldest send time away.
LEMMA OrderRead ==
  ASSUME FlowInv, AckTypes, BacklogInv, OrderOf, NEW n \in 1..ACK_LEN, ReadAck(n)
  PROVE  OrderOf'
<1>1. /\ UNCHANGED <<index, pc, channel, coded, encoding, raw>>
      /\ sent_at' = sent_at \/ (sent_at # <<>> /\ sent_at' = Tail(sent_at))
  BY DEF ReadAck, loop, pipeline
<1>2. Unsent' = Unsent  BY <1>1 DEF Unsent
<1>3. OrderTypes /\ index \in Index /\ sent_at \in Seq(Index)
  BY OrderTyped DEF FlowInv, FlowTypes, AckTypes
<1>4. CASE sent_at' = sent_at
  <2>1. Order' = Order  BY <1>1, <1>2, <1>4, Zenon DEF Order
  <2> QED  BY <1>1, <2>1, OrderSame
<1>5. CASE sent_at # <<>> /\ sent_at' = Tail(sent_at)
  <2> DEFINE a == sent_at \o Unsent
             b == a \o coded
             c == b \o encoding
  <2>1. /\ Unsent \in Seq(Index) /\ coded \in Seq(Index) /\ encoding \in Seq(Index)
        /\ raw \in Seq(Index) /\ Order \in Seq(Index)
        /\ a \in Seq(Index) /\ b \in Seq(Index) /\ c \in Seq(Index)
    BY <1>3 DEF OrderTypes, FlowInv, FlowTypes
  <2>2. Order = c \o raw  BY Zenon DEF Order
  <2>3. Order' = Tail(sent_at) \o Unsent \o coded \o encoding \o raw
    BY <1>1, <1>2, <1>5, Zenon DEF Order
  <2>4. a # <<>> /\ Tail(a) = Tail(sent_at) \o Unsent
    <3>1. TailOver(sent_at, Unsent)  BY <1>3, <1>5, <2>1, TailOverAll, Zenon
    <3> QED  BY <3>1 DEF TailOver
  <2> HIDE DEF a
  <2>5. b # <<>> /\ Tail(b) = Tail(a) \o coded
    <3>1. TailOver(a, coded)  BY <2>1, <2>4, TailOverAll, Zenon
    <3> QED  BY <3>1 DEF TailOver
  <2> HIDE DEF b
  <2>6. c # <<>> /\ Tail(c) = Tail(b) \o encoding
    <3>1. TailOver(b, encoding)  BY <2>1, <2>5, TailOverAll, Zenon
    <3> QED  BY <3>1 DEF TailOver
  <2> HIDE DEF c
  <2>7. Order # <<>> /\ Tail(Order) = Tail(c) \o raw
    <3>1. TailOver(c, raw)  BY <2>1, <2>6, TailOverAll, Zenon
    <3> QED  BY <2>2, <3>1, Zenon DEF TailOver
  <2>8. Order' = Tail(Order)  BY <2>3, <2>4, <2>5, <2>6, <2>7, Zenon
  <2>9. Tail(Order) \in Seq(Index)  BY <2>1, <2>7
  <2>10. Channel!Survives(Tail(Order), Order)  BY <2>1, <2>7, LostHeadOf
  <2> QED  BY <1>1, <1>3, <2>1, <2>8, <2>9, <2>10, OrderFewer
<1> QED  BY <1>1, <1>4, <1>5

LEMMA OrderStep == FlowInv /\ BacklogInv /\ AckTypes /\ OrderOf /\ [Next]_vars => OrderOf'
<1> SUFFICES ASSUME FlowInv, BacklogInv, AckTypes, OrderOf, [Next]_vars PROVE OrderOf'  OBVIOUS
<1>1. ASSUME UNCHANGED <<sent_at, channel, coded, encoding, raw, index>>,
             pc' = "send" <=> pc = "send"
      PROVE  OrderOf'
  <2>1. Unsent' = Unsent  BY <1>1 DEF Unsent
  <2>2. Order' = Order  BY <1>1, <2>1, Zenon DEF Order
  <2> QED  BY <1>1, <2>2, OrderSame
<1>2. CASE UNCHANGED vars \/ Returned \/ CheckShutdown \/ AudioSent \/ VideoSent
           \/ Joined \/ CaptureFails \/ Shutdown
  BY <1>1, <1>2
     DEF vars, Returned, CheckShutdown, AudioSent, VideoSent, GoTo, EndLoop,
         Joined, CaptureFails, Shutdown, pipeline, loop
<1>3. CASE DrainExit \/ AudioPacket \/ AudioExit \/ AckExit \/ SendAudio
  BY <1>1, <1>3
     DEF DrainExit, AudioPacket, AudioExit, AckExit, SendAudio, EndLoop, pipeline, loop
<1>4. CASE TabletStep \/ Disconnect
  BY <1>1, <1>4
     DEF TabletStep, ReadAudio, ReadVideo, OutputBuffer, WriteAck, Disconnect, pipeline, loop
<1>5. CASE Capture  BY <1>5, OrderCapture
<1>6. CASE Encode \/ Emit \/ Drain \/ PipelineFails  BY <1>6, OrderMoves
<1>7. CASE TakePacket \/ SendVideo  BY <1>7, OrderTake
<1>8. CASE \E n \in 1..ACK_LEN : ReadAck(n)  BY <1>8, OrderRead
<1> QED
  BY <1>2, <1>3, <1>4, <1>5, <1>6, <1>7, <1>8 DEF Next, LoopStep, AckStep

-----------------------------------------------------------------------------
(* Each send time is matched with the frame it belongs to.                *)

\* The frames whose acknowledgements have reached the socket.
Answered == AcksIn(buf \o ackWire)

\* The frame that is being sent is the last whose send time was recorded.
LastSent == pc = "send" => sent_at # <<>> /\ sent_at[Len(sent_at)] = Head(channel)

PairInv == Matched(sent_at, Unacked, Pending) /\ LastSent

UnackedTypes ==
  /\ buf \o ackWire \in Seq(Bytes) /\ Answered \in Seq(Index)
  /\ Answered \o pendingAcks \in Seq(Index)
  /\ Answered \o pendingAcks \o decoder \in Seq(Index)
  /\ Unacked \in Seq(Index)
  /\ Unacked = Answered \o pendingAcks \o decoder \o video

LEMMA UnackedTyped == FlowTypes /\ AckTypes => UnackedTypes
<1> SUFFICES ASSUME FlowTypes, AckTypes PROVE UnackedTypes  OBVIOUS
<1>1. /\ decoder \in Seq(Index) /\ video \in Seq(Index) /\ pendingAcks \in Seq(Index)
      /\ buf \in Seq(Bytes) /\ ackWire \in Seq(Bytes)
  BY DEF FlowTypes, AckTypes
<1>2. buf \o ackWire \in Seq(Bytes)  BY <1>1, ConcatProperties
<1>3. Answered \in Seq(Index)  BY <1>2, AcksType DEF Answered
<1>4. Answered \o pendingAcks \in Seq(Index)  BY <1>1, <1>3, ConcatProperties
<1>5. Answered \o pendingAcks \o decoder \in Seq(Index)  BY <1>1, <1>4, ConcatProperties
<1>6. Unacked = Answered \o pendingAcks \o decoder \o video  BY Zenon DEF Unacked, Answered
<1>7. Answered \o pendingAcks \o decoder \o video \in Seq(Index)
  BY <1>1, <1>5, ConcatProperties
<1> QED  BY <1>2, <1>3, <1>4, <1>5, <1>6, <1>7 DEF UnackedTypes

\* The send times recorded ascend.
LEMMA SentAscends ==
  ASSUME FlowTypes, AckTypes, BacklogInv, OrderOf
  PROVE  Ascends(sent_at) /\ sent_at \in Seq(Nat)
<1> DEFINE a == sent_at \o Unsent
           b == a \o coded
           c == b \o encoding
<1>1. /\ a \in Seq(Nat) /\ b \in Seq(Nat) /\ c \in Seq(Nat) /\ sent_at \in Seq(Nat)
      /\ Unsent \in Seq(Nat) /\ coded \in Seq(Nat) /\ encoding \in Seq(Nat) /\ raw \in Seq(Nat)
  <2>1. sent_at \in Seq(Index) /\ coded \in Seq(Index) /\ encoding \in Seq(Index)
        /\ raw \in Seq(Index)
    BY DEF AckTypes, FlowTypes
  <2>2. a \in Seq(Index) /\ b \in Seq(Index) /\ c \in Seq(Index) /\ Unsent \in Seq(Index)
    BY OrderTyped DEF OrderTypes
  <2> HIDE DEF a, b, c
  <2> QED  BY <2>1, <2>2, IndexNat
<1>2. Ascends(c \o raw)  BY Zenon DEF OrderOf, InOrder, Order
<1> HIDE DEF c
<1>3. Ascends(c)  BY <1>1, <1>2, AscendsPrefix
<1> HIDE DEF b
<1>4. Ascends(b)  BY <1>1, <1>3, AscendsPrefix DEF c
<1> HIDE DEF a
<1>5. Ascends(a)  BY <1>1, <1>4, AscendsPrefix DEF b
<1>6. Ascends(sent_at)  BY <1>1, <1>5, AscendsPrefix DEF a
<1> QED  BY <1>1, <1>6

\* What stays matched when some of what is under way is lost.
LEMMA PairsLost ==
  ASSUME FlowTypes, AckTypes, BacklogInv, OrderOf, PairInv,
         UNCHANGED <<sent_at, pc>>, pc = "send" => Head(channel') = Head(channel),
         NEW u \in Seq(Index), Unacked' = u, Channel!Survives(u, Unacked)
  PROVE  PairInv'
<1>1. Ascends(sent_at) /\ sent_at \in Seq(Nat)  BY SentAscends
<1>2. Unacked \in Seq(Nat) /\ u \in Seq(Nat)
  BY UnackedTyped, IndexNat DEF UnackedTypes
<1>3. Pending \in {0, 1} /\ Pending' = Pending  BY DEF Pending
<1>4. Matched(sent_at, u, Pending)
  BY <1>1, <1>2, <1>3, MatchedLost DEF PairInv
<1> QED  BY <1>3, <1>4 DEF PairInv, LastSent

LEMMA PairsKept ==
  ASSUME PairInv, UNCHANGED <<sent_at, pc, Unacked>>, pc = "send" => Head(channel') = Head(channel)
  PROVE  PairInv'
  BY DEF PairInv, LastSent, Pending

LEMMA PairsRead ==
  ASSUME FlowInv, AckTypes, BacklogInv, OrderOf, PairInv, ReadVideo
  PROVE  PairInv'
<1> FlowTypes /\ UnackedTypes  BY UnackedTyped DEF FlowInv
<1> DEFINE x == Answered \o pendingAcks
           y == x \o decoder
<1>1. /\ x \in Seq(Index) /\ y \in Seq(Index) /\ decoder \in Seq(Index)
      /\ video \in Seq(Index) /\ video # <<>> /\ Unacked = y \o video
  BY HeadIsThere DEF FlowTypes, UnackedTypes, ReadVideo
<1>2. /\ video' = Tail(video)
      /\ UNCHANGED <<sent_at, pc, channel, ackWire, buf, pendingAcks>>
  BY DEF ReadVideo, loop
<1>3. Answered' = Answered  BY <1>2 DEF Answered
<1>4. Unacked' = x \o decoder' \o Tail(video)  BY <1>2, <1>3, Zenon DEF Unacked, Answered
<1>5. CASE decoder' = Append(decoder, Head(video))
  <2>1. Head(video) \in Index  BY <1>1
  <2>2. decoder' = decoder \o <<Head(video)>>  BY <1>1, <1>5, <2>1, AppendIsConcat
  <2> HIDE DEF x
  <2>3. HandsOver(x, decoder, video)  BY <1>1, HandOverAll, Zenon
  <2>4. Unacked' = Unacked  BY <1>1, <1>4, <2>2, <2>3, Zenon DEF HandsOver
  <2> QED  BY <1>2, <2>4, PairsKept
<1>6. CASE decoder' = decoder
  <2>1. Unacked' = y \o Tail(video) /\ Tail(video) \in Seq(Index)  BY <1>1, <1>4, <1>6
  <2> HIDE DEF x, y
  <2>2. y \o Tail(video) \in Seq(Index)  BY <1>1, <2>1, ConcatProperties
  <2>3. Channel!Survives(y \o Tail(video), y \o video)  BY <1>1, LostHeadLast
  <2> QED  BY <1>1, <1>2, <2>1, <2>2, <2>3, PairsLost
<1> QED  BY <1>5, <1>6 DEF ReadVideo

LEMMA PairsOutput ==
  ASSUME FlowInv, AckTypes, BacklogInv, OrderOf, PairInv, OutputBuffer
  PROVE  PairInv'
<1> FlowTypes /\ UnackedTypes  BY UnackedTyped DEF FlowInv
<1> DEFINE x == Answered \o pendingAcks
           rest == Tail(decoder)
<1>1. /\ Answered \in Seq(Index) /\ x \in Seq(Index) /\ decoder \in Seq(Index)
      /\ pendingAcks \in Seq(Index) /\ decoder # <<>>
      /\ video \in Seq(Index) /\ Unacked = x \o decoder \o video
  BY DEF FlowTypes, AckTypes, UnackedTypes, OutputBuffer
<1>2. /\ decoder' = rest
      /\ UNCHANGED <<sent_at, pc, channel, ackWire, buf, video>>
  BY DEF OutputBuffer, loop, socket
<1>3. Answered' = Answered  BY <1>2 DEF Answered
<1>4. Unacked' = Answered \o pendingAcks' \o rest \o video
  BY <1>2, <1>3, Zenon DEF Unacked, Answered
<1>5. CASE pendingAcks' = Append(pendingAcks, Head(decoder))
  <2>1. Head(decoder) \in Index  BY <1>1
  <2>2. pendingAcks' = pendingAcks \o <<Head(decoder)>>  BY <1>1, <1>5, <2>1, AppendIsConcat
  <2>3. HandsOver(Answered, pendingAcks, decoder)  BY <1>1, HandOverAll, Zenon
  <2>4. Unacked' = Unacked  BY <1>1, <1>4, <2>2, <2>3, Zenon DEF HandsOver
  <2> QED  BY <1>2, <2>4, PairsKept
<1>6. CASE pendingAcks' = pendingAcks
  <2>1. Unacked' = x \o rest \o video /\ rest \in Seq(Index)  BY <1>1, <1>4, <1>6
  <2> HIDE DEF x
  <2>2. Channel!Survives(x \o (rest \o video), x \o (decoder \o video))
    BY <1>1, LostHead
  <2> HIDE DEF rest
  <2>3. SameTriple(x, rest, video) /\ SameTriple(x, decoder, video)
    BY <1>1, <2>1, AssocAll, Zenon
  <2>4. Channel!Survives(x \o rest \o video, Unacked)
    BY <1>1, <2>2, <2>3, Zenon DEF SameTriple
  <2>5. x \o rest \o video \in Seq(Index)
    <3>1. x \o rest \in Seq(Index)  BY <1>1, <2>1, ConcatProperties
    <3> QED  BY <1>1, <3>1, ConcatProperties
  <2> QED  BY <1>2, <2>1, <2>4, <2>5, PairsLost
<1> QED  BY <1>5, <1>6 DEF OutputBuffer

LEMMA PairsWriteAck ==
  ASSUME FlowInv, AckTypes, PairInv, WriteAck
  PROVE  PairInv'
<1> FlowTypes /\ UnackedTypes  BY UnackedTyped DEF FlowInv
<1> DEFINE h == Head(pendingAcks)
           rest == Tail(pendingAcks)
<1>1. /\ Answered \in Seq(Index) /\ pendingAcks \in Seq(Index) /\ pendingAcks # <<>>
      /\ h \in Index /\ buf \in Seq(Bytes) /\ ackWire \in Seq(Bytes)
      /\ buf \o ackWire \in Seq(Bytes)
  BY DEF AckTypes, UnackedTypes, WriteAck
<1>2. /\ ackWire' = ackWire \o Halves(h) /\ pendingAcks' = rest
      /\ UNCHANGED <<sent_at, pc, channel, buf, decoder, video>>
  BY DEF WriteAck, loop
<1>3. PICK k \in Nat : Len(buf \o ackWire) = 2 * k
  <2>1. PICK k \in Nat : Len(buf) + Len(ackWire) = 2 * k  BY DEF WriteAck, AckTypes
  <2>2. Len(buf \o ackWire) = Len(buf) + Len(ackWire)  BY <1>1, ConcatProperties
  <2> QED  BY <2>1, <2>2
<1>4. Halves(h) \in Seq(Bytes)  BY <1>1 DEF Halves, Bytes
<1>5. buf' \o ackWire' = buf \o ackWire \o Halves(h)
  <2>1. SameTriple(buf, ackWire, Halves(h))  BY <1>1, <1>4, AssocAll, Zenon
  <2> QED  BY <1>2, <2>1, Zenon DEF SameTriple
<1>6. Answered' = Append(Answered, h)
  <2> HIDE DEF h
  <2>1. AcksIn(buf \o ackWire \o Halves(h)) = Append(AcksIn(buf \o ackWire), h)
    BY <1>1, <1>3, AcksAppend
  <2> QED  BY <1>5, <2>1, Zenon DEF Answered
<1>7. Answered' = Answered \o <<h>>  BY <1>1, <1>6, AppendIsConcat
<1>8. Moves(Answered, pendingAcks)  BY <1>1, MovesAll, Zenon
<1>9. Unacked' = Answered' \o rest \o decoder \o video
  BY <1>2, Zenon DEF Unacked, Answered
<1>10. Unacked' = Unacked  BY <1>7, <1>8, <1>9, Zenon DEF Moves, UnackedTypes
<1> QED  BY <1>2, <1>10, PairsKept

\* Of what was under way only the acknowledgements that had arrived may be left.
LEMMA PairsDisconnect ==
  ASSUME FlowInv, AckTypes, BacklogInv, OrderOf, PairInv, Disconnect
  PROVE  PairInv'
<1> FlowTypes /\ UnackedTypes  BY UnackedTyped DEF FlowInv
<1> DEFINE x == Answered \o pendingAcks
           y == x \o decoder
<1>1. /\ Answered \in Seq(Nat) /\ x \in Seq(Nat) /\ y \in Seq(Nat)
      /\ pendingAcks \in Seq(Nat) /\ decoder \in Seq(Nat) /\ video \in Seq(Nat)
      /\ sent_at \in Seq(Nat) /\ Ascends(sent_at) /\ Pending \in {0, 1}
      /\ Unacked = y \o video
  <2>1. /\ Answered \in Seq(Index) /\ x \in Seq(Index) /\ y \in Seq(Index)
        /\ pendingAcks \in Seq(Index) /\ decoder \in Seq(Index) /\ video \in Seq(Index)
    BY DEF UnackedTypes, FlowTypes, AckTypes
  <2>2. Unacked = y \o video  BY DEF UnackedTypes
  <2> HIDE DEF x, y
  <2>3. sent_at \in Seq(Nat) /\ Ascends(sent_at)  BY SentAscends
  <2>4. Pending \in {0, 1}  BY DEF Pending
  <2> QED  BY <2>1, <2>2, <2>3, <2>4, IndexNat
<1>2. Matched(sent_at, y \o video, Pending)  BY <1>1 DEF PairInv
<1> HIDE DEF y
<1>3. Matched(sent_at, y, Pending)  BY <1>1, <1>2, MatchedFirst
<1> HIDE DEF x
<1>4. Matched(sent_at, x, Pending)  BY <1>1, <1>3, MatchedFirst DEF y
<1>5. Matched(sent_at, Answered, Pending)  BY <1>1, <1>4, MatchedFirst DEF x
<1>6. Matched(sent_at, <<>>, Pending)
  <2>1. Len(Answered) \in Nat /\ Len(sent_at) \in Nat /\ Len(<<>>) = 0  BY <1>1
  <2>2. 0 + Pending <= Len(sent_at)  BY <1>1, <1>5, <2>1 DEF Matched
  <2> QED  BY <2>1, <2>2 DEF Matched
<1>7. /\ decoder' = <<>> /\ pendingAcks' = <<>> /\ video' = <<>>
      /\ ackWire' = ackWire \/ ackWire' = <<>>
      /\ UNCHANGED <<sent_at, buf, pc, channel>>
  BY DEF Disconnect, loop
<1>8. Answered' = Answered \/ Answered' = <<>>
  <2>1. CASE ackWire' = ackWire  BY <1>7, <2>1 DEF Answered
  <2>2. CASE ackWire' = <<>>
    <3>1. buf \in Seq(Bytes) /\ Len(buf) \in {0, 1}  BY DEF AckTypes
    <3>2. buf' \o ackWire' = buf  BY <1>7, <2>2, <3>1
    <3>3. Len(buf) \div 2 = 0
      <4>1. Len(buf) = 2 * 0 \/ Len(buf) = 2 * 0 + 1  BY <3>1
      <4> QED  BY <3>1, <4>1, HalfIs
    <3>4. AcksIn(buf) \in Seq(Index) /\ Len(AcksIn(buf)) = 0  BY <3>1, <3>3, AcksType
    <3>5. AcksIn(buf) = <<>>  BY <3>4
    <3> QED  BY <3>2, <3>5 DEF Answered
  <2> QED  BY <1>7, <2>1, <2>2
<1>9. Unacked' = Answered'
  <2>1. Unacked' = Answered' \o <<>> \o <<>> \o <<>>  BY <1>7, Zenon DEF Unacked, Answered
  <2>2. Answered' \in Seq(Nat)
    <3>1. <<>> \in Seq(Nat) /\ Answered \in Seq(Nat)  BY <1>1
    <3> QED  BY <1>8, <3>1
  <2>3. Answered' \o <<>> = Answered'  BY <2>2
  <2> QED  BY <2>1, <2>3, Zenon
<1>10. Matched(sent_at, Unacked', Pending)  BY <1>5, <1>6, <1>8, <1>9
<1> QED  BY <1>7, <1>10 DEF PairInv, LastSent, Pending

LEMMA PairsTake ==
  ASSUME FlowInv, AckTypes, PairInv, TakePacket
  PROVE  PairInv'
<1> FlowTypes /\ UnackedTypes  BY UnackedTyped DEF FlowInv
<1> DEFINE h == Head(channel)
<1>1. /\ sent_at \in Seq(Nat) /\ Unacked \in Seq(Nat) /\ h \in Nat
  <2>1. sent_at \in Seq(Index) /\ Unacked \in Seq(Index) /\ h \in Index
    BY DEF FlowTypes, AckTypes, UnackedTypes, TakePacket
  <2> QED  BY <2>1, IndexNat
<1>2. /\ pc # "send" /\ pc' = "send" /\ sent_at' = Append(sent_at, h) /\ channel' = channel
      /\ UNCHANGED <<buf, ackWire, pendingAcks, decoder, video>>
  BY DEF TakePacket, GoTo, socket, tablet
<1>3. Unacked' = Unacked  BY <1>2, Zenon DEF Unacked
<1>4. Matched(sent_at, Unacked, 0)  BY <1>2 DEF PairInv, Pending
<1>5. Matched(sent_at', Unacked, 1)  BY <1>1, <1>2, <1>4, MatchedTaken
<1>6. sent_at' # <<>> /\ sent_at'[Len(sent_at')] = h  BY <1>1, <1>2
<1> QED  BY <1>2, <1>3, <1>5, <1>6 DEF PairInv, LastSent, Pending

LEMMA PairsSend ==
  ASSUME FlowInv, AckTypes, BacklogInv, OrderOf, PairInv, SendVideo
  PROVE  PairInv'
<1> FlowTypes /\ UnackedTypes  BY UnackedTyped DEF FlowInv
<1> DEFINE h == Head(channel)
<1>1. /\ sent_at \in Seq(Nat) /\ Unacked \in Seq(Nat) /\ h \in Nat /\ Ascends(sent_at)
      /\ Answered \o pendingAcks \o decoder \in Seq(Index) /\ video \in Seq(Index)
      /\ h \in Index /\ Unacked \in Seq(Index)
  <2>1. Unacked \in Seq(Index) /\ h \in Index /\ video \in Seq(Index)
    BY DEF FlowTypes, UnackedTypes, BacklogInv, SendVideo
  <2>2. Ascends(sent_at) /\ sent_at \in Seq(Nat)  BY SentAscends
  <2>3. Answered \o pendingAcks \o decoder \in Seq(Index)  BY DEF UnackedTypes
  <2> HIDE DEF h
  <2> QED  BY <2>1, <2>2, <2>3, IndexNat
<1>2. /\ pc = "send" /\ pc' # "send"
      /\ UNCHANGED <<sent_at, buf, ackWire, pendingAcks, decoder>>
      /\ video' = video \/ video' = video \o <<h>>
  BY DEF SendVideo, GoTo, EndLoop, tablet, Written, socket
<1>3. Matched(sent_at, Unacked, 1) /\ h = sent_at[Len(sent_at)]
  BY <1>2 DEF PairInv, LastSent, Pending
<1>4. CASE video' = video
  <2>1. Unacked' = Unacked  BY <1>2, <1>4, Zenon DEF Unacked
  <2>2. Matched(sent_at, Unacked, 0)
    <3>1. Len(sent_at) \in Nat /\ Len(Unacked) \in Nat  BY <1>1
    <3> QED  BY <1>3, <3>1 DEF Matched
  <2> QED  BY <1>2, <2>1, <2>2 DEF PairInv, LastSent, Pending
<1>5. CASE video' = video \o <<h>>
  <2> DEFINE x == Answered \o pendingAcks \o decoder
  <2>1. Unacked' = x \o (video \o <<h>>) /\ Unacked = x \o video
    BY <1>2, <1>5, Zenon DEF Unacked, Answered
  <2>2. SameTriple(x, video, <<h>>)
    <3>1. <<h>> \in Seq(Index)  BY <1>1
    <3> QED  BY <1>1, <3>1, AssocAll, Zenon
  <2>3. Unacked' = Unacked \o <<h>>  BY <2>1, <2>2, Zenon DEF SameTriple
  <2>4. Unacked' = Append(Unacked, h)  BY <1>1, <2>3, AppendIsConcat
  <2>5. Matched(sent_at, Append(Unacked, h), 0)  BY <1>1, <1>3, MatchedSent
  <2> QED  BY <1>2, <2>4, <2>5 DEF PairInv, LastSent, Pending
<1> QED  BY <1>2, <1>4, <1>5

\* What a read does to the acknowledgements that are under way: it takes the first
\* away when it completes it, and else nothing.
LEMMA ReadTakes ==
  ASSUME FlowInv, AckTypes, NEW n \in 1..ACK_LEN, ReadAck(n)
  PROVE  /\ Unacked \in Seq(Index)
         /\ n + Len(buf) # ACK_LEN => sent_at' = sent_at /\ Unacked' = Unacked
         /\ n + Len(buf) = ACK_LEN =>
              /\ Unacked # <<>> /\ Unacked' = Tail(Unacked) /\ AckOf(n) = Unacked[1]
              /\ sent_at' = IF sent_at # <<>> THEN Tail(sent_at) ELSE sent_at
<1> FlowTypes /\ UnackedTypes  BY UnackedTyped DEF FlowInv
<1> DEFINE bytes == buf \o SubSeq(ackWire, 1, n)
           rest == SubSeq(ackWire, n + 1, Len(ackWire))
           all == buf \o ackWire
<1>1. n \in 1..2 /\ n <= Len(ackWire) /\ n <= 2 - Len(buf)  BY DEF ReadAck, ACK_LEN
<1>2. /\ bytes \in Seq(Bytes) /\ rest \in Seq(Bytes)
      /\ Len(bytes) = Len(buf) + n /\ Len(rest) = Len(ackWire) - n
      /\ bytes \o rest = all
      /\ Len(bytes) = 2 => rest = SubSeq(all, 3, Len(all)) /\ bytes[2] = all[2]
  BY <1>1, ReadBytes
<1>3. /\ ackWire' = rest /\ buf' = Kept(bytes)
      /\ UNCHANGED <<pendingAcks, decoder, video>>
      /\ sent_at' = IF Len(bytes) = 2 /\ sent_at # <<>> THEN Tail(sent_at) ELSE sent_at
  BY DEF ReadAck, tablet, ACK_LEN
<1>4. AckOf(n) = bytes[2].pts  BY DEF AckOf, ACK_LEN
<1>5. /\ all \in Seq(Bytes) /\ Len(buf) \in Nat /\ Answered = AcksIn(all)
      /\ Len(all) = Len(buf) + Len(ackWire) /\ Len(ackWire) \in Nat
  BY DEF AckTypes, Answered
<1> HIDE DEF bytes, rest, all
<1>6. Unacked' = AcksIn(buf' \o rest) \o pendingAcks \o decoder \o video
  BY <1>3, Zenon DEF Unacked
<1>7. ASSUME n + Len(buf) # ACK_LEN
      PROVE  sent_at' = sent_at /\ Unacked' = Unacked
  <2>1. Len(bytes) # 2  BY <1>1, <1>2, <1>5, <1>7 DEF ACK_LEN
  <2>2. buf' = bytes /\ sent_at' = sent_at  BY <1>3, <2>1 DEF Kept, ACK_LEN
  <2>3. buf' \o rest = all  BY <1>2, <2>2
  <2> QED  BY <1>5, <1>6, <2>2, <2>3, Zenon DEF UnackedTypes
<1>8. ASSUME n + Len(buf) = ACK_LEN
      PROVE  /\ Unacked # <<>> /\ Unacked' = Tail(Unacked) /\ AckOf(n) = Unacked[1]
             /\ sent_at' = IF sent_at # <<>> THEN Tail(sent_at) ELSE sent_at
  <2>1. Len(bytes) = 2  BY <1>1, <1>2, <1>5, <1>8 DEF ACK_LEN
  <2>2. buf' = <<>> /\ sent_at' = IF sent_at # <<>> THEN Tail(sent_at) ELSE sent_at
    BY <1>3, <2>1 DEF Kept, ACK_LEN
  <2>3. buf' \o rest = SubSeq(all, 3, Len(all)) /\ bytes[2] = all[2]
    <3>1. <<>> \o rest = rest  BY <1>2
    <3> QED  BY <1>2, <2>1, <2>2, <3>1, Zenon
  <2>4. Len(all) >= 2  BY <1>1, <1>5, <1>8 DEF ACK_LEN
  <2>5. /\ Answered # <<>> /\ Answered[1] = AckOf(n)
        /\ AcksIn(buf' \o rest) = Tail(Answered)
    <3>1. /\ AcksIn(all) # <<>> /\ AcksIn(all)[1] = all[2].pts
          /\ AcksIn(SubSeq(all, 3, Len(all))) = Tail(AcksIn(all))
      BY <1>5, <2>4, AcksTail
    <3> QED  BY <1>4, <1>5, <2>3, <3>1, Zenon
  <2> DEFINE x == Answered \o pendingAcks
             y == x \o decoder
  <2>6. /\ Answered \in Seq(Index) /\ x \in Seq(Index) /\ y \in Seq(Index)
        /\ pendingAcks \in Seq(Index) /\ decoder \in Seq(Index) /\ video \in Seq(Index)
        /\ Unacked = y \o video
    BY DEF UnackedTypes, FlowTypes, AckTypes
  <2>7. Unacked' = Tail(Answered) \o pendingAcks \o decoder \o video
    BY <1>6, <2>5, Zenon
  <2>8. x # <<>> /\ Tail(x) = Tail(Answered) \o pendingAcks /\ x[1] = Answered[1]
    BY <2>5, <2>6, FirstOf
  <2> HIDE DEF x
  <2>9. y # <<>> /\ Tail(y) = Tail(x) \o decoder /\ y[1] = x[1]
    BY <2>6, <2>8, FirstOf
  <2> HIDE DEF y
  <2>10. Unacked # <<>> /\ Tail(Unacked) = Tail(y) \o video /\ Unacked[1] = y[1]
    <3>1. y \o video # <<>> /\ Tail(y \o video) = Tail(y) \o video /\ (y \o video)[1] = y[1]
      BY <2>6, <2>9, FirstOf
    <3> QED  BY <2>6, <3>1, Zenon
  <2> QED  BY <2>2, <2>5, <2>7, <2>8, <2>9, <2>10, Zenon
<1> QED  BY <1>7, <1>8, Zenon DEF UnackedTypes

\* The send time an acknowledgement takes away is matched with its frame.
LEMMA PairsAck ==
  ASSUME FlowInv, AckTypes, BacklogInv, OrderOf, PairInv, NEW n \in 1..ACK_LEN, ReadAck(n)
  PROVE  PairInv'
<1> FlowTypes /\ UnackedTypes  BY UnackedTyped DEF FlowInv
<1>1. UNCHANGED <<pc, channel>>  BY DEF ReadAck, loop
<1>2. CASE n + Len(buf) # ACK_LEN
  <2>1. sent_at' = sent_at /\ Unacked' = Unacked  BY <1>2, ReadTakes
  <2> QED  BY <1>1, <2>1, PairsKept
<1>3. CASE n + Len(buf) = ACK_LEN
  <2>1. /\ Unacked # <<>> /\ Unacked' = Tail(Unacked)
        /\ sent_at' = IF sent_at # <<>> THEN Tail(sent_at) ELSE sent_at
    BY <1>3, ReadTakes
  <2>2. Unacked \in Seq(Nat) /\ sent_at \in Seq(Nat) /\ Pending \in {0, 1}
    <3>1. Unacked \in Seq(Nat)  BY IndexNat DEF UnackedTypes
    <3>2. sent_at \in Seq(Nat)  BY SentAscends
    <3> QED  BY <3>1, <3>2 DEF Pending
  <2>3. Matched(sent_at, Unacked, Pending)  BY DEF PairInv
  <2>4. sent_at # <<>> /\ Len(sent_at) > Pending /\ Matched(Tail(sent_at), Tail(Unacked), Pending)
    BY <2>1, <2>2, <2>3, MatchedAcked
  <2>5. sent_at' = Tail(sent_at)  BY <2>1, <2>4
  <2>6. Len(Tail(sent_at)) >= Pending  BY <2>2, <2>4
  <2>7. ASSUME pc = "send"
        PROVE  Tail(sent_at) # <<>> /\ Tail(sent_at)[Len(Tail(sent_at))] = Head(channel)
    <3>1. Len(sent_at) > 1 /\ sent_at[Len(sent_at)] = Head(channel)
      BY <2>4, <2>7 DEF Pending, PairInv, LastSent
    <3>2. Len(Tail(sent_at)) = Len(sent_at) - 1
          /\ Tail(sent_at)[Len(sent_at) - 1] = sent_at[Len(sent_at)]
      BY <2>2, <3>1
    <3>3. Len(sent_at) \in Nat /\ Len(<<>>) = 0  BY <2>2
    <3>4. Tail(sent_at) # <<>>
      <4>1. Len(Tail(sent_at)) # 0  BY <3>1, <3>2, <3>3
      <4> QED  BY <3>3, <4>1, Zenon
    <3> QED  BY <3>1, <3>2, <3>4
  <2> QED  BY <1>1, <2>1, <2>4, <2>5, <2>7 DEF PairInv, LastSent, Pending
<1> QED  BY <1>2, <1>3

LEMMA PairStep ==
  FlowInv /\ BacklogInv /\ AckTypes /\ OrderOf /\ PairInv /\ [Next]_vars => PairInv'
<1> SUFFICES ASSUME FlowInv, BacklogInv, AckTypes, OrderOf, PairInv, [Next]_vars PROVE PairInv'
  OBVIOUS
<1>1. ASSUME UNCHANGED <<sent_at, buf, ackWire, pendingAcks, decoder, video>>,
             pc' = "send" <=> pc = "send", pc = "send" => Head(channel') = Head(channel)
      PROVE  PairInv'
  <2>1. Unacked' = Unacked  BY <1>1, Zenon DEF Unacked
  <2> QED  BY <1>1, <2>1 DEF PairInv, LastSent, Pending
<1>2. CASE UNCHANGED vars \/ Returned \/ CheckShutdown \/ AudioSent \/ VideoSent
           \/ Joined \/ CaptureFails \/ Shutdown \/ Capture
  BY <1>1, <1>2
     DEF vars, Returned, CheckShutdown, AudioSent, VideoSent, GoTo, EndLoop,
         Joined, CaptureFails, Shutdown, Capture, socket, tablet, loop
<1>3. CASE DrainExit \/ AudioPacket \/ AudioExit \/ AckExit \/ ReadAudio
           \/ Encode \/ Emit \/ PipelineFails
  BY <1>1, <1>3
     DEF DrainExit, AudioPacket, AudioExit, AckExit, ReadAudio, Encode, Emit, PipelineFails,
         socket, tablet, loop
<1>4. CASE SendAudio
  <2>1. video' = video \/ video' = video \o <<>>
    BY <1>4 DEF SendAudio, Written, socket
  <2>2. video' = video
    <3>1. video \in Seq(Index)  BY DEF FlowInv, FlowTypes
    <3>2. video \o <<>> = video  BY <3>1
    <3> QED  BY <2>1, <3>2
  <2>3. UNCHANGED <<sent_at, buf, ackWire, pendingAcks, decoder, channel>>
        /\ (pc' = "send" <=> pc = "send")
    BY <1>4 DEF SendAudio, Written, EndLoop, socket, tablet, loop
  <2> QED  BY <1>1, <2>2, <2>3
<1>5. CASE Drain
  <2>1. UNCHANGED <<sent_at, buf, ackWire, pendingAcks, decoder, video, pc>>
        /\ channel' = Append(channel, Head(coded)) /\ coded # <<>>
    BY <1>5 DEF Drain, socket, tablet, loop
  <2>2. channel \in Seq(Index) /\ Head(coded) \in Index /\ (pc = "send" => channel # <<>>)
    BY <2>1 DEF FlowInv, FlowTypes, BacklogInv
  <2>3. pc = "send" => Head(channel') = Head(channel)  BY <2>1, <2>2
  <2> QED  BY <1>1, <2>1, <2>3
<1>6. CASE TakePacket  BY <1>6, PairsTake
<1>7. CASE SendVideo  BY <1>7, PairsSend
<1>8. CASE \E n \in 1..ACK_LEN : ReadAck(n)  BY <1>8, PairsAck
<1>9. CASE ReadVideo \/ OutputBuffer \/ WriteAck
  BY <1>9, PairsRead, PairsOutput, PairsWriteAck
<1>10. CASE Disconnect  BY <1>10, PairsDisconnect
<1> QED
  BY <1>2, <1>3, <1>4, <1>5, <1>6, <1>7, <1>8, <1>9, <1>10
     DEF Next, LoopStep, AckStep, TabletStep

LEMMA AckInit == Init => AckTypes /\ OrderOf /\ PairInv
<1> SUFFICES ASSUME Init PROVE AckTypes /\ OrderOf /\ PairInv  OBVIOUS
<1>1. /\ sent_at = <<>> /\ channel = <<>> /\ coded = <<>> /\ encoding = <<>> /\ raw = <<>>
      /\ buf = <<>> /\ ackWire = <<>> /\ pendingAcks = <<>> /\ decoder = <<>> /\ video = <<>>
      /\ pc = "check"
  BY DEF Init
<1>2. <<>> \in Seq(Index) /\ <<>> \in Seq(Bytes) /\ Len(<<>>) = 0 /\ <<>> \o <<>> = <<>>
  OBVIOUS
<1>3. AckTypes
  <2>1. 0 \in 0..0 /\ 0 + 0 = 2 * 0  OBVIOUS
  <2> QED  BY <1>1, <1>2, <2>1 DEF AckTypes
<1>4. Order = <<>>  BY <1>1, <1>2 DEF Order, Unsent
<1>5. OrderOf  BY <1>2, <1>4 DEF OrderOf, InOrder, Ascends
<1>6. Unacked = <<>>
  <2>1. AcksIn(<<>>) = <<>>
    <3>1. 0 \div 2 = 0
      <4>1. 0 = 2 * 0  OBVIOUS
      <4> QED  BY <4>1, HalfIs
    <3>2. AcksIn(<<>>) \in Seq(Index) /\ Len(AcksIn(<<>>)) = 0  BY <1>2, <3>1, AcksType
    <3> QED  BY <3>2
  <2> QED  BY <1>1, <1>2, <2>1 DEF Unacked
<1>7. PairInv  BY <1>1, <1>2, <1>6 DEF PairInv, LastSent, Matched, Pending
<1> QED  BY <1>3, <1>5, <1>7

\* What the match says of the acknowledgement that a read completes.
LEMMA PairedNow ==
  FlowInv /\ BacklogInv /\ AckTypes /\ OrderOf /\ PairInv =>
    \A n \in 1..ACK_LEN : CompletesAck(n) =>
       /\ sent_at # <<>>
       /\ Head(sent_at) <= AckOf(n)
       /\ Lost <= (IF pc = "send" THEN 1 ELSE 0) => Head(sent_at) = AckOf(n)
<1> SUFFICES ASSUME FlowInv, BacklogInv, AckTypes, OrderOf, PairInv,
                    NEW n \in 1..ACK_LEN, CompletesAck(n)
             PROVE  /\ sent_at # <<>>
                    /\ Head(sent_at) <= AckOf(n)
                    /\ Lost <= (IF pc = "send" THEN 1 ELSE 0) => Head(sent_at) = AckOf(n)
  OBVIOUS
<1> FlowTypes /\ UnackedTypes  BY UnackedTyped DEF FlowInv
<1>1. Unacked # <<>> /\ AckOf(n) = Unacked[1]  BY ReadTakes DEF CompletesAck
<1>2. Unacked \in Seq(Nat) /\ sent_at \in Seq(Nat) /\ Pending \in {0, 1}
  <2>1. Unacked \in Seq(Nat)  BY IndexNat DEF UnackedTypes
  <2>2. sent_at \in Seq(Nat)  BY SentAscends
  <2> QED  BY <2>1, <2>2 DEF Pending
<1>3. Matched(sent_at, Unacked, Pending)  BY DEF PairInv
<1>4. sent_at # <<>> /\ Head(sent_at) = sent_at[1]  BY <1>1, <1>2, <1>3, MatchedAcked
<1>5. 1 \in 1..Len(Unacked)  BY <1>1, <1>2
<1>6. sent_at[1] <= Unacked[1]  BY <1>3, <1>5 DEF Matched
<1>7. Lost <= Pending => sent_at[1] = Unacked[1]  BY <1>3, <1>5 DEF Matched, Lost
<1> QED  BY <1>1, <1>4, <1>6, <1>7 DEF Pending

\* For every session and wherever a read cuts an acknowledgement: the send time it takes
\* is that of the frame acknowledged or an earlier one, and its own as long as nothing
\* was lost (session.rs:504-507).  The invariant matches the send times, by position,
\* with the frames from the wire to the acknowledgement being read.
THEOREM AcksArePaired == Spec => AcksPaired
<1>1. [Next /\ UNCHANGED setup]_<<setup, vars>> => [Next]_vars  OBVIOUS
<1> DEFINE IInv == FlowInv /\ BacklogInv /\ AckTypes /\ OrderOf /\ PairInv
<1>2. Init => IInv  BY FlowInit, BacklogInit, AckInit
<1>3. IInv /\ [Next]_vars => IInv'
  BY FlowStep, BacklogStep, AckTypesStep, OrderStep, PairStep
<1>4. IInv => \A n \in 1..ACK_LEN : CompletesAck(n) =>
       /\ sent_at # <<>>
       /\ Head(sent_at) <= AckOf(n)
       /\ Lost <= (IF pc = "send" THEN 1 ELSE 0) => Head(sent_at) = AckOf(n)
  BY PairedNow
<1> HIDE DEF IInv
<1>5. Spec => []IInv  BY <1>1, <1>2, <1>3, PTL DEF Spec
<1> QED  BY <1>4, <1>5, PTL DEF AcksPaired

-----------------------------------------------------------------------------
(* The sound (AudioPath), which takes the same way as far as the socket:   *)
(* its queues are the session's, and its lemmas those above.               *)

CONSTANTS MaxChannel, Cycle, Timed, NoPacket

VARIABLES drain, next, sink, sent

Sound == INSTANCE AudioPath WITH ConstantRate <- Timed

Packets == Sound!Packet

SoundInv == sink \in Seq(Packets) /\ channel \in Seq(Packets) /\ next \in Packets

\* Captured, and neither written to the socket nor dropped.
SoundFlight == channel \o sink

SoundLoses ==
  /\ Sound!Channel!Survives(SoundFlight', SoundFlight)
  /\ sent' = sent

SoundSame == SoundFlight' = SoundFlight /\ sent' = sent

\* What survives, in either channel.
LEMMA SameSurvival ==
  ASSUME NEW short, NEW long, Channel!Survives(short, long)
  PROVE  Sound!Channel!Survives(short, long)
  BY DEF Channel!Survives, Sound!Channel!Survives

LEMMA SoundInit ==
  ASSUME Sound!AudioAssumption, Sound!Init
  PROVE  SoundInv /\ Sound!Channel!Init
<1>1. next = 0 /\ sink = <<>> /\ channel = <<>> /\ sent = NoPacket
  BY DEF Sound!Init
<1>2. 0 \in Packets
  BY SMT DEF Sound!AudioAssumption, Packets, Sound!Packet
<1> QED
  BY <1>1, <1>2 DEF SoundInv, Sound!Channel!Init

\* A packet arrives in the queue, which drops its oldest if it is full.
LEMMA SoundProduce ==
  ASSUME Sound!AudioAssumption, SoundInv, Sound!Produce
  PROVE  SoundInv' /\ \E p \in Packets : Sound!Channel!Capture(p)
<1>1. /\ next \in Packets /\ sink \in Seq(Packets) /\ channel \in Seq(Packets)
      /\ sink' = Append(IF Len(sink) < SinkCap THEN sink ELSE Tail(sink), next)
      /\ next' = (next + 1) % Cycle /\ channel' = channel /\ sent' = sent
  BY DEF SoundInv, Sound!Produce, Sound!Queue
<1>2. next' \in Packets
  BY <1>1, SMT DEF Packets, Sound!Packet, Sound!AudioAssumption
<1>3. PICK kept : kept = IF Len(sink) < SinkCap THEN sink ELSE Tail(sink)
  OBVIOUS
<1>4. kept \in Seq(Packets) /\ (kept = sink \/ (sink # <<>> /\ kept = Tail(sink)))
  <2>1. SinkCap \in Nat \ {0}
    BY SessionAssumption
  <2> QED
    BY <1>1, <1>3, <2>1, SMT
<1>5. sink' = kept \o <<next>> /\ sink' \in Seq(Packets)
  BY <1>1, <1>3, <1>4, AppendIsConcat
<1> DEFINE older == channel \o kept
<1>6. older \in Seq(Packets) /\ SoundFlight' = older \o <<next>>
  <2>1. SameTriple(channel, kept, <<next>>)
    <3>1. <<next>> \in Seq(Packets)
      BY <1>1
    <3> QED
      BY <1>1, <1>4, <3>1, AssocAll, Zenon
  <2>2. older \in Seq(Packets)
    BY <1>1, <1>4, ConcatProperties, Zenon
  <2> QED
    BY <1>1, <1>5, <2>1, <2>2, Zenon DEF SoundFlight, SameTriple
<1>7. Channel!Survives(older, SoundFlight)
  <2>1. CASE kept = sink
    <3>1. <<>> \in Seq(Packets) /\ older \o <<>> = older
      BY <1>6
    <3>2. Channel!Survives(older, older \o <<>>)
      BY <1>6, <3>1, LostLast
    <3> QED
      BY <2>1, <3>1, <3>2 DEF SoundFlight
  <2>2. CASE sink # <<>> /\ kept = Tail(sink)
    BY <1>1, <2>2, LostHeadLast DEF SoundFlight
  <2> QED
    BY <1>4, <2>1, <2>2
<1> HIDE DEF older
<1>8. /\ SoundFlight' = Append(older, next)
      /\ SubSeq(SoundFlight', 1, Len(SoundFlight') - 1) = older
  <2>1. SoundFlight' = Append(older, next)
    BY <1>1, <1>6, AppendIsConcat
  <2>2. SubSeq(Append(older, next), 1, Len(Append(older, next)) - 1) = older
    BY <1>1, <1>6
  <2> QED
    BY <2>1, <2>2
<1>9. Sound!Channel!Capture(next)
  BY <1>1, <1>7, <1>8, SameSurvival DEF Sound!Channel!Capture, SoundFlight
<1> QED
  BY <1>1, <1>2, <1>5, <1>9 DEF SoundInv

\* A packet passes from one queue to the other.
LEMMA SoundPull ==
  ASSUME SoundInv, Sound!Pull
  PROVE  SoundInv' /\ SoundSame
<1>1. /\ sink # <<>> /\ sink \in Seq(Packets) /\ channel \in Seq(Packets) /\ next \in Packets
      /\ channel' = Append(channel, Head(sink)) /\ sink' = Tail(sink)
      /\ next' = next /\ sent' = sent
  BY DEF SoundInv, Sound!Pull
<1>2. /\ Head(sink) \in Packets /\ Tail(sink) \in Seq(Packets)
      /\ channel' \in Seq(Packets)
  BY <1>1
<1>3. channel' = channel \o <<Head(sink)>>
  BY <1>1, <1>2, AppendIsConcat
<1>4. (channel \o <<Head(sink)>>) \o Tail(sink) = channel \o sink
  BY <1>1, Passes
<1> QED
  BY <1>1, <1>2, <1>3, <1>4 DEF SoundInv, SoundSame, SoundFlight

\* A packet is written to the socket, or lost with it.
LEMMA SoundSend ==
  ASSUME SoundInv, Sound!SendAudio
  PROVE  SoundInv' /\ (Sound!Channel!Show \/ SoundLoses)
<1>1. /\ channel # <<>> /\ channel \in Seq(Packets) /\ sink \in Seq(Packets)
      /\ next \in Packets /\ channel' = Tail(channel) /\ sink' = sink /\ next' = next
      /\ (sent' = Head(channel) \/ sent' = sent)
  BY DEF SoundInv, Sound!SendAudio, Sound!session
<1>2. /\ SoundFlight # <<>> /\ Head(SoundFlight) = Head(channel)
      /\ Tail(SoundFlight) = Tail(channel) \o sink
  BY <1>1, HeadTail DEF SoundFlight
<1>3. SoundFlight' = Tail(channel) \o sink
  BY <1>1 DEF SoundFlight
<1>4. ASSUME sent' = Head(channel) PROVE Sound!Channel!Show
  <2>1. SoundFlight # <<>> /\ sent' = Head(SoundFlight) /\ SoundFlight' = Tail(SoundFlight)
    BY <1>2, <1>3, <1>4, Zenon
  <2> QED
    BY <2>1, Zenon DEF Sound!Channel!Show, SoundFlight
<1>5. ASSUME sent' = sent PROVE SoundLoses
  <2>1. Channel!Survives(Tail(channel) \o sink, channel \o sink)
    BY <1>1, LostHeadFirst
  <2>2. Sound!Channel!Survives(SoundFlight', SoundFlight)
    BY <1>3, <2>1, SameSurvival, Zenon DEF SoundFlight
  <2> QED
    BY <1>5, <2>2 DEF SoundLoses
<1>6. SoundInv'
  BY <1>1 DEF SoundInv
<1> QED
  BY <1>1, <1>4, <1>5, <1>6

\* No other step touches a packet.
LEMMA SoundOther ==
  ASSUME SoundInv, [Sound!Next]_(Sound!vars),
         ~Sound!Produce, ~Sound!Pull, ~Sound!SendAudio
  PROVE  SoundInv' /\ SoundSame
<1>1. UNCHANGED <<channel, sink, next, sent>>
  BY DEF Sound!Next, Sound!vars, Sound!PipelineFails, Sound!DrainCheck, Sound!PullTimesOut,
         Sound!Loop, Sound!StartAudio, Sound!Connect, Sound!Check, Sound!AudioSent,
         Sound!Video, Sound!Join, Sound!Capture, Sound!Shutdown, Sound!Done
<1> QED
  BY <1>1 DEF SoundInv, SoundSame, SoundFlight

LEMMA SoundStep ==
  ASSUME Sound!AudioAssumption, SoundInv, [Sound!Next]_(Sound!vars)
  PROVE  SoundInv' /\ [Sound!Channel!Next]_<<SoundFlight, sent>>
<1>1. CASE Sound!Produce
  BY <1>1, SoundProduce DEF Sound!Channel!Next, Packets
<1>2. CASE Sound!Pull
  BY <1>2, SoundPull DEF SoundSame
<1>3. CASE Sound!SendAudio
  BY <1>3, SoundSend DEF SoundLoses, Sound!Channel!Next, Sound!Channel!Lose, SoundFlight
<1>4. CASE ~Sound!Produce /\ ~Sound!Pull /\ ~Sound!SendAudio
  BY <1>4, SoundOther DEF SoundSame
<1> QED
  BY <1>1, <1>2, <1>3, <1>4

\* For every length of the queue and every interleaving of the pipeline, the drain
\* thread and the pacing loop: sound is written to the socket in the order it was
\* captured and each packet once, whatever a full queue drops or a failed write loses
\* (audio/src/lib.rs:168-180).
THEOREM SoundImplemented == ASSUME Sound!AudioAssumption PROVE Sound!Spec => Sound!AudioInOrder
<1>1. Sound!Init => SoundInv /\ Sound!Channel!Init
  BY SoundInit
<1>2. SoundInv /\ [Sound!Next]_(Sound!vars) =>
        SoundInv' /\ [Sound!Channel!Next]_<<SoundFlight, sent>>
  BY SoundStep
<1>3. Sound!Spec => Sound!Channel!Init /\ [][Sound!Channel!Next]_<<SoundFlight, sent>>
  BY <1>1, <1>2, PTL DEF Sound!Spec
<1> QED
  BY <1>3, PTL DEF Sound!AudioInOrder, Sound!Channel!Spec, SoundFlight

-----------------------------------------------------------------------------
(* The clock (PacingLoop): whatever a tick takes and however late a sleep  *)
(* returns, ticks neither burst nor run ahead of the clock.                *)

CONSTANTS Interval, MaxWork, MaxLate, MaxTime, Skew

VARIABLES now, next_tick, pts, recent

Clock == INSTANCE PacingLoop

\* The clock is a number, and so is everything compared with it.
ClockTypes ==
  /\ pc \in {"tick", "pace", "done"}
  /\ now \in Int /\ next_tick \in Int /\ pts \in Int
  /\ recent \in [1..3 -> Int]

\* When the tick that begins was due: the two before it began no later than it
\* and the one before those an interval earlier, or more.
TickInv ==
  pc = "tick" =>
    /\ pts <= next_tick /\ next_tick <= now
    /\ recent[1] <= next_tick + Interval
    /\ recent[2] <= next_tick
    /\ recent[3] + Interval <= next_tick

\* The same of the tick that ends: next_tick is still its own.
PaceInv ==
  pc = "pace" =>
    /\ pts <= next_tick + Interval /\ next_tick <= recent[1] /\ recent[1] <= now
    /\ recent[2] <= next_tick + Interval
    /\ recent[3] <= next_tick

ClockInv == ClockTypes /\ TickInv /\ PaceInv

LEMMA ClockInit == ASSUME Clock!PacingAssumption, Clock!Init PROVE ClockInv
  BY SMT DEF Clock!PacingAssumption, Clock!Init, ClockInv, ClockTypes, TickInv, PaceInv

LEMMA ClockTick == ASSUME Clock!PacingAssumption, ClockInv, Clock!Tick PROVE ClockInv'
<1>1. PICK work \in 0..MaxWork : now' = now + work
  BY DEF Clock!Tick
<1>2. now' \in Int /\ now <= now' /\ pts' = pts + Interval /\ next_tick' = next_tick
  BY <1>1, SMT DEF Clock!PacingAssumption, ClockInv, ClockTypes, Clock!Tick
<1>3. recent' \in [1..3 -> Int] /\ recent'[1] = now /\ recent'[2] = recent[1] /\ recent'[3] = recent[2]
  BY SMT DEF ClockInv, ClockTypes, Clock!Tick
<1> QED
  BY <1>2, <1>3, SMT DEF Clock!PacingAssumption, ClockInv, ClockTypes, TickInv, PaceInv, Clock!Tick

LEMMA ClockSleep == ASSUME Clock!PacingAssumption, ClockInv, Clock!Sleep PROVE ClockInv'
<1>1. PICK late \in 0..MaxLate : now' = next_tick + Interval + late
  BY DEF Clock!Sleep
<1>2. now' \in Int /\ now' >= next_tick'
  BY <1>1, SMT DEF Clock!PacingAssumption, ClockInv, ClockTypes, Clock!Sleep
<1> QED
  BY <1>2, SMT DEF Clock!PacingAssumption, ClockInv, ClockTypes, TickInv, PaceInv, Clock!Sleep

LEMMA ClockStep == ASSUME Clock!PacingAssumption, ClockInv, [Clock!Next]_(Clock!vars) PROVE ClockInv'
<1>1. CASE Clock!Tick
  BY <1>1, ClockTick
<1>2. CASE Clock!Sleep
  BY <1>2, ClockSleep
<1>3. CASE Clock!CatchUp
  BY <1>3, SMT DEF Clock!PacingAssumption, ClockInv, ClockTypes, TickInv, PaceInv, Clock!CatchUp
<1>4. CASE Clock!Resync
  BY <1>4, SMT DEF Clock!PacingAssumption, ClockInv, ClockTypes, TickInv, PaceInv, Clock!Resync
<1>5. CASE Clock!Leave
  BY <1>5 DEF ClockInv, ClockTypes, TickInv, PaceInv, Clock!Leave
<1>6. CASE Clock!Done \/ UNCHANGED Clock!vars
  BY <1>6 DEF ClockInv, ClockTypes, TickInv, PaceInv, Clock!Done, Clock!vars
<1> QED
  BY <1>1, <1>2, <1>3, <1>4, <1>5, <1>6 DEF Clock!Next

LEMMA ClockAlways == ASSUME Clock!PacingAssumption PROVE Clock!Spec => []ClockInv
<1>1. Clock!Init => ClockInv
  BY ClockInit
<1>2. ClockInv /\ [Clock!Next]_(Clock!vars) => ClockInv'
  BY ClockStep
<1> QED
  BY <1>1, <1>2, PTL DEF Clock!Spec

\* Whatever the configured rate, the stalls and the delays of the scheduler, no
\* four ticks begin within less than an interval (session.rs:522-524).
THEOREM BurstsNever == ASSUME Clock!PacingAssumption PROVE Clock!Spec => []Clock!NoBurst
<1>1. ClockInv => Clock!NoBurst
  BY SMT DEF Clock!PacingAssumption, ClockInv, ClockTypes, TickInv, Clock!NoBurst
<1> QED
  BY <1>1, ClockAlways, PTL

\* Nor are frames ever captured faster, in all, than at the rate configured, and
\* no time stamp lies ahead of the clock (session.rs:519-522).
THEOREM RateKeepsCap == ASSUME Clock!PacingAssumption PROVE Clock!Spec => []Clock!RateCapped
<1>1. ClockInv => Clock!RateCapped
  BY SMT DEF ClockInv, ClockTypes, TickInv, Clock!RateCapped
<1> QED
  BY <1>1, ClockAlways, PTL
=============================================================================
