--------------------------- MODULE FrameWire_proofs ---------------------------
(***************************************************************************)
(* Proofs about FrameWire for every window, every size of payload and any  *)
(* number of frames.                                                       *)
(***************************************************************************)
EXTENDS FrameWire, SequenceTheorems, TLAPS

Frames == [stream : {STREAM_TYPE_VIDEO, STREAM_TYPE_AUDIO}, payload : Seq(Nat)]

Reading == reader \in {"start", "header", "payload"}

Types ==
  /\ rest \in Seq(Nat) /\ item \in Seq(Nat) /\ wire \in Seq(Nat)
  /\ head \in Seq(Nat) /\ scratch \in Seq(Nat)
  /\ frames_sent \in Nat /\ bytes_sent \in Nat /\ filled \in Nat /\ received \in Nat
  /\ offered \in Seq(Frames) /\ got \in Seq(Frames)

\* Where in all that is ever sent each frame begins, and where the next one will:
\* the stream header is one byte.
Layout(starts) ==
  /\ starts \in Seq(Nat) /\ Len(starts) = Len(offered) + 1
  /\ starts[1] = 1
  /\ \A k \in 1..Len(offered) :
       starts[k + 1] = starts[k] + FRAME_HEADER_LEN + Len(offered[k].payload)
  /\ \A i, j \in 1..Len(starts) : i <= j => starts[i] <= starts[j]

Sent(starts) == starts[Len(offered) + 1]

Ahead == wire \o rest

\* While the connection is up nothing of what was sent is missing between what the
\* tablet has read and what the host has yet to write.
Flows(starts) ==
  link = "up" =>
    /\ received + Len(Ahead) = IF pc = "connect" THEN 0 ELSE Sent(starts)
    /\ \A k \in 1..Len(offered) : \A j \in 1..Len(encode(offered[k])) :
         \A i \in 1..Len(Ahead) :
           starts[k] + j = received + i => Ahead[i] = encode(offered[k])[j]

Host(starts) ==
  /\ pc \in {"connect", "idle", "write", "failed", "gone"}
  /\ pc \in {"connect", "idle", "gone"} => rest = <<>>
  /\ pc = "connect" => offered = <<>> /\ bytes_sent = 0 /\ frames_sent = 0
  /\ pc = "write" =>
       /\ bytes_sent + Len(item) = Sent(starts)
       /\ frames_sent = IF offered = <<>> THEN 0 ELSE Len(offered) - 1
  /\ pc \in {"idle", "gone"} => bytes_sent = Sent(starts) /\ frames_sent = Len(offered)

Delivered ==
  /\ Len(got) <= Len(offered)
  /\ \A k \in 1..Len(got) : got[k] = offered[k]

\* The frame the tablet is reading.
Current == offered[Len(got) + 1]

HeadRead ==
  /\ Len(head) > 0 => Len(got) < Len(offered)
  /\ \A j \in 1..Len(head) : head[j] = encode(Current)[j]

Tablet(starts) ==
  /\ Reading => link = "up"
  /\ reader = "start" => received = 0 /\ got = <<>> /\ head = <<>>
  /\ reader = "header" =>
       /\ Len(head) <= FRAME_HEADER_LEN
       /\ received = starts[Len(got) + 1] + Len(head)
       /\ HeadRead
  /\ reader = "payload" =>
       /\ Len(head) = FRAME_HEADER_LEN
       /\ received = starts[Len(got) + 1] + FRAME_HEADER_LEN + filled
       /\ HeadRead
       /\ filled <= length /\ length <= Len(scratch)
       /\ \A j \in 1..filled : scratch[j] = Current.payload[j]
  /\ reader = "ended" =>
       /\ pc \in {"failed", "gone"}
       /\ pc = "gone" => got = offered /\ received = Sent(starts)

Good(starts) == Layout(starts) /\ Flows(starts) /\ Host(starts) /\ Tablet(starts)

Inv == Types /\ Delivered /\ \E starts \in Seq(Nat) : Good(starts)

\* A sequence cut in two.
LEMMA CutAt ==
  ASSUME NEW S, NEW s \in Seq(S), NEW n \in Nat, n <= Len(s)
  PROVE  /\ SubSeq(s, 1, n) \in Seq(S) /\ Len(SubSeq(s, 1, n)) = n
         /\ SubSeq(s, n + 1, Len(s)) \in Seq(S) /\ Len(SubSeq(s, n + 1, Len(s))) = Len(s) - n
         /\ SubSeq(s, 1, n) \o SubSeq(s, n + 1, Len(s)) = s
<1> DEFINE a == SubSeq(s, 1, n)
           c == SubSeq(s, n + 1, Len(s))
<1>1. Len(s) \in Nat  OBVIOUS
<1>2. /\ a \in Seq(S) /\ Len(a) = n
      /\ \A i \in 1..n : a[i] = s[i]
  BY <1>1
<1>3. /\ c \in Seq(S) /\ Len(c) = Len(s) - n
      /\ \A i \in 1..(Len(s) - n) : c[i] = s[n + i]
  BY <1>1
<1> HIDE DEF a, c
<1>4. /\ a \o c \in Seq(S) /\ Len(a \o c) = Len(s)
      /\ \A i \in 1..Len(s) : (a \o c)[i] = s[i]
  <2>1. /\ a \o c \in Seq(S) /\ Len(a \o c) = Len(a) + Len(c)
        /\ \A i \in 1..(Len(a) + Len(c)) :
             (a \o c)[i] = IF i <= Len(a) THEN a[i] ELSE c[i - Len(a)]
    BY <1>2, <1>3, ConcatProperties, Zenon
  <2>2. Len(a) + Len(c) = Len(s)  BY <1>1, <1>2, <1>3
  <2>3. \A i \in 1..Len(s) : (a \o c)[i] = IF i <= n THEN a[i] ELSE c[i - n]
    BY <1>2, <2>1, <2>2, Zenon
  <2>4. \A i \in 1..Len(s) : IF i <= n THEN i \in 1..n
                             ELSE i - n \in 1..(Len(s) - n) /\ n + (i - n) = i
    BY <1>1
  <2>5. \A i \in 1..Len(s) : (a \o c)[i] = s[i]
    BY <1>2, <1>3, <2>3, <2>4, Zenon
  <2> QED  BY <2>1, <2>2, <2>5, Zenon
<1>5. a \o c = s  BY <1>4, SeqEqual
<1> QED  BY <1>2, <1>3, <1>5 DEF a, c

SameTriple(x, y, z) == x \o y \o z = x \o (y \o z)

\* Concatenation associates.
LEMMA AssocAll == \A S : \A x, y, z \in Seq(S) : SameTriple(x, y, z)
  BY ConcatAssociative DEF SameTriple

LEMMA EncodeIs ==
  ASSUME NEW frame \in Frames
  PROVE  /\ encode(frame) \in Seq(Nat)
         /\ Len(encode(frame)) = FRAME_HEADER_LEN + Len(frame.payload)
         /\ encode(frame)[1] = Len(frame.payload) /\ encode(frame)[2] = frame.stream
         /\ \A j \in 1..Len(frame.payload) :
              encode(frame)[FRAME_HEADER_LEN + j] = frame.payload[j]
<1> DEFINE header == <<Len(frame.payload), frame.stream>>
           p == frame.payload
<1>1. p \in Seq(Nat) /\ frame.stream \in Nat /\ Len(p) \in Nat
  BY DEF Frames, STREAM_TYPE_VIDEO, STREAM_TYPE_AUDIO
<1>2. header \in Seq(Nat) /\ Len(header) = 2 /\ header[1] = Len(p) /\ header[2] = frame.stream
  BY <1>1
<1>3. encode(frame) = header \o p  BY DEF encode
<1> HIDE DEF header, p
<1>4. /\ header \o p \in Seq(Nat) /\ Len(header \o p) = 2 + Len(p)
      /\ (header \o p)[1] = header[1] /\ (header \o p)[2] = header[2]
      /\ \A j \in 1..Len(p) : (header \o p)[2 + j] = p[j]
  <2>1. /\ header \o p \in Seq(Nat) /\ Len(header \o p) = Len(header) + Len(p)
        /\ \A i \in 1..(Len(header) + Len(p)) :
             (header \o p)[i] = IF i <= Len(header) THEN header[i] ELSE p[i - Len(header)]
    BY <1>1, <1>2, ConcatProperties, Zenon
  <2>2. 1 \in 1..(2 + Len(p)) /\ 2 \in 1..(2 + Len(p)) /\ 1 <= 2 /\ 2 <= 2  BY <1>1
  <2>3. \A j \in 1..Len(p) : 2 + j \in 1..(2 + Len(p)) /\ ~(2 + j <= 2) /\ 2 + j - 2 = j
    BY <1>1
  <2> QED  BY <1>2, <2>1, <2>2, <2>3
<1> QED  BY <1>2, <1>3, <1>4 DEF p, FRAME_HEADER_LEN

LEMMA PayloadIs ==
  ASSUME NEW k \in Nat, NEW n \in Nat
  PROVE  Payload(k, n) \in Seq(Nat) /\ Len(Payload(k, n)) = n
<1>1. \A x, y \in Nat : x * y \in Nat  OBVIOUS
<1>2. (k + 1) * (MAX_FRAME_BYTES + 10) \in Nat  BY <1>1, WireAssumption
<1> DEFINE base == (k + 1) * (MAX_FRAME_BYTES + 10)
<1> HIDE DEF base
<1>3. [j \in 1..n |-> base + j] \in Seq(Nat) /\ Len([j \in 1..n |-> base + j]) = n
  BY <1>2 DEF base
<1> QED  BY <1>3 DEF Payload, base

\* The next bytes on the wire are the next ones of a frame.
LEMMA WireIs ==
  ASSUME Types, NEW starts, Flows(starts), link = "up",
         NEW k \in 1..Len(offered), NEW j \in 1..Len(encode(offered[k])),
         NEW i \in 1..Len(wire), starts[k] + j = received + i
  PROVE  wire[i] = encode(offered[k])[j]
<1>1. /\ wire \in Seq(Nat) /\ rest \in Seq(Nat)  BY DEF Types
<1>2. i \in 1..Len(Ahead) /\ Ahead[i] = wire[i]  BY <1>1 DEF Ahead
<1> QED  BY <1>2 DEF Flows

\* As long as there is something on the wire the tablet is not past the last frame.
LEMMA MoreToCome ==
  ASSUME Types, Delivered, NEW starts, Layout(starts), Flows(starts), Host(starts), link = "up",
         wire # <<>>, received >= starts[Len(got) + 1]
  PROVE  Len(got) < Len(offered)
<1>1. Len(wire) > 0 /\ Len(wire) \in Nat /\ Len(rest) \in Nat
      /\ Len(Ahead) = Len(wire) + Len(rest) /\ received \in Nat
      /\ Len(got) \in Nat /\ Len(offered) \in Nat
  BY DEF Types, Ahead
<1>2. received + Len(Ahead) = Sent(starts)  BY <1>1 DEF Flows
<1>3. received < starts[Len(offered) + 1]
  <2>1. Sent(starts) \in Nat  BY <1>1 DEF Layout, Sent
  <2> QED  BY <1>1, <1>2, <2>1 DEF Sent
<1>4. starts[Len(got) + 1] \in Nat  BY <1>1 DEF Layout, Delivered
<1>5. Len(got) # Len(offered)  BY <1>1, <1>3, <1>4
<1> QED  BY <1>1, <1>5 DEF Delivered

\* A read shifts what is ahead.
LEMMA TakeFlows ==
  ASSUME Types, NEW starts, Layout(starts), Flows(starts), NEW n \in Nat, Take(n),
         UNCHANGED <<pc, rest, offered, link>>
  PROVE  /\ Flows(starts)' /\ wire' \in Seq(Nat) /\ received' \in Nat
         /\ received' = received + n
<1> DEFINE l == Ahead
<1>1. /\ wire \in Seq(Nat) /\ rest \in Seq(Nat) /\ received \in Nat /\ n <= Len(wire)
      /\ received' = received + n /\ wire' = SubSeq(wire, n + 1, Len(wire))
      /\ Len(wire) \in Nat /\ Len(rest) \in Nat
  BY DEF Types, Take
<1>2. /\ wire' \in Seq(Nat) /\ Len(wire') = Len(wire) - n
      /\ \A i \in 1..(Len(wire) - n) : wire'[i] = wire[i + n]
  BY <1>1
<1>3. Len(Ahead) = Len(wire) + Len(rest)
      /\ \A i \in 1..(Len(wire) + Len(rest)) :
           Ahead[i] = IF i <= Len(wire) THEN wire[i] ELSE rest[i - Len(wire)]
  BY <1>1 DEF Ahead
<1>4. Len(Ahead') = Len(wire') + Len(rest)
      /\ \A i \in 1..(Len(wire') + Len(rest)) :
           Ahead'[i] = IF i <= Len(wire') THEN wire'[i] ELSE rest[i - Len(wire')]
  <2>1. Ahead' = wire' \o rest  BY DEF Ahead
  <2> QED  BY <1>1, <1>2, <2>1
<1>5. \A i \in 1..(Len(Ahead) - n) : Ahead'[i] = Ahead[i + n]
  <2> TAKE i \in 1..(Len(Ahead) - n)
  <2>1. i \in 1..(Len(wire') + Len(rest)) /\ i + n \in 1..(Len(wire) + Len(rest))
    BY <1>1, <1>2, <1>3
  <2>2. CASE i <= Len(wire')
    <3>1. i + n <= Len(wire) /\ i \in 1..(Len(wire) - n)  BY <1>1, <1>2, <2>1, <2>2
    <3> QED  BY <1>2, <1>3, <1>4, <2>1, <2>2, <3>1
  <2>3. CASE ~(i <= Len(wire'))
    <3>1. ~(i + n <= Len(wire)) /\ i - Len(wire') = i + n - Len(wire)
      <4>1. i \in Nat /\ n \in Nat /\ Len(wire) \in Nat /\ Len(wire') = Len(wire) - n
        BY <1>1, <1>2
      <4> QED  BY <2>3, <4>1
    <3> QED  BY <1>3, <1>4, <2>1, <2>3, <3>1
  <2> QED  BY <2>2, <2>3
<1>6. ASSUME link = "up"
      PROVE  received' + Len(Ahead') = IF pc = "connect" THEN 0 ELSE Sent(starts)
  <2>1. Len(Ahead') = Len(Ahead) - n /\ Len(Ahead) \in Nat  BY <1>1, <1>2, <1>3, <1>4
  <2>2. received' + Len(Ahead') = received + Len(Ahead)  BY <1>1, <2>1
  <2> QED  BY <1>6, <2>2 DEF Flows
<1>7. ASSUME NEW k \in 1..Len(offered), NEW j \in 1..Len(encode(offered[k])),
             NEW i \in 1..Len(Ahead'), link = "up", starts[k] + j = received' + i
      PROVE  Ahead'[i] = encode(offered[k])[j]
  <2>1. Len(Ahead') = Len(Ahead) - n /\ Len(Ahead) \in Nat  BY <1>1, <1>2, <1>3, <1>4
  <2>2. i \in 1..(Len(Ahead) - n) /\ i + n \in 1..Len(Ahead)  BY <2>1
  <2>3. starts[k] + j = received + (i + n)  BY <1>1, <1>7
  <2>4. Ahead[i + n] = encode(offered[k])[j]  BY <1>7, <2>2, <2>3 DEF Flows
  <2> QED  BY <1>5, <2>2, <2>4
<1> QED  BY <1>1, <1>2, <1>6, <1>7 DEF Flows, Sent

-----------------------------------------------------------------------------
(* The host.                                                               *)

\* What the steps that leave the bytes alone have to keep.
LEMMA Quiet ==
  ASSUME Types, Delivered, NEW starts \in Seq(Nat), Good(starts),
         UNCHANGED <<offered, got, wire, rest, received, item>>,
         frames_sent' \in Nat, bytes_sent' \in Nat, head' \in Seq(Nat), scratch' \in Seq(Nat),
         filled' \in Nat, link' = "up" => link = "up", pc' = "connect" <=> pc = "connect",
         Host(starts)', Tablet(starts)'
  PROVE  Types' /\ Delivered' /\ Good(starts)'
<1>1. Types' /\ Delivered'  BY DEF Types, Delivered
<1>2. Layout(starts)'  BY DEF Good, Layout
<1>3. Flows(starts)'  BY DEF Good, Flows, Ahead, Sent
<1> QED  BY <1>1, <1>2, <1>3 DEF Good

LEMMA ConnectKeeps ==
  ASSUME Types, Delivered, NEW starts \in Seq(Nat), Good(starts), Connect
  PROVE  Types' /\ Delivered' /\ Good(starts)'
<1>1. /\ pc = "connect" /\ pc' = "write" /\ item' = <<0>> /\ rest' = <<0>>
      /\ UNCHANGED <<frames_sent, bytes_sent, link, wire, reader, head, scratch, filled,
                     offered, got, received>>
  BY DEF Connect, Begin, socket, tablet
<1>2. offered = <<>> /\ rest = <<>> /\ bytes_sent = 0 /\ frames_sent = 0
  BY <1>1 DEF Good, Host
<1>3. <<0>> \in Seq(Nat) /\ Len(<<0>>) = 1  OBVIOUS
<1>4. Types' /\ Delivered'  BY <1>1, <1>3 DEF Types, Delivered
<1>5. Layout(starts) /\ Layout(starts)' /\ Sent(starts) = 1 /\ Sent(starts)' = 1
  BY <1>1, <1>2 DEF Good, Layout, Sent
<1>6. Flows(starts)'
  <2>1. SUFFICES ASSUME link = "up" PROVE Flows(starts)'
    BY <1>1 DEF Flows
  <2>2. /\ wire \in Seq(Nat) /\ Len(wire) \in Nat /\ received \in Nat
        /\ received + Len(Ahead) = 0 /\ Len(Ahead) = Len(wire)
    BY <1>1, <1>2, <2>1 DEF Types, Good, Flows, Ahead
  <2>3. received = 0 /\ Len(wire) = 0  BY <2>2
  <2>4. Len(Ahead') = 1  BY <1>1, <1>3, <2>2, <2>3 DEF Ahead
  <2> QED  BY <1>1, <1>2, <1>5, <2>3, <2>4 DEF Flows
<1>7. Host(starts)'  BY <1>1, <1>2, <1>3, <1>5 DEF Host
<1>8. Tablet(starts)'
  <2>1. reader # "ended"  BY <1>1 DEF Good, Tablet
  <2> QED  BY <1>1, <2>1 DEF Good, Tablet, Reading, HeadRead, Current, length
<1> QED  BY <1>4, <1>5, <1>6, <1>7, <1>8 DEF Good

LEMMA AdvanceKeeps ==
  ASSUME Types, NEW n \in 1..Len(rest)
  PROVE  /\ Advance(n) \in Seq(Nat) /\ wire \o SubSeq(rest, 1, n) \in Seq(Nat)
         /\ wire \o SubSeq(rest, 1, n) \o Advance(n) = Ahead
<1> DEFINE a == SubSeq(rest, 1, n)
           c == SubSeq(rest, n + 1, Len(rest))
<1>1. rest \in Seq(Nat) /\ wire \in Seq(Nat) /\ n \in Nat /\ n <= Len(rest)  BY DEF Types
<1>2. a \in Seq(Nat) /\ c \in Seq(Nat) /\ a \o c = rest  BY <1>1, CutAt
<1> HIDE DEF a, c
<1>3. SameTriple(wire, a, c)  BY <1>1, <1>2, AssocAll, Zenon
<1>4. wire \o a \o c = wire \o rest  BY <1>2, <1>3, Zenon DEF SameTriple
<1>5. wire \o a \in Seq(Nat)  BY <1>1, <1>2, ConcatProperties
<1> QED  BY <1>2, <1>4, <1>5 DEF a, c, Advance, Ahead

LEMMA WriteKeeps ==
  ASSUME Types, Delivered, NEW starts \in Seq(Nat), Good(starts), Write
  PROVE  Types' /\ Delivered' /\ Good(starts)'
<1>1. /\ pc = "write"
      /\ UNCHANGED <<pc, item, frames_sent, bytes_sent, reader, head, scratch, filled,
                     offered, got, received>>
  BY DEF Write, tablet
<1>2. Layout(starts)'  BY <1>1 DEF Good, Layout
<1>3. Host(starts)'  BY <1>1 DEF Good, Host, Sent
<1>4. CASE link = "up"
  <2>1. PICK n \in 1..Len(rest) :
          wire' = wire \o SubSeq(rest, 1, n) /\ rest' = Advance(n) /\ link' = link
    BY <1>4 DEF Write
  <2>2. rest' \in Seq(Nat) /\ wire' \in Seq(Nat) /\ Ahead' = Ahead
    BY <2>1, AdvanceKeeps DEF Ahead
  <2>3. Types' /\ Delivered'  BY <1>1, <2>2 DEF Types, Delivered
  <2>4. Flows(starts)'  BY <1>1, <2>1, <2>2 DEF Good, Flows, Sent
  <2>5. Tablet(starts)'
    BY <1>1, <2>1 DEF Good, Tablet, Reading, HeadRead, Current, length, Sent
  <2> QED  BY <1>2, <1>3, <2>3, <2>4, <2>5 DEF Good
<1>5. CASE link # "up"
  <2>1. link' = "reset" /\ rest' = <<>> /\ wire' = wire  BY <1>5 DEF Write
  <2>2. Types' /\ Delivered'  BY <1>1, <2>1 DEF Types, Delivered
  <2>3. Flows(starts)'  BY <2>1 DEF Flows
  <2>4. ~Reading /\ reader # "ended"  BY <1>1, <1>5 DEF Good, Tablet
  <2>5. Tablet(starts)'  BY <1>1, <2>4 DEF Tablet, Reading
  <2> QED  BY <1>2, <1>3, <2>2, <2>3, <2>5 DEF Good
<1> QED  BY <1>4, <1>5

LEMMA WrittenKeeps ==
  ASSUME Types, Delivered, NEW starts \in Seq(Nat), Good(starts), Written
  PROVE  Types' /\ Delivered' /\ Good(starts)'
<1>1. /\ pc = "write" /\ pc' = "idle" /\ rest = <<>>
      /\ frames_sent' = IF offered = <<>> THEN 0 ELSE frames_sent + 1
      /\ bytes_sent' = bytes_sent + Len(item)
      /\ UNCHANGED <<item, rest, link, wire, reader, head, scratch, filled, offered, got,
                     received>>
  BY DEF Written, socket, tablet
<1>2. /\ bytes_sent + Len(item) = Sent(starts)
      /\ frames_sent = IF offered = <<>> THEN 0 ELSE Len(offered) - 1
  BY <1>1 DEF Good, Host
<1>3. Len(item) \in Nat /\ bytes_sent \in Nat /\ frames_sent \in Nat /\ Len(offered) \in Nat
      /\ (offered = <<>> => Len(offered) = 0)
  BY DEF Types
<1>4. Host(starts)'  BY <1>1, <1>2, <1>3 DEF Host, Sent
<1>5. Tablet(starts)'
  <2>1. reader # "ended"  BY <1>1 DEF Good, Tablet
  <2> QED  BY <1>1, <2>1 DEF Good, Tablet, Reading, HeadRead, Current, length
<1> QED  BY <1>1, <1>3, <1>4, <1>5, Quiet DEF Types

LEMMA WriteEnds ==
  ASSUME Types, Delivered, NEW starts \in Seq(Nat), Good(starts), WriteFails \/ Leave
  PROVE  Types' /\ Delivered' /\ Good(starts)'
<1>1. /\ (pc = "write" /\ pc' = "failed") \/ (pc = "idle" /\ pc' = "gone")
      /\ UNCHANGED <<item, rest, frames_sent, bytes_sent, link, wire, reader, head, scratch,
                     filled, offered, got, received>>
  BY DEF WriteFails, Leave, socket, tablet
<1>2. Host(starts)'  BY <1>1 DEF Good, Host, Sent
<1>3. Tablet(starts)'
  <2>1. reader # "ended"  BY <1>1 DEF Good, Tablet
  <2> QED  BY <1>1, <2>1 DEF Good, Tablet, Reading, HeadRead, Current, length
<1> QED  BY <1>1, <1>2, <1>3, Quiet DEF Types

\* The frame after the last begins where the last one ended.
LEMMA SendLayout ==
  ASSUME Types, NEW starts \in Seq(Nat), Layout(starts), NEW frame \in Frames,
         offered' = Append(offered, frame),
         NEW next, next = Append(starts, Sent(starts) + Len(encode(frame)))
  PROVE  /\ next \in Seq(Nat) /\ Layout(next)' /\ Sent(starts) \in Nat
         /\ Sent(next)' = Sent(starts) + Len(encode(frame))
         /\ \A k \in 1..Len(starts) : next[k] = starts[k]
<1> DEFINE end == Sent(starts) + Len(encode(frame))
           N == Len(offered)
<1>1. /\ starts \in Seq(Nat) /\ Len(starts) = N + 1 /\ N \in Nat
      /\ Sent(starts) \in Nat /\ Sent(starts) = starts[N + 1]
      /\ Len(frame.payload) \in Nat /\ Len(encode(frame)) = FRAME_HEADER_LEN + Len(frame.payload)
      /\ end = Sent(starts) + FRAME_HEADER_LEN + Len(frame.payload) /\ end \in Nat
  <2>1. N \in Nat /\ starts \in Seq(Nat) /\ Len(starts) = N + 1  BY DEF Types, Layout
  <2>2. N + 1 \in 1..Len(starts)  BY <2>1
  <2>3. Sent(starts) = starts[N + 1] /\ Sent(starts) \in Nat
    BY <2>1, <2>2, ElementOfSeq DEF Sent
  <2>4. Len(frame.payload) \in Nat  BY DEF Frames
  <2>5. Len(encode(frame)) = FRAME_HEADER_LEN + Len(frame.payload)  BY EncodeIs
  <2>6. \A a, b, c \in Nat : c = 2 + b => a + c = a + 2 + b /\ a + c \in Nat  OBVIOUS
  <2>7. 2 + Len(frame.payload) \in Nat  BY <2>4
  <2>8. Len(encode(frame)) \in Nat /\ Len(encode(frame)) = 2 + Len(frame.payload)
    BY <2>5, <2>7 DEF FRAME_HEADER_LEN
  <2>9. end = Sent(starts) + 2 + Len(frame.payload) /\ end \in Nat
    BY <2>3, <2>4, <2>6, <2>8, Zenon
  <2> QED  BY <2>1, <2>3, <2>4, <2>5, <2>9 DEF FRAME_HEADER_LEN
<1>2. /\ next \in Seq(Nat) /\ Len(next) = N + 2 /\ next[N + 2] = end
      /\ \A k \in 1..(N + 1) : next[k] = starts[k]
  <2>1. end \in Nat /\ next = Append(starts, end) /\ starts \in Seq(Nat)  BY <1>1
  <2> HIDE DEF end
  <2> QED  BY <1>1, <2>1
<1>3. /\ Len(offered') = N + 1 /\ offered'[N + 1] = frame
      /\ \A k \in 1..N : offered'[k] = offered[k]
  BY DEF Types
<1>4. ASSUME NEW k \in 1..Len(offered')
      PROVE  next[k + 1] = next[k] + FRAME_HEADER_LEN + Len(offered'[k].payload)
  <2>1. CASE k = N + 1
    <3>1. next[k + 1] = end
      <4>1. k + 1 = N + 2  BY <1>1, <2>1
      <4> QED  BY <1>2, <4>1, Zenon
    <3>2. next[k] = Sent(starts)
      <4>1. N + 1 \in 1..(N + 1)  BY <1>1
      <4> QED  BY <1>1, <1>2, <2>1, <4>1, Zenon
    <3>3. offered'[k] = frame  BY <1>3, <2>1
    <3> QED  BY <1>1, <3>1, <3>2, <3>3, Zenon
  <2>2. CASE k # N + 1
    <3>1. k \in 1..N /\ k \in 1..(N + 1) /\ k + 1 \in 1..(N + 1)  BY <1>1, <1>3, <2>2
    <3>2. starts[k + 1] = starts[k] + FRAME_HEADER_LEN + Len(offered[k].payload)
      BY <3>1 DEF Layout
    <3> QED  BY <1>2, <1>3, <3>1, <3>2
  <2> QED  BY <2>1, <2>2
<1>5. ASSUME NEW i \in 1..Len(next), NEW j \in 1..Len(next), i <= j PROVE next[i] <= next[j]
  <2>1. \A k \in 1..(N + 1) : starts[k] \in Nat /\ starts[k] <= starts[N + 1]
    BY <1>1 DEF Layout
  <2>2. CASE j = N + 2
    <3>1. CASE i = N + 2
      <4>1. \A e \in Nat : e <= e  OBVIOUS
      <4> HIDE DEF end
      <4> QED  BY <1>1, <1>2, <2>2, <3>1, <4>1
    <3>2. CASE i # N + 2
      <4>1. i \in 1..(N + 1)  BY <1>1, <1>2, <3>2
      <4>2. next[i] <= starts[N + 1] /\ next[i] \in Nat  BY <1>2, <2>1, <4>1
      <4>3. starts[N + 1] <= end
        BY <1>1 DEF FRAME_HEADER_LEN
      <4>4. starts[N + 1] \in Nat  BY <1>1
      <4> HIDE DEF end
      <4> QED  BY <1>1, <1>2, <2>2, <4>2, <4>3, <4>4
    <3> QED  BY <3>1, <3>2
  <2>3. CASE j # N + 2
    <3>1. i \in 1..(N + 1) /\ j \in 1..(N + 1)  BY <1>1, <1>2, <1>5, <2>3
    <3> QED  BY <1>1, <1>2, <1>5, <3>1 DEF Layout
  <2> QED  BY <2>2, <2>3
<1>6. next[1] = 1
  <2>1. 1 \in 1..(N + 1)  BY <1>1
  <2> QED  BY <1>2, <2>1 DEF Layout
<1>7. Layout(next)'
  BY <1>1, <1>2, <1>3, <1>4, <1>5, <1>6 DEF Layout
<1>8. Sent(next)' = end  BY <1>1, <1>2, <1>3 DEF Sent
<1> QED  BY <1>1, <1>2, <1>7, <1>8

\* What is ahead grows by the frame.
LEMMA SendFlows ==
  ASSUME Types, NEW starts \in Seq(Nat), Layout(starts), Flows(starts), NEW frame \in Frames,
         pc = "idle", pc' = "write", rest = <<>>, rest' = encode(frame),
         UNCHANGED <<wire, link, received>>,
         offered' = Append(offered, frame),
         NEW next, next = Append(starts, Sent(starts) + Len(encode(frame)))
  PROVE  Flows(next)'
<1> DEFINE e == encode(frame)
           N == Len(offered)
<1>1. /\ e \in Seq(Nat) /\ wire \in Seq(Nat) /\ received \in Nat /\ N \in Nat
      /\ Len(e) \in Nat /\ Len(wire) \in Nat
  BY EncodeIs DEF Types
<1>2. /\ next \in Seq(Nat) /\ Layout(next)' /\ Sent(starts) \in Nat
      /\ Sent(next)' = Sent(starts) + Len(e)
      /\ \A k \in 1..Len(starts) : next[k] = starts[k]
  BY SendLayout
<1>3. Ahead = wire  BY <1>1 DEF Ahead
<1>4. /\ Len(Ahead') = Len(wire) + Len(e)
      /\ \A i \in 1..(Len(wire) + Len(e)) :
           Ahead'[i] = IF i <= Len(wire) THEN wire[i] ELSE e[i - Len(wire)]
  <2>1. Ahead' = wire \o e  BY DEF Ahead
  <2> HIDE DEF e
  <2> QED  BY <1>1, <2>1
<1>5. SUFFICES ASSUME link = "up" PROVE Flows(next)'
  BY DEF Flows
<1>6. received + Len(wire) = Sent(starts)  BY <1>3, <1>5 DEF Flows
<1>7. received' + Len(Ahead') = IF pc' = "connect" THEN 0 ELSE Sent(next)'
  <2> HIDE DEF e
  <2> QED  BY <1>1, <1>2, <1>4, <1>6
<1>8. ASSUME NEW k \in 1..Len(offered'), NEW j \in 1..Len(encode(offered'[k])),
             NEW i \in 1..Len(Ahead'), next[k] + j = received' + i
      PROVE  Ahead'[i] = encode(offered'[k])[j]
  <2>0. /\ Len(offered') = N + 1 /\ offered'[N + 1] = frame
        /\ \A m \in 1..N : offered'[m] = offered[m]
        /\ Len(starts) = N + 1
    BY DEF Types, Layout
  <2>1. CASE k = N + 1
    <3>1. k \in 1..Len(starts)  BY <1>1, <2>0, <2>1
    <3>2. next[k] = Sent(starts)  BY <1>2, <2>1, <3>1 DEF Sent
    <3>3. offered'[k] = frame /\ j \in 1..Len(e)  BY <2>0, <2>1
    <3> HIDE DEF e
    <3>4. i = Len(wire) + j /\ j \in 1..Len(e)
      <4>1. i \in Nat
        <5>1. Len(Ahead') \in Nat  BY <1>1, <1>4
        <5> QED  BY <5>1
      <4>2. received + Len(wire) + j = received + i
        <5>1. next[k] + j = received + i  BY <1>8
        <5> QED  BY <1>6, <3>2, <5>1, Zenon
      <4>3. received + Len(wire) \in Nat /\ j \in Nat  BY <1>1, <3>3
      <4>4. \A r, w \in Nat : r + w + j = r + i => i = w + j  BY <4>1, <4>3
      <4> QED  BY <1>1, <3>3, <4>2, <4>4, Zenon
    <3>5. i \in 1..(Len(wire) + Len(e)) /\ ~(i <= Len(wire)) /\ i - Len(wire) = j
      BY <1>1, <3>4
    <3>6. Ahead'[i] = e[j]  BY <1>4, <3>5
    <3> QED  BY <3>3, <3>6 DEF e
  <2>2. CASE k # N + 1
    <3>1. k \in 1..N /\ k \in 1..Len(starts) /\ k + 1 \in 1..(N + 1)
      BY <1>1, <2>0, <2>2
    <3>2. offered'[k] = offered[k] /\ next[k] = starts[k]  BY <1>2, <2>0, <3>1
    <3>3. offered[k] \in Frames  BY <3>1 DEF Types
    <3>4. Len(encode(offered[k])) = FRAME_HEADER_LEN + Len(offered[k].payload)
      BY <3>3, EncodeIs
    <3>5. starts[k + 1] = starts[k] + Len(encode(offered[k])) /\ starts[k + 1] <= Sent(starts)
      <4>1. starts[k + 1] = starts[k] + FRAME_HEADER_LEN + Len(offered[k].payload)
        BY <3>1 DEF Layout
      <4>2. starts[k + 1] <= starts[N + 1]
        <5>1. N + 1 \in 1..Len(starts) /\ k + 1 \in 1..Len(starts) /\ k + 1 <= N + 1
          BY <1>1, <2>0, <3>1
        <5> QED  BY <5>1 DEF Layout
      <4>3. starts[k] \in Nat /\ Len(offered[k].payload) \in Nat
        <5>1. starts[k] \in Nat  BY <3>1, ElementOfSeq
        <5>2. Len(offered[k].payload) \in Nat  BY <3>3 DEF Frames
        <5> QED  BY <5>1, <5>2
      <4>4. \A a, b, c \in Nat : c = 2 + b => a + c = a + 2 + b  OBVIOUS
      <4>5. Len(encode(offered[k])) = 2 + Len(offered[k].payload)
            /\ 2 + Len(offered[k].payload) \in Nat
        BY <3>4, <4>3 DEF FRAME_HEADER_LEN
      <4>6. starts[k] + Len(encode(offered[k])) = starts[k] + 2 + Len(offered[k].payload)
        <5>1. Len(encode(offered[k])) \in Nat  BY <4>5
        <5> QED  BY <4>3, <4>4, <4>5, <5>1, Zenon
      <4> QED  BY <4>1, <4>2, <4>6, Zenon DEF Sent, FRAME_HEADER_LEN
    <3>6. i \in 1..Len(wire)
      <4>1. starts[k] \in Nat /\ Len(encode(offered[k])) \in Nat /\ starts[k] + j = received + i
        /\ j \in 1..Len(encode(offered[k]))
        <5>1. starts[k] \in Nat  BY <3>1, ElementOfSeq
        <5>2. encode(offered[k]) \in Seq(Nat)  BY <3>3, EncodeIs
        <5>3. starts[k] + j = received + i /\ j \in 1..Len(encode(offered[k]))
          BY <1>8, <3>2, Zenon
        <5> QED  BY <5>1, <5>2, <5>3
      <4>2. i \in Nat /\ i >= 1
        <5>1. Len(Ahead') \in Nat  BY <1>1, <1>4
        <5> QED  BY <5>1
      <4>3. \A a, c, w, r, x \in Nat : j <= c /\ a + j = r + i /\ a + c <= r + w => i <= w
        BY <4>1, <4>2
      <4>4. starts[k] + Len(encode(offered[k])) <= received + Len(wire)
        BY <1>6, <3>5, Zenon
      <4>5. j <= Len(encode(offered[k]))  BY <4>1
      <4>6. i <= Len(wire)  BY <1>1, <4>1, <4>3, <4>4, <4>5, Zenon
      <4> QED  BY <1>1, <4>2, <4>6
    <3>7. Ahead'[i] = wire[i]
      <4>1. i \in 1..(Len(wire) + Len(e)) /\ i <= Len(wire)  BY <1>1, <3>6
      <4> QED  BY <1>4, <4>1
    <3>8. wire[i] = encode(offered[k])[j]
      <4>1. starts[k] + j = received + i  BY <1>8, <3>2, Zenon
      <4>2. j \in 1..Len(encode(offered[k]))  BY <3>2, Zenon
      <4> QED  BY <1>3, <1>5, <3>1, <3>6, <4>1, <4>2 DEF Flows
    <3> QED  BY <3>2, <3>7, <3>8
  <2> QED  BY <2>1, <2>2
<1> QED  BY <1>7, <1>8 DEF Flows

LEMMA SendKeeps ==
  ASSUME Types, Delivered, NEW starts \in Seq(Nat), Good(starts),
         NEW stream \in {STREAM_TYPE_VIDEO, STREAM_TYPE_AUDIO}, NEW n \in Lengths,
         Send(stream, n)
  PROVE  Types' /\ Delivered' /\ \E next \in Seq(Nat) : Good(next)'
<1> DEFINE frame == [stream |-> stream, payload |-> Payload(Len(offered), n)]
           N == Len(offered)
<1>1. /\ pc = "idle" /\ pc' = "write" /\ item' = encode(frame) /\ rest' = encode(frame)
      /\ offered' = Append(offered, frame)
      /\ UNCHANGED <<frames_sent, bytes_sent, link, wire, reader, head, scratch, filled,
                     got, received>>
  BY DEF Send, Begin, socket, tablet
<1>2. frame \in Frames /\ N \in Nat
  <2>1. n \in Nat /\ N \in Nat  BY WireAssumption DEF Types
  <2>2. Payload(N, n) \in Seq(Nat)  BY <2>1, PayloadIs
  <2> QED  BY <2>1, <2>2 DEF Frames
<1>3. encode(frame) \in Seq(Nat)  BY <1>2, EncodeIs
<1> HIDE DEF frame
<1>4. rest = <<>> /\ bytes_sent = Sent(starts) /\ frames_sent = N
  BY <1>1 DEF Good, Host
<1>0. PICK next \in Seq(Nat) : next = Append(starts, Sent(starts) + Len(encode(frame)))
  <2> DEFINE end == Sent(starts) + Len(encode(frame))
  <2>1. Len(encode(frame)) \in Nat  BY <1>3
  <2>2. starts \in Seq(Nat) /\ Len(starts) = N + 1  BY DEF Good, Layout
  <2>3. N + 1 \in 1..Len(starts)  BY <1>2, <2>2
  <2>4. Sent(starts) \in Nat  BY <2>2, <2>3, ElementOfSeq DEF Sent
  <2>5. end \in Nat  BY <2>1, <2>4
  <2> HIDE DEF end
  <2>6. Append(starts, end) \in Seq(Nat)  BY <2>2, <2>5
  <2> QED  BY <2>6 DEF end
<1>5. /\ next \in Seq(Nat) /\ Layout(next)' /\ Sent(starts) \in Nat
      /\ Sent(next)' = Sent(starts) + Len(encode(frame))
      /\ \A k \in 1..Len(starts) : next[k] = starts[k]
  BY <1>0, <1>1, <1>2, SendLayout DEF Good
<1>6. Flows(next)'  BY <1>0, <1>1, <1>2, <1>4, SendFlows DEF Good
<1>7. /\ Len(offered') = N + 1 /\ offered' \in Seq(Frames)
      /\ \A k \in 1..N : offered'[k] = offered[k]
  BY <1>1, <1>2 DEF Types
<1>8. Types' /\ Delivered'
  <2>1. Types'  BY <1>1, <1>3, <1>7 DEF Types
  <2>2. Delivered'
    <3>1. \A k \in 1..Len(got) : k \in 1..N  BY <1>2 DEF Types, Delivered
    <3> QED  BY <1>1, <1>2, <1>7, <3>1 DEF Types, Delivered
  <2> QED  BY <2>1, <2>2
<1>9. Host(next)'
  <2>1. offered' # <<>>  BY <1>2, <1>7
  <2> QED  BY <1>1, <1>2, <1>4, <1>5, <1>7, <2>1 DEF Host
<1>10. Tablet(next)'
  <2>1. reader # "ended"  BY <1>1 DEF Good, Tablet
  <2>2. next[Len(got) + 1] = starts[Len(got) + 1]
    <3>1. Len(got) + 1 \in 1..Len(starts)  BY <1>2 DEF Types, Delivered, Good, Layout
    <3> QED  BY <1>5, <3>1
  <2>3. HeadRead => HeadRead' /\ (Len(head) > 0 => Current' = Current)
    <3>1. ASSUME HeadRead, Len(head) > 0 PROVE Current' = Current
      <4>1. Len(got) + 1 \in 1..N  BY <3>1, <1>2 DEF Types, HeadRead
      <4> QED  BY <1>1, <1>7, <4>1 DEF Current
    <3>2. Len(head) \in Nat /\ Len(got) \in Nat  BY DEF Types
    <3>3. HeadRead => (Len(head) > 0 => Len(got) < Len(offered'))
      BY <1>2, <1>7, <3>2 DEF HeadRead
    <3>4. ASSUME HeadRead, NEW j \in 1..Len(head) PROVE head[j] = encode(Current')[j]
      <4>1. Len(head) > 0  BY <3>2
      <4> QED  BY <3>1, <3>4, <4>1 DEF HeadRead
    <3> QED  BY <1>1, <3>1, <3>3, <3>4 DEF HeadRead
  <2>4. Len(head) = FRAME_HEADER_LEN => Len(head) > 0  BY DEF FRAME_HEADER_LEN
  <2>5. CASE reader = "start"
    BY <1>1, <2>5 DEF Good, Tablet, Reading
  <2>6. CASE reader = "header"
    BY <1>1, <2>2, <2>3, <2>6 DEF Good, Tablet, Reading
  <2>7. CASE reader = "payload"
    <3>1. HeadRead /\ HeadRead' /\ Current' = Current
      BY <2>3, <2>4, <2>7 DEF Good, Tablet
    <3>2. length' = length  BY <1>1 DEF length
    <3> QED  BY <1>1, <2>2, <2>7, <3>1, <3>2 DEF Good, Tablet, Reading
  <2>8. CASE ~Reading  BY <1>1, <2>1, <2>8 DEF Tablet, Reading
  <2> QED  BY <2>5, <2>6, <2>7, <2>8 DEF Reading
<1> QED  BY <1>5, <1>6, <1>8, <1>9, <1>10 DEF Good

-----------------------------------------------------------------------------
(* The tablet.                                                             *)

\* What the steps that read from the wire have to keep.
LEMMA TakeKeeps ==
  ASSUME Types, Delivered, NEW starts \in Seq(Nat), Good(starts), NEW n \in Nat, Take(n),
         UNCHANGED <<host, link, offered, got>>,
         head' \in Seq(Nat), scratch' \in Seq(Nat), filled' \in Nat, Tablet(starts)'
  PROVE  Types' /\ Delivered' /\ Good(starts)'
<1>1. UNCHANGED <<pc, item, rest, frames_sent, bytes_sent, link, offered, got>>  BY DEF host
<1>2. Flows(starts)' /\ wire' \in Seq(Nat) /\ received' \in Nat
  BY <1>1, TakeFlows DEF Good
<1>3. Types' /\ Delivered'  BY <1>1, <1>2 DEF Types, Delivered
<1>4. Layout(starts)' /\ Host(starts)'  BY <1>1 DEF Good, Layout, Host, Sent
<1> QED  BY <1>2, <1>3, <1>4 DEF Good

LEMMA ReadStreamHeaderKeeps ==
  ASSUME Types, Delivered, NEW starts \in Seq(Nat), Good(starts), ReadStreamHeader
  PROVE  Types' /\ Delivered' /\ Good(starts)'
<1>1. /\ reader = "start" /\ Take(1) /\ reader' = "header"
      /\ UNCHANGED <<host, link, head, scratch, filled, offered, got>>
  BY DEF ReadStreamHeader
<1>2. link = "up" /\ received = 0 /\ got = <<>> /\ head = <<>>  BY <1>1 DEF Good, Tablet, Reading
<1>3. received' = 1 /\ Len(got) = 0 /\ Len(head) = 0 /\ starts[1] = 1
  BY <1>1, <1>2 DEF Take, Good, Layout
<1>4. Tablet(starts)'
  BY <1>1, <1>2, <1>3 DEF Tablet, Reading, HeadRead, FRAME_HEADER_LEN
<1> QED  BY <1>1, <1>4, TakeKeeps DEF Types

\* While the tablet is at the bytes of a frame, the frame is one that was sent.
LEMMA AtFrame ==
  ASSUME Types, Delivered, NEW starts, Good(starts), link = "up", wire # <<>>,
         NEW d \in Nat, received = starts[Len(got) + 1] + d
  PROVE  /\ Len(got) \in Nat /\ Len(got) < Len(offered)
         /\ Len(got) + 1 \in 1..Len(offered) /\ Current \in Frames
<1>1. /\ Len(got) \in Nat /\ Len(offered) \in Nat /\ Len(got) <= Len(offered)
  BY DEF Types, Delivered
<1>2. starts[Len(got) + 1] \in Nat  BY <1>1 DEF Good, Layout
<1>3. received >= starts[Len(got) + 1]  BY <1>2
<1>4. Len(got) < Len(offered)  BY <1>3, MoreToCome DEF Good
<1> QED  BY <1>1, <1>4 DEF Current, Types

LEMMA ReadFieldKeeps ==
  ASSUME Types, Delivered, NEW starts \in Seq(Nat), Good(starts), ReadField
  PROVE  Types' /\ Delivered' /\ Good(starts)'
<1>1. /\ reader = "header" /\ reader' = "header" /\ Len(head) < FRAME_HEADER_LEN
      /\ Take(1) /\ head' = Append(head, wire[1])
      /\ UNCHANGED <<host, link, scratch, filled, offered, got>>
  BY DEF ReadField
<1>2. /\ link = "up" /\ received = starts[Len(got) + 1] + Len(head) /\ HeadRead
  BY <1>1 DEF Good, Tablet, Reading
<1>3. /\ wire \in Seq(Nat) /\ head \in Seq(Nat) /\ Len(head) \in Nat /\ Len(wire) >= 1
      /\ Len(wire) \in Nat /\ received \in Nat
  BY <1>1 DEF Types, Take
<1>4. wire # <<>> /\ 1 \in 1..Len(wire) /\ wire[1] \in Nat  BY <1>3
<1>5. /\ Len(got) \in Nat /\ Len(got) < Len(offered) /\ Len(got) + 1 \in 1..Len(offered)
      /\ Current \in Frames
  BY <1>2, <1>3, <1>4, AtFrame
<1>6. wire[1] = encode(Current)[Len(head) + 1]
  <2>1. Len(encode(Current)) \in Nat /\ Len(encode(Current)) >= 2
    <3>1. Len(Current.payload) \in Nat  BY <1>5 DEF Frames
    <3> QED  BY <1>5, <3>1, EncodeIs DEF FRAME_HEADER_LEN
  <2>2. Len(head) + 1 \in 1..Len(encode(Current))  BY <1>1, <1>3, <2>1 DEF FRAME_HEADER_LEN
  <2>3. starts[Len(got) + 1] \in Nat
    <3>1. Len(got) + 1 \in 1..Len(starts)  BY <1>5 DEF Good, Layout, Types
    <3> QED  BY <3>1 DEF Good, Layout
  <2>4. starts[Len(got) + 1] + (Len(head) + 1) = received + 1
    <3>1. \A a, b, r \in Nat : r = a + b => a + (b + 1) = r + 1  OBVIOUS
    <3>2. received \in Nat /\ Len(head) \in Nat /\ received = starts[Len(got) + 1] + Len(head)
      BY <1>2, <1>3
    <3> QED  BY <2>3, <3>1, <3>2, Zenon
  <2> QED  BY <1>2, <1>4, <1>5, <2>2, <2>4, WireIs DEF Good, Current
<1>7. /\ head' \in Seq(Nat) /\ Len(head') = Len(head) + 1 /\ head'[Len(head) + 1] = wire[1]
      /\ \A j \in 1..Len(head) : head'[j] = head[j]
  <2> DEFINE b == wire[1]
  <2>1. b \in Nat /\ head' = Append(head, b)  BY <1>1, <1>4
  <2> HIDE DEF b
  <2>2. /\ head' \in Seq(Nat) /\ Len(head') = Len(head) + 1 /\ head'[Len(head) + 1] = b
        /\ \A j \in 1..Len(head) : head'[j] = head[j]
    BY <1>3, <2>1
  <2> QED  BY <2>2 DEF b
<1>8. HeadRead'
  <2>1. Current' = Current  BY <1>1 DEF Current
  <2>2. ASSUME NEW j \in 1..Len(head') PROVE head'[j] = encode(Current)[j]
    <3>1. CASE j = Len(head) + 1  BY <1>6, <1>7, <3>1
    <3>2. CASE j # Len(head) + 1
      <4>1. j \in 1..Len(head)  BY <1>3, <1>7, <3>2
      <4> QED  BY <1>2, <1>7, <4>1 DEF HeadRead
    <3> QED  BY <3>1, <3>2
  <2> QED  BY <1>1, <1>5, <2>1, <2>2 DEF HeadRead
<1>9. received' = starts[Len(got) + 1] + Len(head')
  <2>1. received' = received + 1  BY <1>1 DEF Take
  <2>2. starts[Len(got) + 1] \in Nat
    <3>1. Len(got) + 1 \in 1..Len(starts)  BY <1>5 DEF Good, Layout, Types
    <3> QED  BY <3>1 DEF Good, Layout
  <2>3. \A a, b, r \in Nat : r = a + b => r + 1 = a + (b + 1)  OBVIOUS
  <2>4. received + 1 = starts[Len(got) + 1] + (Len(head) + 1)
    BY <1>2, <1>3, <2>2, <2>3, Zenon
  <2> QED  BY <1>7, <2>1, <2>4, Zenon
<1>10. Len(head') <= FRAME_HEADER_LEN  BY <1>1, <1>3, <1>7 DEF FRAME_HEADER_LEN
<1>11. Tablet(starts)'
  BY <1>1, <1>2, <1>8, <1>9, <1>10 DEF Tablet, Reading
<1> QED  BY <1>1, <1>7, <1>11, TakeKeeps DEF Types

\* What a header that was read whole says.
LEMMA HeaderIs ==
  ASSUME Types, Delivered, HeadRead, Len(head) = FRAME_HEADER_LEN
  PROVE  /\ Len(got) \in Nat /\ Len(got) < Len(offered) /\ Len(got) + 1 \in 1..Len(offered)
         /\ Current \in Frames /\ length = Len(Current.payload) /\ length \in Nat
         /\ head[2] = Current.stream
<1>1. Len(got) \in Nat /\ Len(offered) \in Nat  BY DEF Types
<1>2. Len(got) < Len(offered)  BY DEF HeadRead, FRAME_HEADER_LEN
<1>3. Len(got) + 1 \in 1..Len(offered) /\ Current \in Frames  BY <1>1, <1>2 DEF Current, Types
<1>4. 1 \in 1..Len(head) /\ 2 \in 1..Len(head)  BY DEF FRAME_HEADER_LEN
<1>5. head[1] = Len(Current.payload) /\ head[2] = Current.stream
  BY <1>3, <1>4, EncodeIs DEF HeadRead
<1>6. Len(Current.payload) \in Nat  BY <1>3 DEF Frames
<1> QED  BY <1>1, <1>2, <1>3, <1>5, <1>6 DEF length

LEMMA ReadHeaderKeeps ==
  ASSUME Types, Delivered, NEW starts \in Seq(Nat), Good(starts), ReadHeader
  PROVE  Types' /\ Delivered' /\ Good(starts)'
<1>1. /\ reader = "header" /\ reader' = "payload" /\ Len(head) = FRAME_HEADER_LEN
      /\ filled' = 0
      /\ scratch' = IF Fits THEN scratch ELSE [j \in 1..length |-> 0]
      /\ UNCHANGED <<pc, item, rest, frames_sent, bytes_sent, link, wire, head, offered, got,
                     received>>
  BY DEF ReadHeader, host, socket
<1>2. /\ link = "up" /\ received = starts[Len(got) + 1] + Len(head) /\ HeadRead
  BY <1>1 DEF Good, Tablet, Reading
<1>3. length \in Nat /\ Len(got) + 1 \in 1..Len(offered)  BY <1>1, <1>2, HeaderIs
<1>4. scratch' \in Seq(Nat) /\ length <= Len(scratch')
  <2>1. CASE Fits  BY <1>1, <1>3, <2>1 DEF Types, Fits
  <2>2. CASE ~Fits
    <3> DEFINE L == length
    <3>1. L \in Nat /\ scratch' = [j \in 1..L |-> 0]  BY <1>1, <1>3, <2>2
    <3> HIDE DEF L
    <3>2. scratch' \in Seq(Nat) /\ L <= Len(scratch')  BY <3>1
    <3> QED  BY <3>2 DEF L
  <2> QED  BY <2>1, <2>2
<1>5. received' = starts[Len(got) + 1] + FRAME_HEADER_LEN + filled'
  <2>1. Len(got) + 1 \in 1..Len(starts)  BY <1>3 DEF Good, Layout, Types
  <2>2. starts[Len(got) + 1] \in Nat  BY <2>1 DEF Good, Layout
  <2> QED  BY <1>1, <1>2, <2>2 DEF FRAME_HEADER_LEN
<1>6. HeadRead'  BY <1>1, <1>2 DEF HeadRead, Current
<1>7. Tablet(starts)'
  <2>1. length' = length  BY <1>1 DEF length
  <2> QED  BY <1>1, <1>2, <1>3, <1>4, <1>5, <1>6, <2>1 DEF Tablet, Reading
<1>8. Host(starts)'  BY <1>1 DEF Good, Host, Sent
<1> QED  BY <1>1, <1>4, <1>7, <1>8, Quiet DEF Types

LEMMA ReadPayloadKeeps ==
  ASSUME Types, Delivered, NEW starts \in Seq(Nat), Good(starts), ReadPayload
  PROVE  Types' /\ Delivered' /\ Good(starts)'
<1>1. /\ reader = "payload" /\ reader' = "payload" /\ head' = head
      /\ UNCHANGED <<host, link, offered, got>>
  BY DEF ReadPayload
<1>2. PICK n \in 1..(length - filled) :
        /\ Take(n)
        /\ scratch' = [j \in DOMAIN scratch |->
                         IF j \in (filled + 1)..(filled + n) THEN wire[j - filled]
                         ELSE scratch[j]]
        /\ filled' = filled + n
  BY DEF ReadPayload
<1>3. /\ link = "up" /\ received = starts[Len(got) + 1] + FRAME_HEADER_LEN + filled /\ HeadRead
      /\ Len(head) = FRAME_HEADER_LEN /\ filled <= length /\ length <= Len(scratch)
      /\ \A j \in 1..filled : scratch[j] = Current.payload[j]
  BY <1>1 DEF Good, Tablet, Reading
<1>4. /\ Len(got) \in Nat /\ Len(got) + 1 \in 1..Len(offered)
      /\ Current \in Frames /\ length = Len(Current.payload) /\ length \in Nat
  BY <1>3, HeaderIs
<1>5. /\ wire \in Seq(Nat) /\ scratch \in Seq(Nat) /\ filled \in Nat /\ received \in Nat
      /\ Len(scratch) \in Nat /\ Len(wire) \in Nat /\ n \in Nat /\ n >= 1
      /\ filled + n <= length /\ n <= Len(wire) /\ DOMAIN scratch = 1..Len(scratch)
  <2>1. wire \in Seq(Nat) /\ scratch \in Seq(Nat) /\ filled \in Nat /\ received \in Nat
    BY DEF Types
  <2>2. n \in Nat /\ n >= 1 /\ filled + n <= length  BY <1>4, <2>1
  <2>3. n <= Len(wire)  BY <1>2 DEF Take
  <2> QED  BY <2>1, <2>2, <2>3
<1>6. starts[Len(got) + 1] \in Nat
  <2>1. Len(got) + 1 \in 1..Len(starts)  BY <1>4 DEF Good, Layout, Types
  <2> QED  BY <2>1 DEF Good, Layout
<1>7. ASSUME NEW i \in 1..n PROVE wire[i] = Current.payload[filled + i] /\ wire[i] \in Nat
  <2>1. i \in 1..Len(wire) /\ filled + i \in 1..length  BY <1>4, <1>5
  <2>2. /\ Len(encode(Current)) = FRAME_HEADER_LEN + length
        /\ encode(Current)[FRAME_HEADER_LEN + (filled + i)] = Current.payload[filled + i]
    BY <1>4, <2>1, EncodeIs
  <2>3. FRAME_HEADER_LEN + (filled + i) \in 1..Len(encode(Current))
    BY <1>4, <2>1, <2>2 DEF FRAME_HEADER_LEN
  <2>4. starts[Len(got) + 1] + (FRAME_HEADER_LEN + (filled + i)) = received + i
    <3>1. \A a, b, r \in Nat : r = a + 2 + b => a + (2 + (b + i)) = r + i  OBVIOUS
    <3>2. received \in Nat /\ filled \in Nat /\ received = starts[Len(got) + 1] + 2 + filled
      BY <1>3, <1>5 DEF FRAME_HEADER_LEN
    <3> QED  BY <1>6, <3>1, <3>2, Zenon DEF FRAME_HEADER_LEN
  <2>5. wire[i] = encode(Current)[FRAME_HEADER_LEN + (filled + i)]
    BY <1>3, <1>4, <2>1, <2>3, <2>4, WireIs DEF Good, Current
  <2> QED  BY <1>5, <2>1, <2>2, <2>5
<1>8. /\ scratch' \in Seq(Nat) /\ Len(scratch') = Len(scratch)
      /\ \A j \in 1..Len(scratch) :
           scratch'[j] = IF j \in (filled + 1)..(filled + n) THEN wire[j - filled]
                         ELSE scratch[j]
  <2>1. \A j \in 1..Len(scratch) :
          (IF j \in (filled + 1)..(filled + n) THEN wire[j - filled] ELSE scratch[j]) \in Nat
    <3> TAKE j \in 1..Len(scratch)
    <3>1. CASE j \in (filled + 1)..(filled + n)
      <4>1. j - filled \in 1..n  BY <1>5, <3>1
      <4> QED  BY <1>7, <3>1, <4>1
    <3>2. CASE j \notin (filled + 1)..(filled + n)  BY <1>5, <3>2
    <3> QED  BY <3>1, <3>2
  <2> DEFINE N == Len(scratch)
             At(j) == IF j \in (filled + 1)..(filled + n) THEN wire[j - filled] ELSE scratch[j]
  <2>2. scratch' = [j \in 1..N |-> At(j)]  BY <1>2, <1>5
  <2>3. N \in Nat /\ \A j \in 1..N : At(j) \in Nat  BY <1>5, <2>1
  <2> HIDE DEF At, N
  <2>4. scratch' \in [1..N -> Nat] /\ \A j \in 1..N : scratch'[j] = At(j)
    BY <2>2, <2>3, Zenon
  <2>5. scratch' \in Seq(Nat) /\ Len(scratch') = N
    BY <2>3, <2>4, SeqDef, LenProperties
  <2> QED  BY <2>4, <2>5 DEF At, N
<1>9. filled' \in Nat /\ filled' <= length /\ Current' = Current /\ length' = length /\ HeadRead'
  BY <1>1, <1>2, <1>3, <1>5 DEF Current, length, HeadRead
<1>10. \A j \in 1..filled' : scratch'[j] = Current.payload[j]
  <2> TAKE j \in 1..filled'
  <2>1. j \in 1..Len(scratch)  BY <1>2, <1>3, <1>4, <1>5, <1>9
  <2>2. CASE j \in 1..filled
    <3>1. j \notin (filled + 1)..(filled + n)  BY <1>5, <2>2
    <3> QED  BY <1>3, <1>8, <2>1, <2>2, <3>1
  <2>3. CASE j \notin 1..filled
    <3>1. j \in (filled + 1)..(filled + n) /\ j - filled \in 1..n /\ filled + (j - filled) = j
      BY <1>2, <1>5, <2>1, <2>3
    <3>2. wire[j - filled] = Current.payload[filled + (j - filled)]  BY <1>7, <3>1
    <3> QED  BY <1>8, <2>1, <3>1, <3>2
  <2> QED  BY <2>2, <2>3
<1>11. received' = starts[Len(got) + 1] + FRAME_HEADER_LEN + filled'
  <2>1. \A a, b, r \in Nat : r = a + 2 + b => r + n = a + 2 + (b + n)  BY <1>5
  <2>2. received + n = starts[Len(got) + 1] + 2 + (filled + n)
    BY <1>3, <1>5, <1>6, <2>1, Zenon DEF FRAME_HEADER_LEN
  <2> QED  BY <1>2, <2>2, Zenon DEF Take, FRAME_HEADER_LEN
<1>12. Tablet(starts)'
  BY <1>1, <1>3, <1>8, <1>9, <1>10, <1>11 DEF Tablet, Reading
<1> QED  BY <1>1, <1>2, <1>5, <1>8, <1>9, <1>12, TakeKeeps DEF Types

\* A frame whose payload is in the buffer is the one that was sent.
LEMMA DemuxKeeps ==
  ASSUME Types, Delivered, NEW starts \in Seq(Nat), Good(starts), Demux
  PROVE  Types' /\ Delivered' /\ Good(starts)'
<1> DEFINE p == SubSeq(scratch, 1, length)
           frame == [stream |-> head[2], payload |-> p]
<1>1. /\ reader = "payload" /\ reader' = "header" /\ filled = length /\ head' = <<>>
      /\ got' = IF head[2] \in {STREAM_TYPE_VIDEO, STREAM_TYPE_AUDIO} THEN Append(got, frame)
                ELSE got
      /\ UNCHANGED <<pc, item, rest, frames_sent, bytes_sent, link, wire, scratch, filled,
                     offered, received>>
  BY DEF Demux, host, socket
<1>2. /\ link = "up" /\ received = starts[Len(got) + 1] + FRAME_HEADER_LEN + filled /\ HeadRead
      /\ Len(head) = FRAME_HEADER_LEN /\ length <= Len(scratch)
      /\ \A j \in 1..filled : scratch[j] = Current.payload[j]
  BY <1>1 DEF Good, Tablet, Reading
<1>3. /\ Len(got) \in Nat /\ Len(got) < Len(offered) /\ Len(got) + 1 \in 1..Len(offered)
      /\ Current \in Frames /\ length = Len(Current.payload) /\ length \in Nat
      /\ head[2] = Current.stream
  BY <1>2, HeaderIs
<1>4. p = Current.payload
  <2>1. scratch \in Seq(Nat) /\ Current.payload \in Seq(Nat)  BY <1>3 DEF Types, Frames
  <2>2. p \in Seq(Nat) /\ Len(p) = length /\ \A j \in 1..length : p[j] = scratch[j]
    <3> DEFINE L == length
    <3>1. L \in Nat /\ L <= Len(scratch) /\ p = SubSeq(scratch, 1, L)  BY <1>2, <1>3
    <3> HIDE DEF L, p
    <3>2. p \in Seq(Nat) /\ Len(p) = L /\ \A j \in 1..L : p[j] = scratch[j]  BY <2>1, <3>1
    <3> QED  BY <3>2 DEF L
  <2> HIDE DEF p
  <2>3. Len(p) = Len(Current.payload) /\ \A j \in 1..Len(p) : p[j] = Current.payload[j]
    BY <1>1, <1>2, <1>3, <2>2
  <2> QED  BY <2>1, <2>2, <2>3, SeqEqual
<1>5. frame = Current
  <2>1. Current = [stream |-> Current.stream, payload |-> Current.payload]
    BY <1>3 DEF Frames
  <2> QED  BY <1>3, <1>4, <2>1
<1>6. got' = Append(got, Current)
  BY <1>1, <1>3, <1>5 DEF Frames
<1>7. /\ got' \in Seq(Frames) /\ Len(got') = Len(got) + 1 /\ got'[Len(got) + 1] = Current
      /\ \A k \in 1..Len(got) : got'[k] = got[k]
  <2> DEFINE c == Current
  <2>1. c \in Frames /\ got' = Append(got, c) /\ got \in Seq(Frames)  BY <1>3, <1>6 DEF Types
  <2> HIDE DEF c
  <2>2. /\ got' \in Seq(Frames) /\ Len(got') = Len(got) + 1 /\ got'[Len(got) + 1] = c
        /\ \A k \in 1..Len(got) : got'[k] = got[k]
    BY <2>1
  <2> QED  BY <2>2 DEF c
<1>8. Types'  BY <1>1, <1>7 DEF Types
<1>9. Delivered'
  <2>1. Len(offered) \in Nat  BY DEF Types
  <2>2. ASSUME NEW k \in 1..Len(got') PROVE got'[k] = offered[k]
    <3>1. CASE k = Len(got) + 1  BY <1>7, <3>1 DEF Current
    <3>2. CASE k # Len(got) + 1
      <4>1. k \in 1..Len(got)  BY <1>3, <1>7, <3>2
      <4> QED  BY <1>7, <4>1 DEF Delivered
    <3> QED  BY <3>1, <3>2
  <2>3. Len(got') <= Len(offered)  BY <1>3, <1>7, <2>1
  <2> QED  BY <1>1, <2>2, <2>3 DEF Delivered
<1>10. Layout(starts)' /\ Flows(starts)' /\ Host(starts)'
  BY <1>1 DEF Good, Layout, Flows, Host, Ahead, Sent
<1>11. received = starts[Len(got') + 1]
  <2>1. starts[Len(got) + 1 + 1] = starts[Len(got) + 1] + FRAME_HEADER_LEN + length
    BY <1>3 DEF Good, Layout, Current
  <2> QED  BY <1>1, <1>2, <1>7, <2>1
<1>12. Tablet(starts)'
  <2>1. Len(head') = 0 /\ Len(got') + 1 \in 1..Len(starts)
    <3>1. Len(offered) \in Nat /\ Len(starts) = Len(offered) + 1  BY DEF Good, Layout, Types
    <3> QED  BY <1>1, <1>3, <1>7, <3>1
  <2>2. starts[Len(got') + 1] \in Nat  BY <2>1 DEF Good, Layout
  <2>3. received' = starts[Len(got') + 1] + Len(head')  BY <1>1, <1>11, <2>1, <2>2
  <2>4. HeadRead'  BY <2>1 DEF HeadRead
  <2> QED  BY <1>1, <1>2, <2>1, <2>3, <2>4 DEF Tablet, Reading, FRAME_HEADER_LEN
<1> QED  BY <1>8, <1>9, <1>10, <1>12 DEF Good

\* What every way of closing the socket has to keep.
LEMMA CloseKeeps ==
  ASSUME Types, Delivered, NEW starts \in Seq(Nat), Good(starts),
         NEW why \in {"refused", "ended", "left"}, Close(why),
         why = "ended" => /\ pc \in {"failed", "gone"}
                          /\ pc = "gone" => got = offered /\ received = Sent(starts)
  PROVE  Types' /\ Delivered' /\ Good(starts)'
<1>1. /\ reader' = why /\ link' = "closed" /\ wire' = <<>>
      /\ UNCHANGED <<pc, item, rest, frames_sent, bytes_sent, head, scratch, filled, offered,
                     got, received>>
  BY DEF Close, host
<1>2. Types' /\ Delivered'  BY <1>1 DEF Types, Delivered
<1>3. Layout(starts)' /\ Host(starts)'  BY <1>1 DEF Good, Layout, Host, Sent
<1>4. Flows(starts)'  BY <1>1 DEF Flows
<1>5. Tablet(starts)'  BY <1>1 DEF Tablet, Reading, Sent
<1> QED  BY <1>2, <1>3, <1>4, <1>5 DEF Good

\* Inside a frame the tablet has not read all that was sent.
LEMMA InsideFrame ==
  ASSUME Types, Delivered, NEW starts \in Seq(Nat), Layout(starts), Len(got) < Len(offered),
         NEW d \in Nat, d < FRAME_HEADER_LEN + Len(Current.payload),
         received = starts[Len(got) + 1] + d
  PROVE  received < Sent(starts)
<1> DEFINE g == Len(got) + 1
           N == Len(offered)
<1>1. /\ g \in 1..N /\ g + 1 \in 1..Len(starts) /\ N + 1 \in 1..Len(starts)
      /\ g \in 1..Len(starts) /\ g + 1 <= N + 1
  <2>1. Len(got) \in Nat /\ N \in Nat  BY DEF Types
  <2>2. Len(starts) = N + 1  BY DEF Layout
  <2> QED  BY <2>1, <2>2
<1>2. starts[g] \in Nat /\ starts[g + 1] \in Nat /\ starts[N + 1] \in Nat
  BY <1>1, ElementOfSeq
<1>3. starts[g + 1] = starts[g] + FRAME_HEADER_LEN + Len(offered[g].payload)
  BY <1>1 DEF Layout
<1>4. starts[g + 1] <= starts[N + 1]  BY <1>1 DEF Layout
<1>5. Len(offered[g].payload) \in Nat
  <2>1. offered[g] \in Frames  BY <1>1, ElementOfSeq DEF Types
  <2> QED  BY <2>1 DEF Frames
<1>6. \A a, b, c, s \in Nat : c = a + 2 + b /\ d < 2 + b /\ c <= s => a + d < s  OBVIOUS
<1>7. d < 2 + Len(offered[g].payload)  BY DEF Current, FRAME_HEADER_LEN
<1>8. starts[g + 1] = starts[g] + 2 + Len(offered[g].payload)  BY <1>3 DEF FRAME_HEADER_LEN
<1> HIDE DEF g, N
<1>9. starts[g] + d < starts[N + 1]  BY <1>2, <1>4, <1>5, <1>6, <1>7, <1>8, Zenon
<1> QED  BY <1>9 DEF Sent, g, N

LEMMA EndOfStreamKeeps ==
  ASSUME Types, Delivered, NEW starts \in Seq(Nat), Good(starts), EndOfStream
  PROVE  Types' /\ Delivered' /\ Good(starts)'
<1>1. /\ Reading /\ pc \in {"failed", "gone"} /\ wire = <<>> /\ Close("ended")
      /\ reader = "header" => Len(head) < FRAME_HEADER_LEN
      /\ reader = "payload" => filled < length
  BY DEF EndOfStream, Reading
<1>2. link = "up"  BY <1>1 DEF Good, Tablet
<1>3. Len(got) \in Nat /\ Len(offered) \in Nat /\ Len(got) <= Len(offered)
      /\ received \in Nat /\ Len(head) \in Nat /\ filled \in Nat
  BY DEF Types, Delivered
<1>4. ASSUME pc = "gone" PROVE got = offered /\ received = Sent(starts)
  <2>1. received = Sent(starts)
    <3>1. rest = <<>>  BY <1>4 DEF Good, Host
    <3>2. Len(Ahead) = 0  BY <1>1, <3>1 DEF Ahead
    <3>3. received + Len(Ahead) = Sent(starts)  BY <1>2, <1>4 DEF Good, Flows
    <3> QED  BY <1>3, <3>2, <3>3
  <2>2. Layout(starts)  BY DEF Good
  <2>3. ~(received < Sent(starts))  BY <1>3, <2>1
  <2>4. Len(got) = Len(offered)
    <3>1. SUFFICES ASSUME Len(got) < Len(offered) PROVE FALSE
      BY <1>3
    <3>2. Len(got) + 1 \in 1..Len(offered) /\ Current \in Frames
      BY <1>3, <3>1 DEF Current, Types
    <3>3. Len(Current.payload) \in Nat  BY <3>2 DEF Frames
    <3>4. CASE reader = "start"
      <4>1. received = 0 /\ starts[1] = 1 /\ starts[1] <= Sent(starts)
        <5>1. 1 \in 1..Len(starts) /\ Len(offered) + 1 \in 1..Len(starts) /\ 1 <= Len(offered) + 1
          BY <1>3, <2>2 DEF Layout
        <5> QED  BY <2>2, <3>4, <5>1 DEF Good, Tablet, Layout, Sent
      <4> QED  BY <2>1, <4>1
    <3>5. CASE reader = "header"
      <4>1. received = starts[Len(got) + 1] + Len(head) /\ Len(head) < FRAME_HEADER_LEN
        BY <1>1, <3>5 DEF Good, Tablet
      <4>2. Len(head) < FRAME_HEADER_LEN + Len(Current.payload)
        BY <1>3, <3>3, <4>1 DEF FRAME_HEADER_LEN
      <4> QED  BY <1>3, <2>2, <2>3, <3>1, <4>1, <4>2, InsideFrame
    <3>6. CASE reader = "payload"
      <4>1. /\ received = starts[Len(got) + 1] + FRAME_HEADER_LEN + filled
            /\ HeadRead /\ Len(head) = FRAME_HEADER_LEN /\ filled < length
        BY <1>1, <3>6 DEF Good, Tablet
      <4>2. filled < Len(Current.payload)
        <5>1. length = Len(Current.payload)  BY <4>1, HeaderIs
        <5> QED  BY <4>1, <5>1
      <4>3. FRAME_HEADER_LEN + filled < FRAME_HEADER_LEN + Len(Current.payload)
            /\ FRAME_HEADER_LEN + filled \in Nat
        BY <1>3, <3>3, <4>2 DEF FRAME_HEADER_LEN
      <4>4. starts[Len(got) + 1] \in Nat
        <5>1. Len(got) + 1 \in 1..Len(starts)  BY <1>3, <2>2 DEF Layout
        <5> QED  BY <2>2, <5>1, ElementOfSeq DEF Layout
      <4>5. received = starts[Len(got) + 1] + (FRAME_HEADER_LEN + filled)
        <5>1. \A a, b \in Nat : a + 2 + b = a + (2 + b)  OBVIOUS
        <5> QED  BY <1>3, <4>1, <4>4, <5>1, Zenon DEF FRAME_HEADER_LEN
      <4> QED  BY <2>2, <2>3, <3>1, <4>3, <4>5, InsideFrame
    <3> QED  BY <1>1, <3>4, <3>5, <3>6 DEF Reading
  <2>5. got \in Seq(Frames) /\ offered \in Seq(Frames)
        /\ \A k \in 1..Len(got) : got[k] = offered[k]
    BY DEF Types, Delivered
  <2>6. got = offered  BY <2>4, <2>5, SeqEqual
  <2> QED  BY <2>1, <2>6
<1> QED  BY <1>1, <1>4, CloseKeeps

LEMMA StutterKeeps ==
  ASSUME Types, Delivered, NEW starts \in Seq(Nat), Good(starts), UNCHANGED vars
  PROVE  Types' /\ Delivered' /\ Good(starts)'
<1>1. UNCHANGED <<pc, item, rest, frames_sent, bytes_sent, link, wire, reader, head, scratch,
                  filled, offered, got, received>>
  BY DEF vars, host, socket, tablet
<1>2. Types' /\ Delivered'  BY <1>1 DEF Types, Delivered
<1>3. Layout(starts)' /\ Host(starts)'  BY <1>1 DEF Good, Layout, Host, Sent
<1>4. Flows(starts)'  BY <1>1 DEF Good, Flows, Ahead, Sent
<1>5. Tablet(starts)'
  BY <1>1 DEF Good, Tablet, Reading, HeadRead, Current, length, Sent
<1> QED  BY <1>2, <1>3, <1>4, <1>5 DEF Good

-----------------------------------------------------------------------------
LEMMA InitInv == Init => Inv
<1>1. SUFFICES ASSUME Init PROVE Inv
  OBVIOUS
<1>2. Types /\ Delivered  BY <1>1 DEF Init, Types, Delivered
<1>3. <<1>> \in Seq(Nat) /\ Len(<<1>>) = 1 /\ <<1>>[1] = 1  OBVIOUS
<1>4. Layout(<<1>>)  BY <1>1, <1>3 DEF Init, Layout
<1>5. Flows(<<1>>)
  <2>1. Len(Ahead) = 0  BY <1>1 DEF Init, Ahead
  <2> QED  BY <1>1, <2>1 DEF Init, Flows
<1>6. Host(<<1>>) /\ Tablet(<<1>>)  BY <1>1 DEF Init, Host, Tablet, Reading
<1> QED  BY <1>2, <1>3, <1>4, <1>5, <1>6 DEF Inv, Good

LEMMA StepInv == Inv /\ [Next]_vars => Inv'
<1>1. SUFFICES ASSUME Inv, [Next]_vars
               PROVE  Types' /\ Delivered' /\ \E next \in Seq(Nat) : Good(next)'
  BY DEF Inv
<1>2. Types /\ Delivered  BY <1>1 DEF Inv
<1>3. PICK starts \in Seq(Nat) : Good(starts)  BY <1>1 DEF Inv
<1>4. CASE Connect  BY <1>2, <1>3, <1>4, ConnectKeeps
<1>5. CASE Write  BY <1>2, <1>3, <1>5, WriteKeeps
<1>6. CASE WriteFails \/ Leave  BY <1>2, <1>3, <1>6, WriteEnds
<1>7. CASE Written  BY <1>2, <1>3, <1>7, WrittenKeeps
<1>8. CASE \E stream \in {STREAM_TYPE_VIDEO, STREAM_TYPE_AUDIO}, n \in Lengths : Send(stream, n)
  BY <1>2, <1>3, <1>8, SendKeeps
<1>9. CASE ReadStreamHeader  BY <1>2, <1>3, <1>9, ReadStreamHeaderKeeps
<1>10. CASE ReadField  BY <1>2, <1>3, <1>10, ReadFieldKeeps
<1>11. CASE ReadHeader  BY <1>2, <1>3, <1>11, ReadHeaderKeeps
<1>12. CASE ReadPayload  BY <1>2, <1>3, <1>12, ReadPayloadKeeps
<1>13. CASE Demux  BY <1>2, <1>3, <1>13, DemuxKeeps
<1>14. CASE Implausible  BY <1>2, <1>3, <1>14, CloseKeeps DEF Implausible
<1>15. CASE EndOfStream  BY <1>2, <1>3, <1>15, EndOfStreamKeeps
<1>16. CASE TabletLeaves  BY <1>2, <1>3, <1>16, CloseKeeps DEF TabletLeaves
<1>17. CASE UNCHANGED vars  BY <1>2, <1>3, <1>17, StutterKeeps
<1> QED
  BY <1>1, <1>4, <1>5, <1>6, <1>7, <1>8, <1>9, <1>10, <1>11, <1>12, <1>13, <1>14, <1>15, <1>16,
     <1>17 DEF Next, Done

LEMMA InvAlways == Spec => []Inv
  BY InitInv, StepInv, PTL DEF Spec

\* Whatever the socket's window, however long the payloads and however the reads and
\* writes cut them: the tablet's decoders are given the frames that were sent, whole,
\* in their order and with their bytes, and nothing else, wherever the stream breaks
\* off (transport/src/lib.rs:117-131, VideoStream.kt:217-252).
THEOREM FramesAreWhole == Spec => []FramesWhole
<1>1. Inv => FramesWhole
  <2>1. SUFFICES ASSUME Types, Delivered PROVE FramesWhole
    BY DEF Inv
  <2>2. /\ got \in Seq(Frames) /\ offered \in Seq(Frames) /\ Len(got) <= Len(offered)
        /\ \A k \in 1..Len(got) : got[k] = offered[k]
    BY <2>1 DEF Types, Delivered
  <2> QED  BY <2>2 DEF FramesWhole, IsPrefix
<1> QED  BY <1>1, InvAlways, PTL

\* When the host left between two frames and the tablet read to the end, every frame
\* arrived and the count of bytes is the bytes that went through the socket, the
\* stream header's and the frame headers' included (transport/src/lib.rs:39-44, 87-90,
\* transport_probe.rs:200).
THEOREM BytesAreExact == Spec => []ByteExact
<1>1. Inv => ByteExact
  <2>1. SUFFICES ASSUME NEW starts \in Seq(Nat), Good(starts), pc = "gone", reader = "ended"
                 PROVE  got = offered /\ received = bytes_sent /\ frames_sent = Len(got)
    BY DEF Inv, ByteExact
  <2>2. got = offered /\ received = Sent(starts)  BY <2>1 DEF Good, Tablet
  <2>3. bytes_sent = Sent(starts) /\ frames_sent = Len(offered)  BY <2>1 DEF Good, Host
  <2> QED  BY <2>2, <2>3
<1> QED  BY <1>1, InvAlways, PTL
=============================================================================
