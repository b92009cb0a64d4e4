---------------------------- MODULE PictureFormat ---------------------------
(***************************************************************************)
(* The size of the picture on its way from the tablet's panel to its       *)
(* decoder: `wm size` (adb.rs), the resolution streamed, the output of     *)
(* that size the compositor makes or the EDID that describes it            *)
(* (evdi_backend/edid.rs), what the frames then measure, the stream header *)
(* (protocol, transport) and the tablet's reading of it (Protocol.kt).     *)
(***************************************************************************)
EXTENDS Integers, Sequences, SequencesExt

CONSTANTS
  Panels,       \* sizes <<w, h>> `wm size` may report, also a zero one
  MaxWidths,    \* --max-width, --native being one beyond every panel
  Rates,        \* --fps
  Resolutions,  \* --width and --height, when given
  Existing,     \* sizes of the output labwc already has
  Audio,        \* sets of audio parameters: <<codec, rate, channels, pre-skip>>
  AppVersions,  \* protocol versions of the app installed
  None

\* The numbers of 16 bits, the sides of a picture among them, and those that the
\* 12 bits of an EDID hold.
U16 == {n \in Nat : n < 65536}
Side == {n \in U16 : n >= 2}
U12 == {n \in Side : n < 4096}

\* \div and % are the code's integer division for the sizes the inputs have.
ASSUME FormatAssumption ==
  /\ Panels \subseteq Nat \X Nat /\ MaxWidths \subseteq Nat
  /\ Rates \subseteq 1..144 /\ Resolutions \cup Existing \subseteq U12 \X U12
  /\ Audio \subseteq (0..1) \X U16 \X (0..255) \X U16 /\ AppVersions \subseteq Nat

\* A side of a panel is zero or is one of a picture that the header can announce,
\* and the cap leaves a picture.
ASSUME SizesAssumption ==
  /\ Panels \subseteq ({0} \cup Side) \X ({0} \cup Side)
  /\ \A max \in MaxWidths : max >= 2

VARIABLES
  stage,   \* the last step made, or that the session is refused
  panel,   \* landscape size of the panel
  cap,     \* --max-width
  fps,
  asked,   \* the size the session wants
  edid,    \* its 128 bytes
  size,    \* the size of a captured frame
  audio,   \* what the host says of its sound
  wire,    \* the stream header's 24 bytes
  header   \* what the tablet read

vars == <<stage, panel, cap, fps, asked, edid, size, audio, wire, header>>

-----------------------------------------------------------------------------
(* Sizes (adb.rs).                                                         *)

Landscape(s) == IF s[1] >= s[2] THEN s ELSE <<s[2], s[1]>>

Least(a, b) == IF a <= b THEN a ELSE b
Most(a, b) == IF a >= b THEN a ELSE b

align2(n) == n - (n % 2)

\* Mutant of stream_resolution: both axes are aligned to macroblocks.
stream_resolution16(p, max) ==
  LET w == Most(Least(p[1], max), 2)
  IN <<((w + 15) \div 16) * 16, ((((w * p[2]) \div p[1]) + 15) \div 16) * 16>>

stream_resolution(p, max) ==
  LET w == Most(Least(p[1], max), 2)
  IN <<align2(w), align2(Most((w * p[2]) \div p[1], 2))>>

-----------------------------------------------------------------------------
(* CVT with reduced blanking, and the EDID (edid.rs).                      *)

\* (a * b) \div c without the product.
MulDiv(a, b, c) == a * (b \div c) + (a * (b % c)) \div c

\* Lines of vertical sync, by the ratio of the sides.
Vsync(w, h) ==
  LET Ratio(n, by) == h % n = 0 /\ (h * by) \div n = w
  IN IF Ratio(3, 4) THEN 4
     ELSE IF Ratio(9, 16) THEN 5
     ELSE IF Ratio(10, 16) THEN 6
     ELSE IF Ratio(4, 5) \/ Ratio(9, 15) THEN 7
     ELSE 10

\* Mutant of Lines: the blanking is the least number of lines.
LinesLeast(w, h, hperiod) == 3 + Vsync(w, h) + 6

\* Lines of vertical blanking: 460 us of them, and not too few.
Lines(w, h, hperiod) == Most(460000 \div hperiod + 1, 3 + Vsync(w, h) + 6)

\* A line lasts hperiod nanoseconds.
reduced_blanking(w, h, rate) ==
  LET hactive == w - (w % 8)
      hperiod == (1000000000 - 460000 * rate) \div (h * rate)
      htotal == hactive + 160
  IN [hactive |-> hactive, vactive |-> h, htotal |-> htotal,
      vtotal |-> h + Lines(w, h, hperiod),
      hfront |-> 48, hsync |-> 32, vfront |-> 3, vsync |-> Vsync(w, h),
      clock_khz |-> MulDiv(htotal, 1000000, hperiod)]

\* Mutant of High: a field keeps one bit less.
HighNarrow(n, values) == (n \div 256) % (values \div 2)

\* The low byte of a number, and as much as a field of so many values keeps above.
Low(n) == n % 256

High(n, values) == (n \div 256) % values

detailed_timing_descriptor(t) ==
  LET clock == t.clock_khz \div 10
      hblank == t.htotal - t.hactive
      vblank == t.vtotal - t.vactive
      Six(n) == n \div 16   \* the upper two of a six-bit field
  IN <<Low(clock), High(clock, 256),
       Low(t.hactive), Low(hblank), 16 * High(t.hactive, 16) + High(hblank, 16),
       Low(t.vactive), Low(vblank), 16 * High(t.vactive, 16) + High(vblank, 16),
       Low(t.hfront), Low(t.hsync), 16 * (t.vfront % 16) + (t.vsync % 16),
       64 * High(t.hfront, 4) + 16 * High(t.hsync, 4)
         + 4 * (Six(t.vfront) % 4) + (Six(t.vsync) % 4),
       0, 0, 0, 0, 0, 26>>

Zeros(n) == [k \in 1..n |-> 0]

\* "MRE", five bits a letter.
manufacturer_id == 13 * 1024 + 18 * 32 + 5

\* The fixed bytes before and after the descriptor; the name is "PadPlay".
Preamble ==
  <<0, 255, 255, 255, 255, 255, 255, 0, High(manufacturer_id, 256), Low(manufacturer_id),
    1, 0>> \o Zeros(4) \o <<1, 34, 1, 4, 165, 0, 0, 120, 2>> \o Zeros(13)
  \o [k \in 1..16 |-> 1]
Postamble ==
  <<0, 0, 0, 252, 0, 80, 97, 100, 80, 108, 97, 121, 10>> \o [k \in 1..5 |-> 32]
  \o <<0, 0, 0, 16>> \o Zeros(14) \o <<0, 0, 0, 16>> \o Zeros(14) \o <<0>>

\* Row by row, to keep TLC's recursion shallow.
Sum(bytes) ==
  LET Plus(a, b) == a + b
      Row(k) == SubSeq(bytes, 16 * k - 15, Least(16 * k, Len(bytes)))
  IN FoldLeft(Plus, 0, [k \in 1..8 |-> FoldLeft(Plus, 0, Row(k))])

build_edid(w, h, rate) ==
  LET body == Preamble \o detailed_timing_descriptor(reduced_blanking(w, h, rate))
                \o Postamble
  IN Append(body, (256 - (Sum(body) % 256)) % 256)

\* External: the mode a compositor reads in an EDID, by the layout of EDID 1.4.
ReadMode(bytes) ==
  LET d(k) == bytes[55 + k]
  IN [clock_khz |-> (d(0) + 256 * d(1)) * 10,
      hactive |-> d(2) + 256 * (d(4) \div 16), hblank |-> d(3) + 256 * (d(4) % 16),
      vactive |-> d(5) + 256 * (d(7) \div 16), vblank |-> d(6) + 256 * (d(7) % 16),
      hfront |-> d(8) + 256 * (d(11) \div 64), hsync |-> d(9) + 256 * ((d(11) \div 16) % 4),
      vfront |-> (d(10) \div 16) + 16 * ((d(11) \div 4) % 4),
      vsync |-> (d(10) % 16) + 16 * (d(11) % 4)]

ModeSize(bytes) == <<ReadMode(bytes).hactive, ReadMode(bytes).vactive>>

-----------------------------------------------------------------------------
(* The stream header.                                                      *)

VERSION == 2
MAGIC == <<77, 82, 76, 68>>
STREAM_HEADER_LEN == 24

u16(n) == n % 65536
BigEndian(n) == <<High(n, 256), Low(n)>>

\* The host's header; its one sample rate, 48 kHz, fits.
stream_header(s, rate, a) ==
  [width |-> u16(s[1]), height |-> u16(s[2]), framerate |-> u16(rate), codec |-> 0,
   audio |-> a]

encode(h) ==
  MAGIC \o BigEndian(VERSION) \o BigEndian(h.width) \o BigEndian(h.height)
  \o BigEndian(h.framerate) \o <<h.codec, h.audio[1]>>
  \o BigEndian(h.audio[2]) \o <<h.audio[3]>> \o BigEndian(h.audio[4]) \o Zeros(5)

\* The tablet's reading; None when it throws.
readStreamHeader(bytes, version) ==
  LET two(k) == bytes[k + 1] * 256 + bytes[k + 2]
  IN IF SubSeq(bytes, 1, 4) # MAGIC \/ two(4) # version \/ bytes[13] \notin 0..1
        \/ bytes[14] \notin 0..1
     THEN None
     ELSE [width |-> two(6), height |-> two(8), framerate |-> two(10), codec |-> bytes[13],
           audio |-> <<bytes[14], two(14), bytes[17], two(17)>>]

-----------------------------------------------------------------------------
(* The steps of a session that touch it.                                   *)

Moves(from, to) == stage = from /\ stage' = to

\* An override is what apps get; a panel of no size is refused.
DisplaySize ==
  \E physical \in Panels, override \in Panels \cup {None}, max \in MaxWidths :
    LET s == IF override = None THEN physical ELSE override IN
      /\ IF s[1] = 0 \/ s[2] = 0
         THEN Moves("start", "refused") /\ UNCHANGED panel
         ELSE Moves("start", "panel") /\ panel' = Landscape(s)
      /\ cap' = max
      /\ UNCHANGED <<fps, asked, edid, size, audio, wire, header>>

Scale ==
  /\ Moves("panel", "asked")
  /\ asked' = stream_resolution(panel, cap)
  /\ UNCHANGED <<panel, cap, fps, edid, size, audio, wire, header>>

Explicit ==
  /\ Moves("start", "asked")
  /\ asked' \in Resolutions
  /\ UNCHANGED <<panel, cap, fps, edid, size, audio, wire, header>>

\* niri: an evdi device with an EDID of that size.
ConnectEvdi ==
  /\ Moves("asked", "edid")
  /\ edid' = build_edid(asked[1], asked[2], fps)
  /\ UNCHANGED <<panel, cap, fps, asked, size, audio, wire, header>>

\* The compositor has set the only mode of the EDID; wlr-randr is asked for the
\* size wanted, and fails if that is no mode of the output.
PositionEvdi ==
  /\ stage = "edid"
  /\ IF ModeSize(edid) = asked
     THEN stage' = "sized" /\ size' = ModeSize(edid)
     ELSE stage' = "refused" /\ UNCHANGED size
  /\ UNCHANGED <<panel, cap, fps, asked, edid, audio, wire, header>>

\* Hyprland gives the output it made the mode asked for; labwc's has its own.
HeadlessOutput ==
  /\ Moves("asked", "sized")
  /\ size' \in {asked} \cup Existing
  /\ UNCHANGED <<panel, cap, fps, asked, edid, audio, wire, header>>

\* Mutant of SendHeader: the size asked for, not that of the frames.
SendHeaderAsked ==
  /\ Moves("sized", "sent")
  /\ \E a \in Audio :
       audio' = a /\ wire' = encode(stream_header(asked, fps, a))
  /\ UNCHANGED <<panel, cap, fps, asked, edid, size, header>>

SendHeader ==
  /\ Moves("sized", "sent")
  /\ \E a \in Audio :
       audio' = a /\ wire' = encode(stream_header(size, fps, a))
  /\ UNCHANGED <<panel, cap, fps, asked, edid, size, header>>

ReadHeader ==
  /\ stage = "sent"
  /\ header' \in {readStreamHeader(wire, version) : version \in AppVersions}
  /\ stage' = IF header' = None THEN "refused" ELSE "streaming"
  /\ UNCHANGED <<panel, cap, fps, asked, edid, size, audio, wire>>

Init ==
  /\ stage = "start" /\ fps \in Rates
  /\ panel = None /\ cap = 0 /\ asked = None /\ edid = <<>> /\ size = None
  /\ audio = None /\ wire = <<>> /\ header = None

Next ==
  \/ DisplaySize \/ Scale \/ Explicit
  \/ ConnectEvdi \/ PositionEvdi \/ HeadlessOutput
  \/ SendHeader \/ ReadHeader

Spec == Init /\ [][Next]_vars

-----------------------------------------------------------------------------
(* Properties.                                                             *)

\* A resolution chosen for a panel has even sides (NV12), is within the cap and
\* the panel, and has its ratio to within two pixels (stream_resolution).
PictureFits ==
  panel # None /\ asked # None =>
    /\ asked[1] % 2 = 0 /\ asked[2] % 2 = 0
    /\ asked[1] \in 2..Least(cap, panel[1]) /\ asked[2] \in 2..panel[2]
    /\ asked[2] * panel[1] - asked[1] * panel[2] \in (-2 * panel[1])..(2 * panel[1])

\* The EDID is 128 bytes, from which a compositor reads the height wanted, the
\* multiple of eight next below the width, and syncs and porches inside their
\* blanking (edid.rs:21-132).
EdidReads ==
  edid # <<>> =>
    LET m == ReadMode(edid)
    IN /\ Len(edid) = 128 /\ \A k \in 1..127 : edid[k] \in 0..255
       /\ m.vactive = asked[2]
       /\ m.hactive % 8 = 0 /\ asked[1] - m.hactive \in 0..7
       /\ m.hfront + m.hsync < m.hblank /\ m.vfront + m.vsync + 6 <= m.vblank

\* Its last byte makes the sum of all of them 0, and where the pixel clock fits its
\* 16 bits, the rate is within a hundredth of the one wanted, with 460 us of vertical
\* blanking (edid.rs:57-76, 212).
EdidTimes ==
  edid # <<>> =>
    LET m == ReadMode(edid)
        htotal == m.hactive + m.hblank
        dots == fps * htotal * (m.vactive + m.vblank)
    IN /\ edid[128] \in 0..255 /\ Sum(edid) % 256 = 0
       /\ reduced_blanking(asked[1], asked[2], fps).clock_khz <= 655350 =>
            /\ m.clock_khz * 1000 - dots \in (-(dots \div 100))..(dots \div 100)
            /\ m.vblank * htotal * 1000 >= 460 * m.clock_khz

\* A tablet that accepts a header has read what the frames measure and what the
\* host says of its sound, from the bytes that Rust wrote and Kotlin reads.
TabletAgrees ==
  stage = "streaming" =>
    header = [width |-> size[1], height |-> size[2], framerate |-> fps, codec |-> 0,
              audio |-> audio]

\* "a well-formed EDID matching the requested pixel dimensions" (edid.rs:144).
EdidMatches == edid # <<>> => ModeSize(edid) = asked
=============================================================================
