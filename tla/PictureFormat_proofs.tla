------------------------- MODULE PictureFormat_proofs -----------------------
(***************************************************************************)
(* Proofs about PictureFormat: whatever the panel, the cap, the rate, the  *)
(* output and the sound, the picture fits the panel, the EDID made of it   *)
(* says its size where an EDID can, and a tablet that accepts the stream   *)
(* header reads the picture's own sizes from its bytes.                    *)
(***************************************************************************)
EXTENDS PictureFormat, TLAPS

-----------------------------------------------------------------------------
(* Numbers and bytes.                                                      *)

\* The code's integer division: the quotient is the last multiple below.
LEMMA Quotient ==
  ASSUME NEW n \in Nat, NEW d \in Nat \ {0}
  PROVE  n \div d \in Nat /\ (n \div d) * d <= n /\ n < ((n \div d) * d) + d
  BY SMT

\* Two bytes as the tablet puts them together.
Two(b, c) == (b * 256) + c

\* A number of 16 bits is its two bytes.
LEMMA BytesOfNumber ==
  ASSUME NEW n \in U16
  PROVE  Low(n) \in Nat /\ High(n, 256) \in Nat /\ Two(High(n, 256), Low(n)) = n
<1>1. n \in Nat /\ n <= 65535
  BY SMT DEF U16
<1>2. n \div 256 \in Nat /\ (n \div 256) * 256 <= n
  BY <1>1, Quotient, SMT
<1>3. n % 256 \in 0..255 /\ n = ((n \div 256) * 256) + (n % 256)
  BY <1>1, SMT
<1>4. (n \div 256) % 256 = n \div 256
  BY <1>1, <1>2, SMT
<1> QED
  BY <1>2, <1>3, <1>4, SMT DEF Low, High, Two

\* The bytes s, n of them; t goes on where s ends; what is read at two places.
Long(s, n) == s \in Seq(Nat) /\ Len(s) = n
Keeps(t, s, n) == \A k \in 1..n : t[k] = s[k]
At(t, i, b) == t[i] = b
Both(t, i, j, v) == Two(t[i], t[j]) = v

\* What is kept of a sequence, and what is read in it, is kept by the next one.
LEMMA KeepsOn ==
  ASSUME NEW m \in Nat, NEW n \in Nat, m <= n, NEW r, NEW s, NEW t,
         Keeps(s, r, m), Keeps(t, s, n)
  PROVE  Keeps(t, r, m)
  BY SMT DEF Keeps

LEMMA BothKept ==
  ASSUME NEW n \in Nat, NEW m \in Nat, m = n + 2, NEW s, NEW t, NEW v, Keeps(t, s, m),
         Both(s, n + 1, n + 2, v)
  PROVE  Both(t, n + 1, n + 2, v)
<1>1. t[n + 1] = s[n + 1] /\ t[n + 2] = s[n + 2]
  BY SMT DEF Keeps
<1> QED
  BY <1>1, Zenon DEF Both

LEMMA AtKept ==
  ASSUME NEW n \in Nat, NEW s, NEW t, NEW v, NEW i \in 1..n, Keeps(t, s, n), At(s, i, v)
  PROVE  At(t, i, v)
  BY SMT DEF Keeps, At

LEMMA TwoBytesWritten ==
  ASSUME NEW n \in Nat, NEW s, Long(s, n), NEW b \in Nat, NEW c \in Nat
  PROVE  /\ Long(s \o <<b, c>>, n + 2) /\ Keeps(s \o <<b, c>>, s, n)
         /\ At(s \o <<b, c>>, n + 1, b) /\ At(s \o <<b, c>>, n + 2, c)
  BY SMT DEF Long, Keeps, At

LEMMA ByteWritten ==
  ASSUME NEW n \in Nat, NEW s, Long(s, n), NEW b \in Nat
  PROVE  Long(s \o <<b>>, n + 1) /\ Keeps(s \o <<b>>, s, n) /\ At(s \o <<b>>, n + 1, b)
  BY SMT DEF Long, Keeps, At

\* A number written behind some bytes is read from there.
LEMMA NumberWritten ==
  ASSUME NEW n \in Nat, NEW s, Long(s, n), NEW v \in U16
  PROVE  /\ Long(s \o BigEndian(v), n + 2) /\ Keeps(s \o BigEndian(v), s, n)
         /\ Both(s \o BigEndian(v), n + 1, n + 2, v)
<1>1. PICK c \in Nat, d \in Nat : BigEndian(v) = <<c, d>> /\ Two(c, d) = v
  BY BytesOfNumber, SMT DEF BigEndian
<1>2. /\ Long(s \o <<c, d>>, n + 2) /\ Keeps(s \o <<c, d>>, s, n)
      /\ At(s \o <<c, d>>, n + 1, c) /\ At(s \o <<c, d>>, n + 2, d)
  BY <1>1, TwoBytesWritten, Zenon
<1> QED
  BY <1>1, <1>2, Zenon DEF At, Both

LEMMA ZerosWritten ==
  ASSUME NEW n \in Nat, NEW s, Long(s, n), NEW m \in Nat
  PROVE  Long(s \o Zeros(m), n + m) /\ Keeps(s \o Zeros(m), s, n)
  BY SMT DEF Zeros, Long, Keeps

\* A cast to 16 bits leaves what has 16 bits.
LEMMA Narrow ==
  ASSUME NEW n \in U16
  PROVE  u16(n) = n
<1>1. n \in Nat /\ n < 65536
  BY SMT DEF U16
<1> QED
  BY <1>1, SMT DEF u16

LEMMA VersionNarrow == VERSION \in U16
  BY SMT DEF VERSION, U16

LEMMA MagicTyped ==
  /\ Long(MAGIC, 4)
  /\ MAGIC[1] = 77 /\ MAGIC[2] = 82 /\ MAGIC[3] = 76 /\ MAGIC[4] = 68
  BY SMT DEF MAGIC, Long

LEMMA FirstFour ==
  ASSUME NEW t \in Seq(Nat), Len(t) >= 4
  PROVE  /\ SubSeq(t, 1, 4) \in Seq(Nat) /\ Len(SubSeq(t, 1, 4)) = 4
         /\ \A k \in 1..4 : SubSeq(t, 1, 4)[k] = t[k]
  BY SMT

LEMMA FourBytes ==
  ASSUME NEW u \in Seq(Nat), Len(u) = 4
  PROVE  u = <<u[1], u[2], u[3], u[4]>>
  BY SMT

\* The tablet finds the magic number.
LEMMA MagicRead ==
  ASSUME NEW t, Long(t, 24), Keeps(t, MAGIC, 4)
  PROVE  SubSeq(t, 1, 4) = MAGIC
<1> DEFINE u == SubSeq(t, 1, 4)
<1>0. t \in Seq(Nat) /\ Len(t) >= 4
  BY SMT DEF Long
<1>1. u \in Seq(Nat) /\ Len(u) = 4 /\ \A k \in 1..4 : u[k] = t[k]
  BY <1>0, FirstFour, Zenon
<1> HIDE DEF u
<1>2. u = <<u[1], u[2], u[3], u[4]>>
  BY <1>1, FourBytes, Zenon
<1>3. u[1] = MAGIC[1] /\ u[2] = MAGIC[2] /\ u[3] = MAGIC[3] /\ u[4] = MAGIC[4]
  BY <1>1, SMT DEF Keeps
<1>4. u = <<77, 82, 76, 68>>
  BY <1>2, <1>3, MagicTyped, Zenon
<1> QED
  BY <1>4, Zenon DEF u, MAGIC

\* The bytes of a header whose fields are these.
Written(w, h, rate, codec, sound, hertz, channels, skip) ==
  MAGIC \o BigEndian(VERSION) \o BigEndian(w) \o BigEndian(h) \o BigEndian(rate)
  \o <<codec, sound>> \o BigEndian(hertz) \o <<channels>> \o BigEndian(skip) \o Zeros(5)

\* Where they are read again.
Readable(b, w, h, rate, codec, sound, hertz, channels, skip) ==
  /\ Long(b, 24) /\ Keeps(b, MAGIC, 4)
  /\ Both(b, 5, 6, VERSION) /\ Both(b, 7, 8, w) /\ Both(b, 9, 10, h)
  /\ Both(b, 11, 12, rate) /\ At(b, 13, codec) /\ At(b, 14, sound)
  /\ Both(b, 15, 16, hertz) /\ At(b, 17, channels) /\ Both(b, 18, 19, skip)

\* Every field of a header is read where it was written: the bytes before it keep
\* their places as more are added.
LEMMA HeaderBytes ==
  ASSUME NEW w \in U16, NEW h \in U16, NEW rate \in U16,
         NEW codec \in Nat, NEW sound \in Nat, NEW channels \in Nat,
         NEW hertz \in U16, NEW skip \in U16
  PROVE  Readable(Written(w, h, rate, codec, sound, hertz, channels, skip),
                  w, h, rate, codec, sound, hertz, channels, skip)
<1> DEFINE n0 == 4         n1 == n0 + 2    n2 == n1 + 2    n3 == n2 + 2
           n4 == n3 + 2    n5 == n4 + 2    n6 == n5 + 2    n7 == n6 + 1
           n8 == n7 + 2    n9 == n8 + 5
<1> DEFINE s1 == MAGIC \o BigEndian(VERSION)
           s2 == s1 \o BigEndian(w)
           s3 == s2 \o BigEndian(h)
           s4 == s3 \o BigEndian(rate)
           s5 == s4 \o <<codec, sound>>
           s6 == s5 \o BigEndian(hertz)
           s7 == s6 \o <<channels>>
           s8 == s7 \o BigEndian(skip)
           s9 == s8 \o Zeros(5)
<1>a. /\ 5 \in Nat /\ n0 \in Nat /\ n1 \in Nat /\ n2 \in Nat /\ n3 \in Nat /\ n4 \in Nat
      /\ n5 \in Nat /\ n6 \in Nat /\ n7 \in Nat /\ n8 \in Nat /\ n9 \in Nat
  BY SMT
<1>b. /\ n0 <= n1 /\ n1 <= n2 /\ n2 <= n3 /\ n3 <= n4 /\ n4 <= n5
      /\ n5 <= n6 /\ n6 <= n7 /\ n7 <= n8 /\ n8 <= n9
  BY SMT
<1> HIDE DEF n0, n1, n2, n3, n4, n5, n6, n7, n8, n9, s1, s2, s3, s4, s5, s6, s7, s8, s9
<1>c. Long(MAGIC, n0)
  BY MagicTyped DEF n0
<1>1. Long(s1, n1) /\ Keeps(s1, MAGIC, n0) /\ Both(s1, n0 + 1, n0 + 2, VERSION)
  BY <1>a, <1>c, VersionNarrow, NumberWritten, Zenon DEF s1, n1
<1>2. Long(s2, n2) /\ Keeps(s2, s1, n1) /\ Both(s2, n1 + 1, n1 + 2, w)
  BY <1>a, <1>1, NumberWritten, Zenon DEF s2, n2
<1>3. Long(s3, n3) /\ Keeps(s3, s2, n2) /\ Both(s3, n2 + 1, n2 + 2, h)
  BY <1>a, <1>2, NumberWritten, Zenon DEF s3, n3
<1>4. Long(s4, n4) /\ Keeps(s4, s3, n3) /\ Both(s4, n3 + 1, n3 + 2, rate)
  BY <1>a, <1>3, NumberWritten, Zenon DEF s4, n4
<1>5. /\ Long(s5, n5) /\ Keeps(s5, s4, n4)
      /\ At(s5, n4 + 1, codec) /\ At(s5, n4 + 2, sound)
  BY <1>a, <1>4, TwoBytesWritten, Zenon DEF s5, n5
<1>6. Long(s6, n6) /\ Keeps(s6, s5, n5) /\ Both(s6, n5 + 1, n5 + 2, hertz)
  BY <1>a, <1>5, NumberWritten, Zenon DEF s6, n6
<1>7. Long(s7, n7) /\ Keeps(s7, s6, n6) /\ At(s7, n6 + 1, channels)
  BY <1>a, <1>6, ByteWritten, Zenon DEF s7, n7
<1>8. Long(s8, n8) /\ Keeps(s8, s7, n7) /\ Both(s8, n7 + 1, n7 + 2, skip)
  BY <1>a, <1>7, NumberWritten, Zenon DEF s8, n8
<1>9. Long(s9, n9) /\ Keeps(s9, s8, n8)
  BY <1>a, <1>8, ZerosWritten, Zenon DEF s9, n9
<1>11. Keeps(s9, s7, n7)
  BY <1>a, <1>b, <1>9, <1>8, KeepsOn, Zenon
<1>12. Keeps(s9, s6, n6)
  BY <1>a, <1>b, <1>9, <1>11, <1>7, KeepsOn, Zenon
<1>13. Keeps(s9, s5, n5)
  BY <1>a, <1>b, <1>9, <1>12, <1>6, KeepsOn, Zenon
<1>14. Keeps(s9, s4, n4)
  BY <1>a, <1>b, <1>9, <1>13, <1>5, KeepsOn, Zenon
<1>15. Keeps(s9, s3, n3)
  BY <1>a, <1>b, <1>9, <1>14, <1>4, KeepsOn, Zenon
<1>16. Keeps(s9, s2, n2)
  BY <1>a, <1>b, <1>9, <1>15, <1>3, KeepsOn, Zenon
<1>17. Keeps(s9, s1, n1)
  BY <1>a, <1>b, <1>9, <1>16, <1>2, KeepsOn, Zenon
<1>18. Keeps(s9, MAGIC, n0)
  BY <1>a, <1>b, <1>17, <1>1, KeepsOn, Zenon
<1>19. Both(s9, n0 + 1, n0 + 2, VERSION)
  BY <1>a, <1>1, <1>17, BothKept, Zenon DEF n1
<1>20. Both(s9, n1 + 1, n1 + 2, w)
  BY <1>a, <1>2, <1>16, BothKept, Zenon DEF n2
<1>21. Both(s9, n2 + 1, n2 + 2, h)
  BY <1>a, <1>3, <1>15, BothKept, Zenon DEF n3
<1>22. Both(s9, n3 + 1, n3 + 2, rate)
  BY <1>a, <1>4, <1>14, BothKept, Zenon DEF n4
<1>23. Both(s9, n5 + 1, n5 + 2, hertz)
  BY <1>a, <1>6, <1>12, BothKept, Zenon DEF n6
<1>24. Both(s9, n7 + 1, n7 + 2, skip)
  BY <1>a, <1>8, <1>9, BothKept, Zenon DEF n8
<1>25. At(s9, n4 + 1, codec) /\ At(s9, n4 + 2, sound)
  <2>1. n4 + 1 \in 1..n5 /\ n4 + 2 \in 1..n5
    BY SMT DEF n0, n1, n2, n3, n4, n5
  <2> QED
    BY <2>1, <1>a, <1>5, <1>13, AtKept, Zenon
<1>26. At(s9, n6 + 1, channels)
  <2>1. n6 + 1 \in 1..n7
    BY SMT DEF n0, n1, n2, n3, n4, n5, n6, n7
  <2> QED
    BY <2>1, <1>a, <1>7, <1>11, AtKept, Zenon
<1>27. /\ Long(s9, 24) /\ Keeps(s9, MAGIC, 4)
      /\ Both(s9, 5, 6, VERSION) /\ Both(s9, 7, 8, w) /\ Both(s9, 9, 10, h)
      /\ Both(s9, 11, 12, rate) /\ At(s9, 13, codec) /\ At(s9, 14, sound)
      /\ Both(s9, 15, 16, hertz) /\ At(s9, 17, channels) /\ Both(s9, 18, 19, skip)
  BY <1>9, <1>18, <1>19, <1>20, <1>21, <1>22, <1>23, <1>24, <1>25, <1>26, SMT
     DEF n0, n1, n2, n3, n4, n5, n6, n7, n8, n9
<1> QED
  BY <1>27, Zenon DEF Readable, Written, s1, s2, s3, s4, s5, s6, s7, s8, s9

\* What is read of a header: what was written, if the two speak the same version.
LEMMA HeaderRead ==
  ASSUME NEW s \in U16 \X U16, NEW rate \in U16,
         NEW a \in (0..1) \X U16 \X (0..255) \X U16, NEW version
  PROVE  readStreamHeader(encode(stream_header(s, rate, a)), version) =
           IF version = VERSION
           THEN [width |-> s[1], height |-> s[2], framerate |-> rate, codec |-> 0,
                 audio |-> a]
           ELSE None
<1>1. PICK w \in U16, h \in U16, codec \in Nat : w = s[1] /\ h = s[2] /\ codec = 0
  BY SMT
<1>2. /\ a[1] \in 0..1 /\ a[2] \in U16 /\ a[3] \in 0..255 /\ a[4] \in U16
      /\ a = <<a[1], a[2], a[3], a[4]>>
  BY SMT
<1>3. codec \in 0..1 /\ a[1] \in Nat /\ a[3] \in Nat
  BY <1>1, <1>2, SMT
<1>4. PICK sound, hertz, channels, skip :
        sound = a[1] /\ hertz = a[2] /\ channels = a[3] /\ skip = a[4]
  OBVIOUS
<1>4a. sound \in Nat /\ hertz \in U16 /\ channels \in Nat /\ skip \in U16
  BY <1>2, <1>3, <1>4
<1> DEFINE b == Written(w, h, rate, codec, sound, hertz, channels, skip)
<1>5. Readable(b, w, h, rate, codec, sound, hertz, channels, skip)
  BY <1>4a, HeaderBytes, Zenon
<1>6. encode(stream_header(s, rate, a)) = b
  <2> DEFINE r == stream_header(s, rate, a)
  <2>1. r.width = w /\ r.height = h /\ r.framerate = rate /\ r.codec = codec /\ r.audio = a
    BY <1>1, Narrow, Zenon DEF stream_header
  <2> HIDE DEF r
  <2>2. encode(r) = Written(r.width, r.height, r.framerate, r.codec, r.audio[1], r.audio[2],
                            r.audio[3], r.audio[4])
    BY Zenon DEF encode, Written
  <2>3. encode(r) = b
    BY <1>4, <2>1, <2>2, Zenon
  <2> QED
    BY <2>3 DEF r
<1> HIDE DEF b
<1>7. SubSeq(b, 1, 4) = MAGIC
  BY <1>5, MagicRead DEF Readable
<1>8. /\ (b[5] * 256) + b[6] = VERSION /\ (b[7] * 256) + b[8] = w
      /\ (b[9] * 256) + b[10] = h /\ (b[11] * 256) + b[12] = rate
      /\ b[13] = codec /\ b[14] = sound /\ (b[15] * 256) + b[16] = hertz
      /\ b[17] = channels /\ (b[18] * 256) + b[19] = skip
  BY <1>5 DEF Readable, Both, At, Two
<1>9. readStreamHeader(b, version) =
        IF VERSION # version THEN None
        ELSE [width |-> w, height |-> h, framerate |-> rate, codec |-> codec,
              audio |-> <<sound, hertz, channels, skip>>]
  BY <1>2, <1>3, <1>4, <1>7, <1>8, SMT DEF readStreamHeader
<1> QED
  BY <1>1, <1>2, <1>4, <1>6, <1>9

-----------------------------------------------------------------------------
(* The resolution for a panel.                                             *)

\* align2 takes off one pixel at most.
LEMMA EvenBelow ==
  ASSUME NEW n \in Nat, n >= 2
  PROVE  /\ align2(n) \in Nat /\ align2(n) >= 2 /\ align2(n) % 2 = 0
         /\ (align2(n) = n \/ align2(n) = n - 1)
  BY SMT DEF align2

LEMMA ProductMonotone ==
  ASSUME NEW m \in Nat, NEW n \in Nat, NEW p \in Nat, m <= n
  PROVE  m * p <= n * p
  BY SMT

LEMMA FactorCancelled ==
  ASSUME NEW m \in Nat, NEW n \in Nat, NEW p \in Nat \ {0}, m * p <= n * p
  PROVE  m <= n
  BY SMT

LEMMA OneLess ==
  ASSUME NEW n \in Nat, NEW p \in Nat
  PROVE  (n - 1) * p = (n * p) - p
  BY SMT

\* The sizes of a picture.
Sides == Side \X Side

\* A width w is kept, and the height that goes with it rounded down: the picture
\* of w by h has the ratio of the panel of p by q to within two pixels.
LEMMA HeightFollows ==
  ASSUME NEW p \in Nat \ {0}, NEW q \in Nat, q >= 2, q <= p, NEW w \in Nat, w <= p,
         NEW h, h = (w * q) \div p
  PROVE  /\ h \in Nat /\ h <= q /\ h <= w
         /\ h * p <= w * q /\ (w * q) - (h * p) < p
<1>1. w * q \in Nat /\ p * q \in Nat
  BY SMT
<1>2. h \in Nat /\ h * p <= w * q /\ w * q < (h * p) + p
  BY <1>1, Quotient
<1>3. h * p \in Nat
  BY <1>2, SMT
<1>4. w * q <= p * q
  BY ProductMonotone
<1>5. h * p <= q * p
  BY <1>1, <1>2, <1>3, <1>4, SMT
<1>6. h <= q
  BY <1>2, <1>5, FactorCancelled
<1>7. h <= w
  <2>1. q * w <= p * w
    BY ProductMonotone
  <2>2. h * p <= w * p
    BY <1>1, <1>2, <1>3, <2>1, SMT
  <2> QED
    BY <1>2, <2>2, FactorCancelled
<1> QED
  BY <1>1, <1>2, <1>3, <1>6, <1>7, SMT

\* The picture of r for a panel of s: even, within the panel and the cap, and of
\* the panel's ratio.
Fitting(r, s, max) ==
  /\ r[1] % 2 = 0 /\ r[2] % 2 = 0
  /\ r[1] \in 2..Least(max, s[1]) /\ r[2] \in 2..s[2]
  /\ r[2] * s[1] - r[1] * s[2] \in (-2 * s[1])..(2 * s[1])

NumbersFitting(x, y, p, q, max) ==
  /\ 2 <= x /\ x <= Least(max, p) /\ x % 2 = 0 /\ x <= p
  /\ 2 <= y /\ y <= q /\ y % 2 = 0 /\ y <= Least(max, p)
  /\ (y * p) - (x * q) \in (-2 * p)..(2 * p)

\* stream_resolution, number by number.
LEMMA NumbersFit ==
  ASSUME NEW p \in Nat, NEW q \in Nat, 2 <= q, q <= p, NEW max \in Nat, max >= 2
  PROVE  \E x, y \in Nat :
           stream_resolution(<<p, q>>, max) = <<x, y>> /\ NumbersFitting(x, y, p, q, max)
<1>1. p \in Nat \ {0}
  BY SMT
<1>2. PICK w : w = Most(Least(p, max), 2)
  OBVIOUS
<1>3. w \in Nat /\ 2 <= w /\ w <= p /\ w = Least(max, p)
  BY <1>2, SMT DEF Least, Most
<1>4. PICK h : h = (w * q) \div p
  OBVIOUS
<1>5. /\ h \in Nat /\ h <= q /\ h <= w /\ h * p <= w * q /\ (w * q) - (h * p) < p
  BY <1>1, <1>3, <1>4, HeightFollows, Zenon
<1>6. PICK g : g = Most(h, 2)
  OBVIOUS
<1>7. g \in Nat /\ 2 <= g /\ g <= q /\ g <= w /\ (g = h \/ (g = 2 /\ h <= 1))
  BY <1>3, <1>5, <1>6, SMT DEF Most
<1>8. PICK x, y : x = align2(w) /\ y = align2(g)
  OBVIOUS
<1>9. /\ x \in Nat /\ 2 <= x /\ x % 2 = 0 /\ (x = w \/ x = w - 1)
      /\ y \in Nat /\ 2 <= y /\ y % 2 = 0 /\ (y = g \/ y = g - 1)
  BY <1>3, <1>7, <1>8, EvenBelow
<1>10. w * q \in Nat /\ h * p \in Nat /\ g * p \in Nat /\ x * q \in Nat /\ y * p \in Nat
  BY <1>3, <1>5, <1>7, <1>9, SMT
<1>11. (x * q = w * q) \/ (x * q = (w * q) - q)
  BY <1>3, <1>9, OneLess
<1>12. (y * p = g * p) \/ (y * p = (g * p) - p)
  BY <1>7, <1>9, OneLess
<1>13. (g * p = h * p) \/ (g * p = 2 * p /\ h * p <= p)
  <2>1. h <= 1 => h * p <= 1 * p
    BY <1>5, ProductMonotone
  <2> QED
    BY <1>5, <1>7, <2>1, SMT
<1>14. (y * p) - (x * q) \in (-2 * p)..(2 * p)
  BY <1>5, <1>10, <1>11, <1>12, <1>13, SMT
<1>15. x <= Least(max, p) /\ x <= p /\ y <= q /\ y <= Least(max, p)
  BY <1>3, <1>7, <1>9, SMT
<1>16. stream_resolution(<<p, q>>, max) = <<x, y>>
  BY <1>2, <1>4, <1>6, <1>8, Zenon DEF stream_resolution
<1> QED
  BY <1>9, <1>14, <1>15, <1>16 DEF NumbersFitting

LEMMA SideNumber ==
  ASSUME NEW p \in Side
  PROVE  p \in Nat /\ 2 <= p
  BY SMT DEF Side, U16

LEMMA SideBelow ==
  ASSUME NEW p \in Side, NEW x \in Nat, 2 <= x, x <= p
  PROVE  x \in Side
  BY SMT DEF Side, U16

\* stream_resolution, for the panel of a tablet.
LEMMA Fits ==
  ASSUME NEW s \in Sides, s[2] <= s[1], NEW max \in Nat, max >= 2
  PROVE  /\ stream_resolution(s, max) \in Sides /\ Fitting(stream_resolution(s, max), s, max)
         /\ stream_resolution(s, max)[2] <= Least(max, s[1])
<1>1. PICK p \in Side, q \in Side : s = <<p, q>>
  BY DEF Sides
<1>2. q <= p
  BY <1>1
<1>3. p \in Nat /\ q \in Nat /\ 2 <= q
  BY SideNumber
<1>4. PICK x, y \in Nat :
        stream_resolution(<<p, q>>, max) = <<x, y>> /\ NumbersFitting(x, y, p, q, max)
  BY <1>2, <1>3, NumbersFit, Zenon
<1>5. x \in Side /\ y \in Side
  BY <1>4, SideBelow, Zenon DEF NumbersFitting
<1>6. Least(max, p) \in Nat
  BY <1>3, SMT DEF Least
<1>7. Fitting(<<x, y>>, <<p, q>>, max)
  BY <1>3, <1>4, <1>6, SMT DEF Fitting, NumbersFitting
<1>8. <<x, y>> \in Sides
  BY <1>5 DEF Sides
<1>9. y <= Least(max, p)
  BY <1>4 DEF NumbersFitting
<1>10. <<x, y>>[2] = y /\ <<p, q>>[1] = p
  OBVIOUS
<1> QED
  BY <1>1, <1>4, <1>7, <1>8, <1>9, <1>10, Zenon

-----------------------------------------------------------------------------
(* The steps of a session.                                                 *)

Stages == {"start", "refused", "panel", "asked", "edid", "sized", "sent", "streaming"}

\* A panel is one of the tablet's on its long side; what is asked for was chosen
\* for it.
PanelInv ==
  /\ stage = "start" => panel = None /\ asked = None
  /\ stage = "panel" =>
       asked = None /\ panel \in Sides /\ panel[2] <= panel[1] /\ cap \in MaxWidths
  /\ panel # None /\ asked # None => Fitting(asked, panel, cap)

\* Every size on the way fits the header, and the header is that of the frames.
HeaderInv ==
  /\ fps \in 1..144
  /\ stage \in {"asked", "edid", "sized", "sent", "streaming"} => asked \in Sides
  /\ stage \in {"sized", "sent", "streaming"} => size \in Sides
  /\ stage = "sent" => audio \in Audio /\ wire = encode(stream_header(size, fps, audio))

FormatInv == stage \in Stages /\ PanelInv /\ HeaderInv /\ TabletAgrees

LEMMA FormatInit == ASSUME Init PROVE FormatInv
<1>1. stage = "start" /\ fps \in Rates /\ panel = None /\ asked = None
  BY DEF Init
<1>2. fps \in 1..144
  BY <1>1, FormatAssumption
<1> QED
  BY <1>1, <1>2 DEF FormatInv, PanelInv, HeaderInv, TabletAgrees, Stages

\* display_size turns the panel on its long side.
LEMMA OnLongSide ==
  ASSUME NEW s \in Sides
  PROVE  Landscape(s) \in Sides /\ Landscape(s)[2] <= Landscape(s)[1]
<1>1. PICK p \in Side, q \in Side : s = <<p, q>>
  BY DEF Sides
<1>2. p \in Nat /\ q \in Nat
  BY <1>1, SideNumber
<1>3. CASE p >= q
  BY <1>1, <1>2, <1>3, SMT DEF Landscape, Sides
<1>4. CASE ~(p >= q)
  BY <1>1, <1>2, <1>4, SMT DEF Landscape, Sides
<1> QED
  BY <1>3, <1>4

\* One lemma for each step, or for the steps that disturb the same parts.
LEMMA FormatDisplaySize == ASSUME FormatInv, DisplaySize PROVE FormatInv'
<1>1. PICK physical \in Panels, override \in Panels \cup {None}, max \in MaxWidths :
        LET s == IF override = None THEN physical ELSE override IN
          /\ IF s[1] = 0 \/ s[2] = 0
             THEN Moves("start", "refused") /\ UNCHANGED panel
             ELSE Moves("start", "panel") /\ panel' = Landscape(s)
          /\ cap' = max
          /\ UNCHANGED <<fps, asked, edid, size, audio, wire, header>>
  BY DEF DisplaySize
<1>2. PICK s \in Panels : s = IF override = None THEN physical ELSE override
  OBVIOUS
<1>3. CASE s[1] = 0 \/ s[2] = 0
  BY <1>1, <1>2, <1>3 DEF Moves, FormatInv, PanelInv, HeaderInv, TabletAgrees, Stages
<1>4. CASE s[1] # 0 /\ s[2] # 0
  <2>1. s \in Sides
    BY <1>4, SizesAssumption, SMT DEF Sides
  <2>2. panel' \in Sides /\ panel'[2] <= panel'[1]
    BY <1>1, <1>2, <1>4, <2>1, OnLongSide
  <2> QED
    BY <1>1, <1>2, <1>4, <2>2 DEF Moves, FormatInv, PanelInv, HeaderInv, TabletAgrees, Stages
<1> QED
  BY <1>3, <1>4

LEMMA FormatScale == ASSUME FormatInv, Scale PROVE FormatInv'
<1>1. panel \in Sides /\ panel[2] <= panel[1] /\ cap \in MaxWidths /\ stage = "panel"
  BY DEF FormatInv, PanelInv, Scale, Moves
<1>2. cap \in Nat /\ cap >= 2
  BY <1>1, FormatAssumption, SizesAssumption
<1>3. asked' = stream_resolution(panel, cap) /\ stage' = "asked"
      /\ UNCHANGED <<panel, cap, fps, edid, size, audio, wire, header>>
  BY DEF Scale, Moves
<1>4. asked' \in Sides /\ Fitting(asked', panel', cap')
  BY <1>1, <1>2, <1>3, Fits
<1> QED
  BY <1>1, <1>3, <1>4 DEF FormatInv, PanelInv, HeaderInv, TabletAgrees, Stages

LEMMA StreamedSizes == ASSUME NEW s \in Resolutions \cup Existing PROVE s \in Sides
<1>1. s \in U12 \X U12
  BY FormatAssumption
<1>2. \A p \in U12 : p \in Side
  BY DEF U12
<1> QED
  BY <1>1, <1>2 DEF Sides

LEMMA FormatSized ==
  ASSUME FormatInv, Explicit \/ ConnectEvdi \/ PositionEvdi \/ HeadlessOutput
  PROVE  FormatInv'
<1> USE DEF Moves, FormatInv, PanelInv, HeaderInv, TabletAgrees, Stages
<1>1. CASE Explicit
  BY <1>1, StreamedSizes DEF Explicit
<1>2. CASE ConnectEvdi
  BY <1>2 DEF ConnectEvdi
<1>3. CASE PositionEvdi
  BY <1>3 DEF PositionEvdi
<1>4. CASE HeadlessOutput
  BY <1>4, StreamedSizes DEF HeadlessOutput
<1> QED
  BY <1>1, <1>2, <1>3, <1>4

LEMMA FormatSendHeader == ASSUME FormatInv, SendHeader PROVE FormatInv'
  BY DEF SendHeader, Moves, FormatInv, PanelInv, HeaderInv, TabletAgrees, Stages

LEMMA FormatReadHeader == ASSUME FormatInv, ReadHeader PROVE FormatInv'
<1>1. stage = "sent" /\ size \in Sides /\ audio \in Audio /\ fps \in 1..144
      /\ wire = encode(stream_header(size, fps, audio))
  BY DEF FormatInv, HeaderInv, ReadHeader
<1>2. size \in U16 \X U16 /\ fps \in U16
  <2>1. \A p \in Side : p \in U16
    BY DEF Side
  <2>2. fps \in U16
    BY <1>1, SMT DEF U16
  <2> QED
    BY <1>1, <2>1, <2>2 DEF Sides
<1>3. audio \in (0..1) \X U16 \X (0..255) \X U16
  BY <1>1, FormatAssumption
<1>4. PICK version \in AppVersions : header' = readStreamHeader(wire, version)
  BY DEF ReadHeader
<1>5. header' = IF version = VERSION
                THEN [width |-> size[1], height |-> size[2], framerate |-> fps,
                      codec |-> 0, audio |-> audio]
                ELSE None
  BY <1>1, <1>2, <1>3, <1>4, HeaderRead
<1>6. UNCHANGED <<panel, cap, fps, asked, edid, size, audio, wire>>
      /\ stage' = IF header' = None THEN "refused" ELSE "streaming"
  BY DEF ReadHeader
<1> QED
  BY <1>1, <1>5, <1>6 DEF FormatInv, PanelInv, HeaderInv, TabletAgrees, Stages

LEMMA FormatStep == ASSUME FormatInv, [Next]_vars PROVE FormatInv'
<1>1. CASE Next
  BY <1>1, FormatDisplaySize, FormatScale, FormatSized, FormatSendHeader, FormatReadHeader
     DEF Next
<1>2. CASE UNCHANGED vars
  BY <1>2 DEF vars, FormatInv, PanelInv, HeaderInv, TabletAgrees, Stages
<1> QED
  BY <1>1, <1>2

LEMMA FormatAlways == Spec => []FormatInv
<1>1. Init => FormatInv
  BY FormatInit
<1>2. FormatInv /\ [Next]_vars => FormatInv'
  BY FormatStep
<1> QED
  BY <1>1, <1>2, PTL DEF Spec

\* For every panel, cap, rate and output: a resolution chosen for a panel is even,
\* within the panel and the cap and of the panel's ratio to within two pixels
\* (stream_resolution of adb.rs).
THEOREM PicturesFit == Spec => []PictureFits
<1>1. FormatInv => PictureFits
  BY DEF FormatInv, PanelInv, PictureFits, Fitting
<1> QED
  BY <1>1, FormatAlways, PTL

\* For every size, rate, sound and version of the app: a tablet that accepts the
\* stream header has read from its bytes what the frames measure and what the
\* host says of its sound (protocol/src/lib.rs, Protocol.kt).
THEOREM HeadersAgree == Spec => []TabletAgrees
<1>1. FormatInv => TabletAgrees
  BY DEF FormatInv
<1> QED
  BY <1>1, FormatAlways, PTL
-----------------------------------------------------------------------------
(* The EDID.                                                               *)

Byte == {n \in Nat : n < 256}
Bytes(s, n) == s \in Seq(Byte) /\ Len(s) = n

\* The bytes of t begin behind the first n of s.
Follows(s, n, t, m) == \A k \in 1..m : s[n + k] = t[k]

LEMMA LowByte ==
  ASSUME NEW n \in Nat
  PROVE  Low(n) \in Byte /\ High(n, 256) \in Byte
<1>1. n % 256 \in Nat /\ n % 256 < 256
  BY SMT
<1>2. (n \div 256) % 256 \in Nat /\ (n \div 256) % 256 < 256
  BY SMT
<1> QED
  BY <1>1, <1>2 DEF Low, High, Byte

\* Two upper parts of four bits make a byte.
LEMMA TwoUppers ==
  ASSUME NEW a \in Nat, NEW b \in Nat
  PROVE  16 * High(a, 16) + High(b, 16) \in Byte
<1>1. PICK x, y : x = (a \div 256) % 16 /\ y = (b \div 256) % 16
  OBVIOUS
<1>2. x \in Nat /\ x <= 15 /\ y \in Nat /\ y <= 15
  BY <1>1, SMT
<1>3. 16 * x + y \in Nat /\ 16 * x + y < 256
  BY <1>2, SMT
<1> QED
  BY <1>1, <1>3 DEF High, Byte

\* Numbers of 12 bits are read from their low bytes and the byte of their uppers.
LEMMA TwelveBits ==
  ASSUME NEW a \in Nat, a < 4096, NEW b \in Nat, b < 4096
  PROVE  /\ Low(a) + 256 * ((16 * High(a, 16) + High(b, 16)) \div 16) = a
         /\ Low(b) + 256 * ((16 * High(a, 16) + High(b, 16)) % 16) = b
<1>1. PICK x, y : x = (a \div 256) % 16 /\ y = (b \div 256) % 16
  OBVIOUS
<1>2. x \in Nat /\ x <= 15 /\ (a % 256) + 256 * x = a
  BY <1>1, SMT
<1>3. y \in Nat /\ y <= 15 /\ (b % 256) + 256 * y = b
  BY <1>1, SMT
<1>4. (16 * x + y) \div 16 = x /\ (16 * x + y) % 16 = y
  BY <1>2, <1>3, SMT
<1> QED
  BY <1>1, <1>2, <1>3, <1>4, SMT DEF Low, High

LEMMA Joined ==
  ASSUME NEW m \in Nat, NEW n \in Nat, NEW s, NEW t, Bytes(s, m), Bytes(t, n)
  PROVE  Bytes(s \o t, m + n) /\ Keeps(s \o t, s, m) /\ Follows(s \o t, m, t, n)
  BY SMT DEF Bytes, Keeps, Follows

LEMMA Pad ==
  ASSUME NEW n \in Nat, NEW b \in Byte
  PROVE  Bytes([k \in 1..n |-> b], n)
  BY SMT DEF Bytes

\* The fixed bytes.
LEMMA PreambleBytes == Bytes(Preamble, 54)
<1>1. Bytes(<<0, 255, 255, 255, 255, 255, 255, 0, High(manufacturer_id, 256),
              Low(manufacturer_id), 1, 0>>, 12)
  <2>1. manufacturer_id \in Nat
    BY SMT DEF manufacturer_id
  <2>2. PICK x, y \in Byte : x = High(manufacturer_id, 256) /\ y = Low(manufacturer_id)
    BY <2>1, LowByte
  <2>3. Bytes(<<0, 255, 255, 255, 255, 255, 255, 0, x, y, 1, 0>>, 12)
    BY SMT DEF Bytes, Byte
  <2> QED
    BY <2>2, <2>3
<1>2. Bytes(<<1, 34, 1, 4, 165, 0, 0, 120, 2>>, 9)
  BY SMT DEF Bytes, Byte
<1>3. 0 \in Byte /\ 1 \in Byte
  BY SMT DEF Byte
<1>4. Bytes(Zeros(4), 4) /\ Bytes(Zeros(13), 13) /\ Bytes([k \in 1..16 |-> 1], 16)
  BY <1>3, Pad DEF Zeros
<1> DEFINE a == <<0, 255, 255, 255, 255, 255, 255, 0, High(manufacturer_id, 256),
                  Low(manufacturer_id), 1, 0>>
           b == <<1, 34, 1, 4, 165, 0, 0, 120, 2>>
           c == [k \in 1..16 |-> 1]
<1>5. Preamble = a \o Zeros(4) \o b \o Zeros(13) \o c
  BY DEF Preamble
<1>6. Bytes(a, 12) /\ Bytes(b, 9) /\ Bytes(c, 16)
  BY <1>1, <1>2, <1>4
<1> HIDE DEF a, b, c
<1>7. Bytes(a \o Zeros(4), 12 + 4)
  BY <1>4, <1>6, Joined
<1>8. Bytes(a \o Zeros(4) \o b, (12 + 4) + 9)
  BY <1>6, <1>7, Joined
<1>9. Bytes(a \o Zeros(4) \o b \o Zeros(13), ((12 + 4) + 9) + 13)
  BY <1>4, <1>8, Joined
<1>10. Bytes(a \o Zeros(4) \o b \o Zeros(13) \o c, (((12 + 4) + 9) + 13) + 16)
  BY <1>6, <1>9, Joined
<1>11. (((12 + 4) + 9) + 13) + 16 = 54
  BY SMT
<1> QED
  BY <1>5, <1>10, <1>11

LEMMA PostambleBytes == Bytes(Postamble, 55)
<1> DEFINE a == <<0, 0, 0, 252, 0, 80, 97, 100, 80, 108, 97, 121, 10>>
           b == [k \in 1..5 |-> 32]
           c == <<0, 0, 0, 16>>
           d == Zeros(14)
           e == <<0>>
<1>1. Bytes(a, 13) /\ Bytes(c, 4) /\ Bytes(e, 1)
  BY SMT DEF Bytes, Byte
<1>2. 0 \in Byte /\ 32 \in Byte
  BY SMT DEF Byte
<1>3. Bytes(b, 5) /\ Bytes(d, 14)
  BY <1>2, Pad DEF Zeros
<1>4. Postamble = a \o b \o c \o d \o c \o d \o e
  BY DEF Postamble
<1> HIDE DEF a, b, c, d, e
<1>5. Bytes(a \o b, 13 + 5)
  BY <1>1, <1>3, Joined
<1>6. Bytes(a \o b \o c, (13 + 5) + 4)
  BY <1>1, <1>5, Joined
<1>7. Bytes(a \o b \o c \o d, ((13 + 5) + 4) + 14)
  BY <1>3, <1>6, Joined
<1>8. Bytes(a \o b \o c \o d \o c, (((13 + 5) + 4) + 14) + 4)
  BY <1>1, <1>7, Joined
<1>9. Bytes(a \o b \o c \o d \o c \o d, ((((13 + 5) + 4) + 14) + 4) + 14)
  BY <1>3, <1>8, Joined
<1>10. Bytes(a \o b \o c \o d \o c \o d \o e, (((((13 + 5) + 4) + 14) + 4) + 14) + 1)
  BY <1>1, <1>9, Joined
<1>11. (((((13 + 5) + 4) + 14) + 4) + 14) + 1 = 55
  BY SMT
<1> QED
  BY <1>4, <1>10, <1>11

LEMMA EighteenBytes ==
  ASSUME NEW b0 \in Byte, NEW b1 \in Byte, NEW b2 \in Byte, NEW b3 \in Byte,
         NEW b4 \in Byte, NEW b5 \in Byte, NEW b6 \in Byte, NEW b7 \in Byte,
         NEW b8 \in Byte, NEW b9 \in Byte, NEW b10 \in Byte, NEW b11 \in Byte
  PROVE  Bytes(<<b0, b1, b2, b3, b4, b5, b6, b7, b8, b9, b10, b11, 0, 0, 0, 0, 0, 26>>, 18)
<1>1. 0 \in Byte /\ 26 \in Byte
  BY SMT DEF Byte
<1> QED
  BY <1>1, SMT DEF Bytes

\* What 12 and what 4 bits hold.
Bits12 == {n \in Nat : n < 4096}
Nibble == {n \in Nat : n < 16}

HBlank == 160

\* What a timing must be to be told in a descriptor, with reduced blanking.
Timing(t, w, h, vblank, vsync) ==
  /\ t.clock_khz \in Nat
  /\ t.hactive = w /\ t.htotal - t.hactive = 160
  /\ t.vactive = h /\ t.vtotal - t.vactive = vblank
  /\ t.hfront = 48 /\ t.hsync = 32 /\ t.vfront = 3 /\ t.vsync = vsync

\* The descriptor says these numbers.
Says(d, w, h, vblank, vsync) ==
  /\ d[3] + 256 * (d[5] \div 16) = w /\ d[4] + 256 * (d[5] % 16) = 160
  /\ d[6] + 256 * (d[8] \div 16) = h /\ d[7] + 256 * (d[8] % 16) = vblank
  /\ d[9] + 256 * (d[12] \div 64) = 48 /\ d[10] + 256 * ((d[12] \div 16) % 4) = 32
  /\ (d[11] \div 16) + 16 * ((d[12] \div 4) % 4) = 3
  /\ (d[11] % 16) + 16 * (d[12] % 4) = vsync

\* The vertical sync and its front porch fill a byte, and leave their upper bits.
LEMMA Syncs ==
  ASSUME NEW vsync \in Nibble
  PROVE  /\ 16 * (3 % 16) + (vsync % 16) = 48 + vsync
         /\ 64 * 0 + 16 * 0 + 4 * ((3 \div 16) % 4) + ((vsync \div 16) % 4) = 0
<1>1. vsync \in Nat /\ vsync <= 15
  BY SMT DEF Nibble
<1>2. 3 % 16 = 3 /\ vsync % 16 = vsync /\ 3 \div 16 = 0 /\ vsync \div 16 = 0 /\ 0 % 4 = 0
  BY <1>1, SMT
<1>3. 16 * (3 % 16) = 48 /\ (3 \div 16) % 4 = 0 /\ (vsync \div 16) % 4 = 0
  BY <1>2, SMT
<1> QED
  BY <1>1, <1>2, <1>3, SMT

LEMMA SyncsByte ==
  ASSUME NEW vsync \in Nibble
  PROVE  /\ 48 + vsync \in Byte
         /\ (48 + vsync) \div 16 = 3 /\ (48 + vsync) % 16 = vsync
<1>1. vsync \in Nat /\ vsync <= 15
  BY SMT DEF Nibble
<1> QED
  BY <1>1, SMT DEF Byte

LEMMA FrontBytes ==
  /\ Low(48) = 48 /\ Low(32) = 32 /\ High(48, 4) = 0 /\ High(32, 4) = 0
  /\ 48 \in Byte /\ 32 \in Byte /\ 0 \in Byte
  BY SMT DEF Low, High, Byte

LEMMA BitsNumber ==
  ASSUME NEW n \in Bits12
  PROVE  n \in Nat /\ n < 4096
  BY SMT DEF Bits12

LEMMA BlankingNumber == HBlank \in Bits12
  BY SMT DEF Bits12, HBlank

\* The descriptor, byte by byte.
Bytes18(clock, w, b, h, v, vsync) ==
  <<Low(clock), High(clock, 256), Low(w), Low(b), 16 * High(w, 16) + High(b, 16),
    Low(h), Low(v), 16 * High(h, 16) + High(v, 16), Low(48), Low(32),
    16 * (3 % 16) + (vsync % 16),
    64 * High(48, 4) + 16 * High(32, 4) + 4 * ((3 \div 16) % 4) + ((vsync \div 16) % 4),
    0, 0, 0, 0, 0, 26>>

LEMMA DescriptorBytes ==
  ASSUME NEW w, NEW h, NEW v, NEW vsync, NEW t, Timing(t, w, h, v, vsync), NEW b, b = HBlank
  PROVE  detailed_timing_descriptor(t) = Bytes18(t.clock_khz \div 10, w, b, h, v, vsync)
  BY SMT DEF Timing, HBlank, detailed_timing_descriptor, Bytes18

LEMMA ClockNumber ==
  ASSUME NEW w, NEW h, NEW v, NEW vsync, NEW t, Timing(t, w, h, v, vsync)
  PROVE  t.clock_khz \div 10 \in Nat
  BY SMT DEF Timing

LEMMA DescriptorSays ==
  ASSUME NEW w \in Bits12, NEW h \in Bits12, NEW v \in Bits12, NEW b \in Bits12, b = HBlank,
         NEW vsync \in Nibble, NEW clock \in Nat
  PROVE  /\ Bytes(Bytes18(clock, w, b, h, v, vsync), 18)
         /\ Says(Bytes18(clock, w, b, h, v, vsync), w, h, v, vsync)
<1>1. PICK b2, b3, b4 : b2 = Low(w) /\ b3 = Low(b) /\ b4 = 16 * High(w, 16) + High(b, 16)
  OBVIOUS
<1>2. PICK b5, b6, b7 : b5 = Low(h) /\ b6 = Low(v) /\ b7 = 16 * High(h, 16) + High(v, 16)
  OBVIOUS
<1>3. PICK b0, b1 : b0 = Low(clock) /\ b1 = High(clock, 256)
  OBVIOUS
<1>4. PICK b8, b9, b10, b11 : b8 = 48 /\ b9 = 32 /\ b10 = 48 + vsync /\ b11 = 0
  OBVIOUS
<1>5. /\ w \in Nat /\ h \in Nat /\ v \in Nat /\ b \in Nat
      /\ w < 4096 /\ h < 4096 /\ v < 4096 /\ b < 4096
  BY BitsNumber, SMT
<1>6. /\ b0 \in Byte /\ b1 \in Byte /\ b2 \in Byte /\ b3 \in Byte /\ b4 \in Byte
      /\ b5 \in Byte /\ b6 \in Byte /\ b7 \in Byte
  BY <1>1, <1>2, <1>3, <1>5, LowByte, TwoUppers, SMT
<1>7. b8 \in Byte /\ b9 \in Byte /\ b10 \in Byte /\ b11 \in Byte
  BY <1>4, FrontBytes, SyncsByte, SMT
<1>8. b2 + 256 * (b4 \div 16) = w /\ b3 + 256 * (b4 % 16) = b
  BY <1>1, <1>5, TwelveBits, SMT
<1>9. b5 + 256 * (b7 \div 16) = h /\ b6 + 256 * (b7 % 16) = v
  BY <1>2, <1>5, TwelveBits, SMT
<1>10. b10 \div 16 = 3 /\ b10 % 16 = vsync
  BY <1>4, SyncsByte, SMT
<1> DEFINE d == <<b0, b1, b2, b3, b4, b5, b6, b7, b8, b9, b10, b11, 0, 0, 0, 0, 0, 26>>
<1>11. Bytes(d, 18)
  BY <1>6, <1>7, EighteenBytes, Zenon
<1>12. Bytes18(clock, w, b, h, v, vsync) = d
  <2>1. b10 = 16 * (3 % 16) + (vsync % 16)
    BY <1>4, Syncs, SMT
  <2>2. b11 = 64 * High(48, 4) + 16 * High(32, 4) + 4 * ((3 \div 16) % 4)
                + ((vsync \div 16) % 4)
    BY <1>4, Syncs, FrontBytes, SMT
  <2>3. b8 = Low(48) /\ b9 = Low(32)
    BY <1>4, FrontBytes, SMT
  <2> QED
    BY <1>1, <1>2, <1>3, <2>1, <2>2, <2>3, SMT DEF Bytes18
<1>13. /\ d[3] = b2 /\ d[4] = b3 /\ d[5] = b4 /\ d[6] = b5 /\ d[7] = b6 /\ d[8] = b7
       /\ d[9] = b8 /\ d[10] = b9 /\ d[11] = b10 /\ d[12] = b11
  BY SMT
<1> HIDE DEF d
<1>14. vsync \in Nat
  BY SMT DEF Nibble
<1>15. /\ d[9] + 256 * (d[12] \div 64) = 48 /\ d[10] + 256 * ((d[12] \div 16) % 4) = 32
       /\ (d[11] \div 16) + 16 * ((d[12] \div 4) % 4) = 3
       /\ (d[11] % 16) + 16 * (d[12] % 4) = vsync
  BY <1>4, <1>10, <1>13, <1>14, SMT
<1>16. Says(d, w, h, v, vsync)
  BY <1>8, <1>9, <1>13, <1>15, SMT DEF Says, HBlank
<1> QED
  BY <1>11, <1>12, <1>16, SMT

Hertz == {n \in Nat : 1 <= n /\ n <= 144}

\* What a line lasts in reduced_blanking.
LineTime(h, rate) == (1000000000 - 460000 * rate) \div (h * rate)

\* reduced_blanking: few lines of blanking, as a line of a picture of at most 4095
\* lines at 144 Hz lasts more than 112 ns.
LEMMA LinesFew ==
  ASSUME NEW w \in Nat, NEW h \in U12, NEW rate \in Hertz,
         NEW hperiod, hperiod = LineTime(h, rate)
  PROVE  /\ hperiod \in Nat \ {0}
         /\ Vsync(w, h) \in Nibble /\ Lines(w, h, hperiod) \in Bits12
         /\ 3 + Vsync(w, h) + 6 <= Lines(w, h, hperiod)
<1>0. h \in Nat /\ 2 <= h /\ h < 4096 /\ rate \in Nat /\ 1 <= rate /\ rate <= 144
  BY SMT DEF U12, Side, U16, Hertz
<1>1. PICK n \in Nat, d \in Nat : n = 1000000000 - 460000 * rate /\ d = h * rate
  BY <1>0, SMT
<1>2. n >= 900000000
  BY <1>0, <1>1, SMT
<1>3. d <= 589680 /\ d >= 1
  <2>1. h * rate <= 4095 * rate
    BY <1>0, ProductMonotone, SMT
  <2>2. 2 * rate <= h * rate
    BY <1>0, ProductMonotone, SMT
  <2> QED
    BY <1>0, <1>1, <2>1, <2>2, SMT
<1>4. hperiod \in Nat /\ hperiod * d <= n /\ n < (hperiod * d) + d
  <2>1. hperiod = n \div d
    BY <1>0, <1>1, SMT DEF LineTime
  <2>2. d \in Nat \ {0}
    BY <1>3, SMT
  <2> QED
    BY <2>1, <2>2, Quotient, Zenon
<1>5. hperiod >= 113
  <2>1. SUFFICES ASSUME hperiod <= 112 PROVE FALSE
    BY <1>4, SMT
  <2>2. hperiod * d <= 112 * d
    BY <1>4, <2>1, ProductMonotone, SMT
  <2> QED
    BY <1>2, <1>3, <1>4, <2>2, SMT
<1>5a. PICK us \in Nat : us = 460000
  BY SMT
<1>6. PICK q : q = us \div hperiod
  OBVIOUS
<1>7. q \in Nat /\ q * hperiod <= us
  <2>1. hperiod \in Nat \ {0}
    BY <1>4, <1>5, SMT
  <2> QED
    BY <1>6, <2>1, Quotient, Zenon
<1>8. q < 4095
  <2>1. SUFFICES ASSUME q >= 4095 PROVE FALSE
    BY <1>7, SMT
  <2>2. 4095 * hperiod <= q * hperiod
    BY <1>4, <1>7, <2>1, ProductMonotone, SMT
  <2> QED
    BY <1>4, <1>5, <1>5a, <1>7, <2>2, SMT
<1>9. Vsync(w, h) \in Nat /\ Vsync(w, h) < 16
  BY SMT DEF Vsync
<1>10. PICK s : s = Vsync(w, h)
  OBVIOUS
<1>11. Lines(w, h, hperiod) = Most(q + 1, 3 + s + 6)
  BY <1>5a, <1>6, <1>10, SMT DEF Lines
<1>12. /\ Most(q + 1, 3 + s + 6) \in Nat /\ Most(q + 1, 3 + s + 6) < 4096
       /\ 3 + s + 6 <= Most(q + 1, 3 + s + 6)
  BY <1>7, <1>8, <1>9, <1>10, SMT DEF Most
<1> QED
  BY <1>4, <1>5, <1>9, <1>10, <1>11, <1>12, SMT DEF Nibble, Bits12

LEMMA MulDivTyped ==
  ASSUME NEW a \in Nat, NEW b \in Nat, NEW c \in Nat \ {0}
  PROVE  MulDiv(a, b, c) \in Nat
<1>1. b \div c \in Nat /\ b % c \in Nat
  BY SMT
<1>2. a * (b \div c) \in Nat /\ a * (b % c) \in Nat
  BY <1>1, SMT
<1>3. (a * (b % c)) \div c \in Nat
  BY <1>2, Quotient
<1> QED
  BY <1>2, <1>3, SMT DEF MulDiv

\* reduced_blanking makes a timing whose numbers fit their fields: the multiple of
\* eight next below the width, and lines of blanking that hold the sync and its porches.
Blanked(t, w, h, x, v, vsync) ==
  /\ x % 8 = 0 /\ w - x \in 0..7 /\ 3 + vsync + 6 <= v /\ Timing(t, x, h, v, vsync)

LEMMA WidthRounded ==
  ASSUME NEW w \in U12
  PROVE  /\ w \in Nat /\ w - (w % 8) \in Bits12 /\ (w - (w % 8)) % 8 = 0
         /\ w - (w - (w % 8)) \in 0..7
<1>1. w \in Nat /\ w < 4096
  BY SMT DEF U12, Side, U16
<1>2. w % 8 \in 0..7 /\ w % 8 <= w
  BY <1>1, SMT
<1> QED
  BY <1>1, <1>2, SMT DEF Bits12

LEMMA TimingMade ==
  ASSUME NEW w \in U12, NEW h \in U12, NEW rate \in Hertz
  PROVE  \E x, v \in Bits12, vsync \in Nibble :
           Blanked(reduced_blanking(w, h, rate), w, h, x, v, vsync)
<1>1. PICK hperiod : hperiod = LineTime(h, rate)
  OBVIOUS
<1>2. PICK x : x = w - (w % 8)
  OBVIOUS
<1>3. w \in Nat /\ x \in Bits12 /\ x % 8 = 0 /\ w - x \in 0..7
  BY <1>2, WidthRounded
<1>4. PICK vsync, v : vsync = Vsync(w, h) /\ v = Lines(w, h, hperiod)
  OBVIOUS
<1>5. hperiod \in Nat \ {0} /\ vsync \in Nibble /\ v \in Bits12 /\ 3 + vsync + 6 <= v
  BY <1>1, <1>3, <1>4, LinesFew, Zenon
<1>6. PICK million \in Nat : million = 1000000
  BY SMT
<1>7. PICK clock : clock = MulDiv(x + 160, million, hperiod)
  OBVIOUS
<1>8. clock \in Nat
  <2>1. x + 160 \in Nat
    BY <1>3, SMT DEF Bits12
  <2> QED
    BY <1>5, <1>7, <2>1, MulDivTyped, Zenon
<1>9. PICK r : r = reduced_blanking(w, h, rate)
  OBVIOUS
<1>10. r = [hactive |-> x, vactive |-> h, htotal |-> x + 160, vtotal |-> h + v,
            hfront |-> 48, hsync |-> 32, vfront |-> 3, vsync |-> vsync,
            clock_khz |-> clock]
  BY <1>1, <1>2, <1>4, <1>6, <1>7, <1>9, SMT DEF reduced_blanking, LineTime
<1>11. /\ r.clock_khz = clock /\ r.hactive = x /\ r.htotal = x + 160 /\ r.vactive = h
       /\ r.vtotal = h + v /\ r.hfront = 48 /\ r.hsync = 32 /\ r.vfront = 3
       /\ r.vsync = vsync
  BY <1>10
<1>12. (x + 160) - x = 160 /\ (h + v) - h = v
  BY <1>3, <1>5, SMT DEF Bits12, U12, Side, U16
<1>13. Timing(r, x, h, v, vsync)
  BY <1>8, <1>11, <1>12 DEF Timing
<1> QED
  BY <1>3, <1>5, <1>9, <1>13, Zenon DEF Blanked

LEMMA HeightNumber == ASSUME NEW h \in U12 PROVE h \in Bits12
  BY SMT DEF Bits12, U12, Side, U16

LEMMA FrequencyNumber == ASSUME NEW rate \in 1..144 PROVE rate \in Hertz
  BY SMT DEF Hertz

-----------------------------------------------------------------------------
(* What a compositor reads.                                                *)

\* The body's bytes: the descriptor's begin behind the first 54.
LEMMA BodyBytes ==
  ASSUME NEW d, Bytes(d, 18)
  PROVE  /\ Bytes(Preamble \o d \o Postamble, 127)
         /\ Follows(Preamble \o d \o Postamble, 54, d, 18)
<1>1. 54 \in Nat /\ 18 \in Nat /\ 55 \in Nat /\ 72 \in Nat /\ 54 + 18 = 72 /\ 72 + 55 = 127
  BY SMT
<1>2. Bytes(Preamble \o d, 72) /\ Follows(Preamble \o d, 54, d, 18)
  BY <1>1, PreambleBytes, Joined
<1>3. /\ Bytes(Preamble \o d \o Postamble, 127)
      /\ Keeps(Preamble \o d \o Postamble, Preamble \o d, 72)
  BY <1>1, <1>2, PostambleBytes, Joined
<1> DEFINE s == Preamble \o d
           t == Preamble \o d \o Postamble
<1> HIDE DEF s, t
<1>4. Follows(s, 54, d, 18) /\ Keeps(t, s, 72)
  BY <1>2, <1>3 DEF s, t
<1>5. Follows(t, 54, d, 18)
  BY <1>4, SMT DEF Follows, Keeps
<1> QED
  BY <1>3, <1>5 DEF t

LEMMA OneMore ==
  ASSUME NEW S, NEW s \in Seq(S), NEW c \in S
  PROVE  /\ Len(Append(s, c)) = Len(s) + 1
         /\ \A k \in 1..Len(s) : Append(s, c)[k] = s[k]
  BY SMT

LEMMA Appended ==
  ASSUME NEW n \in Nat, NEW s, Bytes(s, n), NEW c
  PROVE  Len(Append(s, c)) = n + 1 /\ Keeps(Append(s, c), s, n)
<1>1. PICK S : S = Byte \cup {c}
  OBVIOUS
<1>2. s \in Seq(S) /\ c \in S
  BY <1>1, SMT DEF Bytes
<1>3. Len(s) = n
  BY DEF Bytes
<1> QED
  BY <1>2, <1>3, OneMore, Zenon DEF Keeps

LEMMA KeptByte ==
  ASSUME NEW e, NEW s, NEW n \in Nat, Bytes(s, n), Keeps(e, s, n), NEW k \in 1..n
  PROVE  e[k] \in 0..255
<1>1. s[k] \in Byte /\ e[k] = s[k]
  BY SMT DEF Bytes, Keeps
<1> QED
  BY <1>1, SMT DEF Byte

\* The mode with reduced blanking.
Reduced(m, w, h, vblank, vsync) ==
  /\ m.hactive = w /\ m.hblank = 160 /\ m.vactive = h /\ m.vblank = vblank
  /\ m.hfront = 48 /\ m.hsync = 32 /\ m.vfront = 3 /\ m.vsync = vsync

\* The EDID of a picture.
EdidOf(e, w, h) ==
  LET m == ReadMode(e)
  IN /\ Len(e) = 128 /\ \A k \in 1..127 : e[k] \in 0..255
     /\ m.vactive = h /\ m.hactive % 8 = 0 /\ w - m.hactive \in 0..7
     /\ m.hfront + m.hsync < m.hblank /\ m.vfront + m.vsync + 6 <= m.vblank

LEMMA ModeRead ==
  ASSUME NEW e, NEW d, Follows(e, 54, d, 18), NEW x, NEW h, NEW v, NEW vsync,
         Says(d, x, h, v, vsync)
  PROVE  Reduced(ReadMode(e), x, h, v, vsync)
<1>1. /\ e[57] = d[3] /\ e[58] = d[4] /\ e[59] = d[5] /\ e[60] = d[6] /\ e[61] = d[7]
      /\ e[62] = d[8] /\ e[63] = d[9] /\ e[64] = d[10] /\ e[65] = d[11] /\ e[66] = d[12]
  BY SMT DEF Follows
<1>2. /\ 55 + 2 = 57 /\ 55 + 3 = 58 /\ 55 + 4 = 59 /\ 55 + 5 = 60 /\ 55 + 6 = 61
      /\ 55 + 7 = 62 /\ 55 + 8 = 63 /\ 55 + 9 = 64 /\ 55 + 10 = 65 /\ 55 + 11 = 66
  BY SMT
<1>3. PICK m : m = ReadMode(e)
  OBVIOUS
<1>4. /\ m.hactive = d[3] + 256 * (d[5] \div 16) /\ m.hblank = d[4] + 256 * (d[5] % 16)
      /\ m.vactive = d[6] + 256 * (d[8] \div 16) /\ m.vblank = d[7] + 256 * (d[8] % 16)
      /\ m.hfront = d[9] + 256 * (d[12] \div 64)
      /\ m.hsync = d[10] + 256 * ((d[12] \div 16) % 4)
      /\ m.vfront = (d[11] \div 16) + 16 * ((d[12] \div 4) % 4)
      /\ m.vsync = (d[11] % 16) + 16 * (d[12] % 4)
  BY <1>1, <1>2, <1>3, SMT DEF ReadMode
<1>5. Reduced(m, x, h, v, vsync)
  BY <1>4, SMT DEF Says, Reduced
<1> QED
  BY <1>3, <1>5

LEMMA EdidMade ==
  ASSUME NEW w \in U12, NEW h \in U12, NEW rate \in 1..144
  PROVE  EdidOf(build_edid(w, h, rate), w, h) /\ build_edid(w, h, rate) # <<>>
<1>1. PICK t : t = reduced_blanking(w, h, rate)
  OBVIOUS
<1>2. PICK x \in Bits12, v \in Bits12, vsync \in Nibble : Blanked(t, w, h, x, v, vsync)
  BY <1>1, FrequencyNumber, TimingMade, Zenon
<1>3. PICK b \in Bits12 : b = HBlank
  BY BlankingNumber
<1>4. PICK clock \in Nat : clock = t.clock_khz \div 10
  BY <1>2, ClockNumber, Zenon DEF Blanked
<1>4a. PICK d : d = Bytes18(clock, x, b, h, v, vsync)
  OBVIOUS
<1>5. Bytes(d, 18) /\ Says(d, x, h, v, vsync)
  BY <1>3, <1>4a, HeightNumber, DescriptorSays, Zenon
<1>6. d = detailed_timing_descriptor(t)
  BY <1>2, <1>3, <1>4, <1>4a, DescriptorBytes, Zenon DEF Blanked
<1>7. PICK s : s = Preamble \o d \o Postamble
  OBVIOUS
<1>8. Bytes(s, 127) /\ Follows(s, 54, d, 18)
  BY <1>5, <1>7, BodyBytes, Zenon
<1>9. PICK e : e = build_edid(w, h, rate) /\ \E c : e = Append(s, c)
  BY <1>1, <1>6, <1>7, Zenon DEF build_edid
<1>10. Len(e) = 128 /\ Keeps(e, s, 127)
  <2>1. PICK c : e = Append(s, c)
    BY <1>9
  <2>2. PICK n \in Nat : n = 127
    BY SMT
  <2>3. Bytes(s, n)
    BY <1>8, <2>2
  <2>4. Len(e) = n + 1 /\ Keeps(e, s, n)
    BY <2>1, <2>3, Appended, Zenon
  <2> QED
    BY <2>2, <2>4, SMT
<1>11. Follows(e, 54, d, 18)
  BY <1>8, <1>10, SMT DEF Follows, Keeps
<1>12. \A k \in 1..127 : e[k] \in 0..255
  <2>1. 127 \in Nat
    BY SMT
  <2> QED
    BY <1>8, <1>10, <2>1, KeptByte
<1>13. PICK m : m = ReadMode(e)
  OBVIOUS
<1>14. Reduced(m, x, h, v, vsync)
  BY <1>5, <1>11, <1>13, ModeRead, Zenon
<1>15. m.vactive = h /\ m.hactive % 8 = 0 /\ w - m.hactive \in 0..7
  BY <1>2, <1>14, SMT DEF Blanked, Reduced
<1>16. m.hfront + m.hsync < m.hblank /\ m.vfront + m.vsync + 6 <= m.vblank
  BY <1>2, <1>14, SMT DEF Blanked, Reduced, Nibble, Bits12
<1>17. EdidOf(e, w, h)
  BY <1>10, <1>12, <1>13, <1>15, <1>16 DEF EdidOf
<1>18. e # <<>>
  BY <1>10, SMT
<1> QED
  BY <1>9, <1>17, <1>18

-----------------------------------------------------------------------------
(* The EDID of a session.                                                  *)

\* The widths streamed have the 12 bits an EDID gives them: a cap or the panel's
\* long side is below 4096.
WidthsFit == \A p \in Panels, max \in MaxWidths : Least(Most(p[1], p[2]), max) < 4096

\* What is asked for fits an EDID, and the EDID made of it is right.
EdidInv ==
  /\ stage \in {"start", "panel"} => edid = <<>>
  /\ stage = "panel" => Least(cap, panel[1]) < 4096
  /\ stage = "asked" => asked \in U12 \X U12
  /\ edid # <<>> => asked \in U12 \X U12 /\ EdidOf(edid, asked[1], asked[2])

LEMMA EdidInit == ASSUME Init PROVE EdidInv
  BY DEF Init, EdidInv

LEMMA LongSide ==
  ASSUME NEW s \in Sides, NEW max \in Nat, Least(Most(s[1], s[2]), max) < 4096
  PROVE  Least(max, Landscape(s)[1]) < 4096
<1>1. PICK p \in Side, q \in Side : s = <<p, q>>
  BY DEF Sides
<1>2. p \in Nat /\ q \in Nat
  BY SideNumber
<1>3. Landscape(s)[1] = Most(p, q) /\ Most(s[1], s[2]) = Most(p, q)
  BY <1>1, <1>2, SMT DEF Landscape, Most
<1>4. Least(Most(p, q), max) < 4096
  BY <1>3, SMT
<1>5. Least(max, Most(p, q)) < 4096
  BY <1>2, <1>4, SMT DEF Least, Most
<1> QED
  BY <1>3, <1>5

LEMMA EdidDisplaySize == ASSUME WidthsFit, FormatInv, EdidInv, DisplaySize PROVE EdidInv'
<1>1. PICK physical \in Panels, override \in Panels \cup {None}, max \in MaxWidths :
        LET s == IF override = None THEN physical ELSE override IN
          /\ IF s[1] = 0 \/ s[2] = 0
             THEN Moves("start", "refused") /\ UNCHANGED panel
             ELSE Moves("start", "panel") /\ panel' = Landscape(s)
          /\ cap' = max
          /\ UNCHANGED <<fps, asked, edid, size, audio, wire, header>>
  BY DEF DisplaySize
<1>2. PICK s \in Panels : s = IF override = None THEN physical ELSE override
  OBVIOUS
<1>3. edid' = <<>>
  BY <1>1 DEF EdidInv, Moves
<1>4. CASE s[1] = 0 \/ s[2] = 0
  BY <1>1, <1>2, <1>3, <1>4 DEF Moves, EdidInv
<1>5. CASE s[1] # 0 /\ s[2] # 0
  <2>1. s \in Sides
    BY <1>5, SizesAssumption, SMT DEF Sides
  <2>2. max \in Nat /\ Least(Most(s[1], s[2]), max) < 4096
    BY FormatAssumption DEF WidthsFit
  <2>3. Least(max, Landscape(s)[1]) < 4096
    BY <2>1, <2>2, LongSide
  <2>4. stage' = "panel" /\ panel' = Landscape(s) /\ cap' = max
    BY <1>1, <1>2, <1>5 DEF Moves
  <2>5. Least(cap', panel'[1]) < 4096
    BY <2>3, <2>4
  <2> QED
    BY <1>3, <2>4, <2>5 DEF EdidInv
<1> QED
  BY <1>4, <1>5

LEMMA SmallSide ==
  ASSUME NEW n \in Side, NEW m \in Nat, n <= m, m < 4096
  PROVE  n \in U12
  BY SMT DEF U12, Side, U16

LEMMA EdidScale == ASSUME FormatInv, EdidInv, Scale PROVE EdidInv'
<1>1. /\ panel \in Sides /\ panel[2] <= panel[1] /\ cap \in MaxWidths /\ stage = "panel"
      /\ edid = <<>> /\ Least(cap, panel[1]) < 4096
  BY DEF FormatInv, PanelInv, EdidInv, Scale, Moves
<1>2. cap \in Nat /\ cap >= 2
  BY <1>1, FormatAssumption, SizesAssumption
<1>3. asked' = stream_resolution(panel, cap) /\ stage' = "asked" /\ edid' = edid
  BY DEF Scale, Moves
<1>4. /\ asked' \in Sides /\ asked'[1] \in 2..Least(cap, panel[1])
      /\ asked'[2] <= Least(cap, panel[1])
  BY <1>1, <1>2, <1>3, Fits DEF Fitting
<1>5. PICK m : m = Least(cap, panel[1])
  OBVIOUS
<1>6. m \in Nat
  <2>1. panel[1] \in Nat
    BY <1>1, SideNumber DEF Sides
  <2> QED
    BY <1>2, <1>5, <2>1, SMT DEF Least
<1>7. PICK x \in Side, y \in Side : asked' = <<x, y>>
  BY <1>4 DEF Sides
<1>8. x <= m /\ y <= m /\ m < 4096
  <2>1. x \in 2..m /\ y <= m
    BY <1>4, <1>5, <1>7
  <2> QED
    BY <1>1, <1>5, <1>6, <2>1, SMT
<1>9. asked' \in U12 \X U12
  BY <1>6, <1>7, <1>8, SmallSide
<1> QED
  BY <1>1, <1>3, <1>9 DEF EdidInv

LEMMA EdidConnect == ASSUME FormatInv, EdidInv, ConnectEvdi PROVE EdidInv'
<1>1. PICK w \in U12, h \in U12 : asked = <<w, h>> /\ fps \in 1..144
  BY DEF ConnectEvdi, Moves, EdidInv, FormatInv, HeaderInv
<1>2. edid' = build_edid(w, h, fps) /\ asked' = asked /\ stage' = "edid"
  BY <1>1 DEF ConnectEvdi, Moves
<1>3. EdidOf(edid', asked'[1], asked'[2])
  BY <1>1, <1>2, EdidMade
<1> QED
  BY <1>1, <1>2, <1>3 DEF EdidInv

LEMMA EdidStep == ASSUME WidthsFit, FormatInv, EdidInv, [Next]_vars PROVE EdidInv'
<1>1. CASE DisplaySize
  BY <1>1, EdidDisplaySize
<1>2. CASE Scale
  BY <1>2, EdidScale
<1>3. CASE Explicit
  <2>1. asked' \in U12 \X U12
    BY <1>3, FormatAssumption DEF Explicit
  <2> QED
    BY <1>3, <2>1 DEF Explicit, Moves, EdidInv
<1>4. CASE ConnectEvdi
  BY <1>4, EdidConnect
<1>5. CASE PositionEvdi \/ HeadlessOutput \/ SendHeader \/ ReadHeader
  BY <1>5 DEF PositionEvdi, HeadlessOutput, SendHeader, ReadHeader, Moves, EdidInv
<1>6. CASE UNCHANGED vars
  BY <1>6 DEF vars, EdidInv
<1> QED
  BY <1>1, <1>2, <1>3, <1>4, <1>5, <1>6 DEF Next

LEMMA EdidAlways == ASSUME WidthsFit PROVE Spec => [](FormatInv /\ EdidInv)
<1>1. Init => EdidInv
  BY EdidInit
<1>2. FormatInv /\ EdidInv /\ [Next]_vars => EdidInv'
  BY EdidStep
<1> QED
  BY <1>1, <1>2, FormatAlways, PTL DEF Spec

\* For every panel, cap and rate whose widths an EDID's 12 bits hold: the EDID made is
\* 128 bytes, from which a compositor reads the height wanted, the multiple of eight
\* next below the width, and syncs inside their blanking (edid.rs). The EDID of a
\* wider picture would lose the upper bits of its width without an error.
THEOREM EdidsRead == ASSUME WidthsFit PROVE Spec => []EdidReads
<1>1. EdidInv => EdidReads
  BY DEF EdidInv, EdidReads, EdidOf
<1> QED
  BY <1>1, EdidAlways, PTL

LEMMA EightsAlike ==
  ASSUME NEW w \in U12, NEW x, x % 8 = 0, w - x \in 0..7, w % 8 = 0, x \in Nat
  PROVE  x = w
<1>1. w \in Nat
  BY SMT DEF U12, Side, U16
<1> QED
  BY <1>1, SMT

LEMMA WidthRead ==
  ASSUME NEW e, NEW w, NEW h, EdidOf(e, w, h)
  PROVE  ReadMode(e).hactive \in Nat
<1>1. PICK i, j \in 1..127 : i = 57 /\ j = 59
  BY SMT
<1>2. PICK a, b : a = e[i] /\ b = e[j]
  OBVIOUS
<1>3. a \in 0..255 /\ b \in 0..255
  <2>1. \A k \in 1..127 : e[k] \in 0..255
    BY DEF EdidOf
  <2> QED
    BY <1>2, <2>1, Zenon
<1>4. a \in Nat /\ b \in Nat
  BY <1>3, SMT
<1>5. ReadMode(e).hactive = a + 256 * (b \div 16)
  BY <1>1, <1>2, SMT DEF ReadMode
<1> QED
  BY <1>4, <1>5, SMT

\* The whole of the finding of PictureMode.cfg: the EDID describes the mode asked for
\* wherever the width is a multiple of eight (edid.rs:36, position_output).
THEOREM EightsMatch ==
  ASSUME WidthsFit
  PROVE  Spec => []((edid # <<>> => asked[1] % 8 = 0) => EdidMatches)
<1>1. ASSUME EdidInv, edid # <<>> => asked[1] % 8 = 0 PROVE EdidMatches
  <2>1. SUFFICES ASSUME edid # <<>> PROVE ModeSize(edid) = asked
    BY DEF EdidMatches
  <2>2. PICK w \in U12, h \in U12 : asked = <<w, h>>
    BY <1>1, <2>1 DEF EdidInv
  <2>3. EdidOf(edid, w, h) /\ w % 8 = 0
    BY <1>1, <2>1, <2>2 DEF EdidInv
  <2>4. PICK x : x = ReadMode(edid).hactive
    OBVIOUS
  <2>5. x \in Nat
    BY <2>3, <2>4, WidthRead
  <2>6. x % 8 = 0 /\ w - x \in 0..7
    BY <2>3, <2>4 DEF EdidOf
  <2>7. x = w
    BY <2>3, <2>5, <2>6, EightsAlike, Zenon
  <2>8. ReadMode(edid).vactive = h
    BY <2>3 DEF EdidOf
  <2> QED
    BY <2>2, <2>4, <2>7, <2>8 DEF ModeSize
<1> QED
  BY <1>1, EdidAlways, PTL
=============================================================================
