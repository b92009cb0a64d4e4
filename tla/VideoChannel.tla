---------------------------- MODULE VideoChannel ----------------------------
(***************************************************************************)
(* What a streaming session promises of its video path, end to end: frames *)
(* go from the capture to the tablet's screen in the order they were       *)
(* captured, each is shown at most once, none is made up, and any may be   *)
(* lost on the way (a stale frame is worse than a dropped one).  Of sound  *)
(* the host promises the same, as far as the socket (AudioPath).           *)
(***************************************************************************)
EXTENDS Integers, Sequences

CONSTANTS Frame, NoFrame

VARIABLES
  flight,  \* captured and neither shown nor lost, oldest first
  shown    \* the frame on the screen

\* short is long, or what is left of it when a run of neighbours is lost.
Survives(short, long) ==
  LET lost == Len(long) - Len(short)
  IN  /\ lost >= 0
      /\ \E kept \in 0..Len(short) :
           short = SubSeq(long, 1, kept) \o SubSeq(long, kept + lost + 1, Len(long))

Capture(f) ==
  LET older == SubSeq(flight', 1, Len(flight') - 1)
  IN  /\ flight' = Append(older, f)
      /\ Survives(older, flight)
      /\ UNCHANGED shown

Lose ==
  /\ Survives(flight', flight)
  /\ UNCHANGED shown

Show ==
  /\ flight # <<>>
  /\ shown' = Head(flight)
  /\ flight' = Tail(flight)

Init == flight = <<>> /\ shown = NoFrame

Next == (\E f \in Frame : Capture(f)) \/ Lose \/ Show

Spec == Init /\ [][Next]_<<flight, shown>>
=============================================================================
