----------------------------- MODULE PacingLoop -----------------------------
(***************************************************************************)
(* The clock of a session (crates/daemon/src/session.rs): the ticks of the *)
(* pacing loop, which sleep, catch up or start afresh, and the time stamps *)
(* of the frames, which count ticks whatever these took.                   *)
(***************************************************************************)
EXTENDS Integers

CONSTANTS
  Interval,  \* frame_duration
  MaxWork,   \* bound on what a tick, or what precedes the first, takes
  MaxLate,   \* bound on how late a sleep returns
  MaxTime,   \* bound on the time at which a tick begins
  Skew       \* how far two time stamps of one moment may be apart

\* What the theorems suppose of them.
PacingAssumption ==
  /\ Interval \in Nat \ {0}
  /\ MaxWork \in Nat /\ MaxLate \in Nat /\ MaxTime \in Nat /\ Skew \in Nat

VARIABLES
  pc,         \* at the head of the loop, behind the sends, or left
  now,        \* time since session_start
  next_tick,
  pts,        \* index * frame_duration
  recent      \* history: when the last three ticks began, newest first

vars == <<pc, now, next_tick, pts, recent>>

-----------------------------------------------------------------------------
\* Between session_start and the first tick the sink is made, the tablet is
\* connected to and the threads are started.
Init ==
  /\ pc = "tick"
  /\ now \in 0..MaxWork
  /\ next_tick = 0 /\ pts = 0
  /\ recent = [k \in 1..3 |-> -3 * Interval]

\* A frame is captured, stamped with the ticks before it, and what is encoded is
\* sent.  The capture may wait for the compositor and a write for the tablet.
Tick ==
  /\ pc = "tick" /\ now <= MaxTime
  /\ \E work \in 0..MaxWork : now' = now + work
  /\ pts' = pts + Interval
  /\ recent' = [k \in 1..3 |-> IF k = 1 THEN now ELSE recent[k - 1]]
  /\ pc' = "pace"
  /\ UNCHANGED next_tick

\* The tick ends before the next is due, and the rest of it is slept, or more.
Sleep ==
  /\ pc = "pace" /\ now < next_tick + Interval
  /\ next_tick' = next_tick + Interval
  /\ \E late \in 0..MaxLate : now' = next_tick + Interval + late
  /\ pc' = "tick"
  /\ UNCHANGED <<pts, recent>>

\* The next tick is due already, by no more than an interval.
CatchUp ==
  /\ pc = "pace" /\ now \in (next_tick + Interval)..(next_tick + 2 * Interval)
  /\ next_tick' = next_tick + Interval
  /\ pc' = "tick"
  /\ UNCHANGED <<now, pts, recent>>

\* It is due by more, and the ticks missed are given up.
Resync ==
  /\ pc = "pace" /\ now > next_tick + 2 * Interval
  /\ next_tick' = now
  /\ pc' = "tick"
  /\ UNCHANGED <<now, pts, recent>>

\* A shutdown, or a capture or a write that fails.
Leave ==
  /\ pc = "tick"
  /\ pc' = "done"
  /\ UNCHANGED <<now, next_tick, pts, recent>>

Done == pc = "done" /\ UNCHANGED vars

Next == Tick \/ Sleep \/ CatchUp \/ Resync \/ Leave \/ Done

Spec == Init /\ [][Next]_vars

-----------------------------------------------------------------------------
\* However long ticks take and sleeps last, no four ticks begin within less than
\* an interval: a stall is never followed by a burst (session.rs:522-524).
NoBurst == pc = "tick" => now - recent[3] >= Interval

\* A frame is never stamped with a time that is still to come: in all, frames
\* are captured no faster than at the rate configured (session.rs:519-522).
RateCapped == pc = "tick" => pts <= now

\* "same instant, so the two are directly comparable at the receiver"
\* (session.rs:328-332): a frame captured now bears about the time stamp that a
\* packet of sound pulled now bears.
Comparable == pc = "tick" => now - pts <= Skew
=============================================================================
