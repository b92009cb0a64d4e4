----------------------------- MODULE TabletAudio ----------------------------
(***************************************************************************)
(* The tablet's AudioStream (AudioStream.kt): the sink that the video's    *)
(* demultiplexer gives a session's header, its audio frames and its end,   *)
(* but not the end of one that never got to its video decoder; the switch  *)
(* on the main thread, and for each session a thread that drains the       *)
(* decoder into one shared queue and a thread that writes the queue to the *)
(* track.  teardown runs on both the main and the demux thread, a field at *)
(* a time.                                                                 *)
(***************************************************************************)
EXTENDS Naturals, Sequences, FiniteSets

CONSTANTS
  MaxSessions,  \* bound: sessions of the video stream
  MaxFrames,    \* bound: audio frames a decoder has not turned into samples yet
  MaxPcm,       \* bound: buffers of samples in the queue
  MaxStarts,    \* bound: times the switch is turned on
  QuickDrain    \* a drain thread that copied samples offers them before the next
                \* session is configured

ASSUME AudioAssumption ==
  /\ MaxSessions \in Nat \ {0} /\ MaxFrames \in Nat \ {0} /\ MaxPcm \in Nat \ {0}
  /\ MaxStarts \in Nat \ {0} /\ QuickDrain \in BOOLEAN

Sessions == 1..MaxSessions

\* What a session makes, in the order teardown takes it away; no session is 0.
Order == <<"writer", "drainer", "codec", "track">>
Names == {Order[k] : k \in 1..4}

VARIABLES
  (* fields of AudioStream *)
  running, phase,
  field,     \* for each name, the session whose thread, decoder or track it holds
  pcm,       \* pendingPcm: the sessions its buffers were decoded in
  (* the demux thread of VideoStream *)
  session,   \* the last session it announced
  dpc,       \* where it is
  (* the main thread, and both threads' places in teardown; 0 when in none *)
  at,        \* at["main"], at["demux"]
  (* the threads, decoders and tracks *)
  made, over,  \* <<name, session>>: that were made; interrupted or released
  fed,         \* frames in each decoder
  drain, writer,  \* where each thread is; "failed" by an exception of its own
  item,        \* what each writer has taken from the queue
  (* bound and history *)
  starts,      \* times the switch was turned on
  crossed,     \* a stop fell into the configuration of a session
  lost         \* <<name, session>>: thrown away by a configuration that had not named it

shared == <<running, phase, field, pcm>>
history == <<starts, crossed, lost>>
demux == <<session, dpc>>
players == <<made, over, fed, drain, writer, item>>
vars == <<shared, demux, at, players, history>>

Configuring == {"codec", "start", "track", "play", "clear", "drainer", "writer"}

\* What the configuration has made and no field names yet.
Unnamed ==
  CASE dpc = "start" -> {<<"codec", session>>}
    [] dpc = "play" -> {<<"track", session>>}
    [] OTHER -> {}

\* The demux thread moves on.
Demux(from, to) == dpc = from /\ dpc' = to

Over == {"none", "done", "failed"}
Ended(s) == drain[s] \in Over /\ writer[s] \in Over

-----------------------------------------------------------------------------
(* teardown, by who \in {"main", "demux"}: each field is read and then set   *)
(* to null, and the queue is cleared last.                                   *)

EnterTeardown(who) == at[who] = 0 /\ at' = [at EXCEPT ![who] = 1]

\* Interrupt the thread, or stop and release the decoder, with the frames in it, or
\* the track.
TakeAway(who) ==
  \E k \in 1..4 :
    /\ at[who] = 2 * k - 1
    /\ over' = IF field[Order[k]] = 0 THEN over
               ELSE over \cup {<<Order[k], field[Order[k]]>>}
    /\ fed' = [s \in Sessions |-> IF <<"codec", s>> \in over' THEN 0 ELSE fed[s]]
    /\ at' = [at EXCEPT ![who] = @ + 1]
    /\ UNCHANGED <<shared, demux, made, drain, writer, item, history>>

Forget(who) ==
  \E k \in 1..4 :
    /\ at[who] = 2 * k
    /\ field' = [field EXCEPT ![Order[k]] = 0]
    /\ at' = [at EXCEPT ![who] = @ + 1]
    /\ UNCHANGED <<running, phase, pcm, demux, players, history>>

ClearQueue(who) ==
  /\ at[who] = 9
  /\ pcm' = <<>>
  /\ at' = [at EXCEPT ![who] = 10]
  /\ UNCHANGED <<running, phase, field, demux, players, history>>

\* After it, what the caller does: at 10 it has returned.
Leave(who) == at[who] = 10 /\ at' = [at EXCEPT ![who] = 0]

-----------------------------------------------------------------------------
(* The main thread.                                                        *)

Start ==
  /\ at["main"] = 0 /\ ~running
  /\ starts < MaxStarts /\ starts' = starts + 1
  /\ running' = TRUE
  /\ phase' = "waiting"
  /\ UNCHANGED <<field, pcm, demux, at, players, crossed, lost>>

Stop ==
  /\ running
  /\ EnterTeardown("main")
  /\ running' = FALSE
  /\ crossed' = (crossed \/ dpc \in Configuring)
  /\ UNCHANGED <<phase, field, pcm, demux, players, starts, lost>>

Stopped ==
  /\ Leave("main")
  /\ phase' = "disconnected"
  /\ UNCHANGED <<running, field, pcm, demux, players, history>>

-----------------------------------------------------------------------------
(* The demux thread: onStreamHeader, onAudioFrame, onSessionEnded.         *)

\* A header, of a session with sound or without.
OnStreamHeader ==
  /\ session < MaxSessions
  /\ \E from \in {"idle", "untold"} : Demux(from, "header")
  /\ session' = session + 1
  /\ EnterTeardown("demux")
  /\ UNCHANGED <<shared, players, history>>

NoAudio ==
  /\ Demux("header", "video")
  /\ Leave("demux")
  /\ phase' = "waiting"
  /\ UNCHANGED <<running, field, pcm, session, players, history>>

Configure ==
  /\ Demux("header", "codec")
  /\ Leave("demux")
  /\ running
  /\ phase' = "connecting"
  /\ crossed' = (crossed \/ at["main"] # 0)
  /\ UNCHANGED <<running, field, pcm, session, players, starts, lost>>

\* A decoder or a track is made; only a local variable knows it.
Create(name) == made' = made \cup {<<name, session>>} /\ UNCHANGED field

\* It is named, once it has started.
Name(name) == field' = [field EXCEPT ![name] = session] /\ UNCHANGED made

\* A thread is made and named.
Make(name) ==
  /\ made' = made \cup {<<name, session>>}
  /\ field' = [field EXCEPT ![name] = session]

CreateCodec ==
  /\ Demux("codec", "start")
  /\ Create("codec")
  /\ UNCHANGED <<running, phase, pcm, session, at, over, fed, drain, writer, item, history>>

\* It is configured and started before its field is set.
StartCodec ==
  /\ Demux("start", "track")
  /\ Name("codec")
  /\ UNCHANGED <<running, phase, pcm, session, at, over, fed, drain, writer, item, history>>

BuildTrack ==
  /\ Demux("track", "play")
  /\ Create("track")
  /\ UNCHANGED <<running, phase, pcm, session, at, over, fed, drain, writer, item, history>>

PlayTrack ==
  /\ Demux("play", "clear")
  /\ Name("track")
  /\ UNCHANGED <<running, phase, pcm, session, at, over, fed, drain, writer, item, history>>

\* Mutant of ClearOld: teardown has cleared the queue already.
ClearOldNot ==
  /\ QuickDrain => \A s \in Sessions : drain[s] # "offer"
  /\ Demux("clear", "drainer")
  /\ UNCHANGED <<shared, session, at, players, history>>

ClearOld ==
  /\ QuickDrain => \A s \in Sessions : drain[s] # "offer"
  /\ Demux("clear", "drainer")
  /\ pcm' = <<>>
  /\ UNCHANGED <<running, phase, field, session, at, players, history>>

StartDrain ==
  /\ Demux("drainer", "writer")
  /\ Make("drainer")
  /\ drain' = [drain EXCEPT ![session] = "run"]
  /\ UNCHANGED <<running, phase, pcm, session, at, over, fed, writer, item, history>>

StartWriter ==
  /\ Demux("writer", "video")
  /\ Make("writer")
  /\ writer' = [writer EXCEPT ![session] = "run"]
  /\ phase' = "streaming"
  /\ UNCHANGED <<running, pcm, session, at, over, fed, drain, item, history>>

\* Mutant of ConfigureFails: what has been made by then is left to the next header.
ConfigureFailsBare ==
  /\ \E from \in {"codec", "start", "track", "play"} : Demux(from, "video")
  /\ phase' = "disconnected"
  /\ lost' = lost \cup Unnamed
  /\ UNCHANGED <<running, field, pcm, session, at, players, starts, crossed>>

\* The decoder or the track cannot be had, or does not start: one that was made by
\* then is lost, since teardown knows the fields only.
ConfigureFails ==
  /\ \E from \in {"codec", "start", "track", "play"} : Demux(from, "failed")
  /\ EnterTeardown("demux")
  /\ phase' = "disconnected"
  /\ lost' = lost \cup Unnamed
  /\ UNCHANGED <<running, field, pcm, session, players, starts, crossed>>

\* Video goes on without it.
ConfigureFailed ==
  /\ Demux("failed", "video")
  /\ Leave("demux")
  /\ UNCHANGED <<shared, session, players, history>>

\* The video's decoder has its surface and starts, and frames are read.
VideoStarts ==
  /\ Demux("video", "open")
  /\ UNCHANGED <<shared, session, at, players, history>>

\* There is no surface for it or it does not start: the session is over, and the sink
\* is not told.
VideoFails ==
  /\ Demux("video", "untold")
  /\ UNCHANGED <<shared, session, at, players, history>>

\* A frame the decoder takes; one it has no buffer for is dropped.
OnAudioFrame ==
  /\ dpc = "open" /\ field["codec"] # 0
  /\ <<"codec", field["codec"]>> \notin over
  /\ fed[field["codec"]] < MaxFrames
  /\ fed' = [fed EXCEPT ![field["codec"]] = @ + 1]
  /\ UNCHANGED <<shared, demux, at, made, over, drain, writer, item, history>>

OnSessionEnded ==
  /\ Demux("open", "end")
  /\ EnterTeardown("demux")
  /\ UNCHANGED <<shared, session, players, history>>

SessionEnded ==
  /\ Demux("end", "idle")
  /\ Leave("demux")
  /\ phase' = "waiting"
  /\ UNCHANGED <<running, field, pcm, session, players, history>>

-----------------------------------------------------------------------------
(* The drain thread of session s.                                          *)

Interrupted(name, s) == <<name, s>> \in over
Released(name, s) == <<name, s>> \in over

DrainLoop(s) ==
  /\ drain[s] = "run"
  /\ drain' = [drain EXCEPT ![s] =
                 IF running /\ ~Interrupted("drainer", s) THEN "dequeue" ELSE "done"]
  /\ UNCHANGED <<shared, demux, at, made, over, fed, writer, item, history>>

\* Within the bound on the queue.
Room == Len(pcm) + Cardinality({s \in Sessions : drain[s] = "offer"}) < MaxPcm

\* Samples are copied out, or there are none in time.
Dequeue(s) ==
  /\ drain[s] = "dequeue" /\ ~Released("codec", s)
  /\ IF fed[s] > 0 /\ Room
     THEN drain' = [drain EXCEPT ![s] = "offer"] /\ fed' = [fed EXCEPT ![s] = @ - 1]
     ELSE drain' = [drain EXCEPT ![s] = "run"] /\ UNCHANGED fed
  /\ UNCHANGED <<shared, demux, at, made, over, writer, item, history>>

\* An exception of the decoder, in the middle of a session or because it has been
\* released, ends the thread.
DrainFails(s) ==
  /\ drain[s] = "dequeue"
  /\ drain' = [drain EXCEPT ![s] = IF Released("codec", s) THEN "done" ELSE "failed"]
  /\ UNCHANGED <<shared, demux, at, made, over, fed, writer, item, history>>

\* The buffer is given back to the decoder, which fails likewise.
Offer(s) ==
  /\ drain[s] = "offer"
  /\ pcm' = Append(pcm, s)
  /\ \/ Released("codec", s) /\ drain' = [drain EXCEPT ![s] = "done"]
     \/ ~Released("codec", s) /\ \E to \in {"run", "failed"} :
                                   drain' = [drain EXCEPT ![s] = to]
  /\ UNCHANGED <<running, phase, field, demux, at, made, over, fed, writer, item, history>>

(* Its writer thread.                                                      *)

\* Mutant of WriterLoop: it looks at the interrupt only.
WriterLoopInterrupt(s) ==
  /\ writer[s] = "run"
  /\ writer' = [writer EXCEPT ![s] = IF Interrupted("writer", s) THEN "done" ELSE "poll"]
  /\ UNCHANGED <<shared, demux, at, made, over, fed, drain, item, history>>

WriterLoop(s) ==
  /\ writer[s] = "run"
  /\ writer' = [writer EXCEPT ![s] =
                  IF running /\ ~Interrupted("writer", s) THEN "poll" ELSE "done"]
  /\ UNCHANGED <<shared, demux, at, made, over, fed, drain, item, history>>

\* An interrupted poll takes nothing, though there be something.
Poll(s) ==
  /\ writer[s] = "poll"
  /\ IF Interrupted("writer", s)
     THEN writer' = [writer EXCEPT ![s] = "done"] /\ UNCHANGED <<pcm, item>>
     ELSE IF pcm = <<>>
     THEN writer' = [writer EXCEPT ![s] = "run"] /\ UNCHANGED <<pcm, item>>
     ELSE /\ writer' = [writer EXCEPT ![s] = "write"]
          /\ item' = [item EXCEPT ![s] = Head(pcm)]
          /\ pcm' = Tail(pcm)
  /\ UNCHANGED <<running, phase, field, demux, at, made, over, fed, drain, history>>

Write(s) ==
  /\ writer[s] = "write" /\ ~Released("track", s)
  /\ item' = [item EXCEPT ![s] = 0]
  /\ writer' = [writer EXCEPT ![s] = "run"]
  /\ UNCHANGED <<shared, demux, at, made, over, fed, drain, history>>

\* A negative count or an exception, in the middle of a session or because the track
\* has been released, ends the thread.
WriteFails(s) ==
  /\ writer[s] = "write"
  /\ item' = [item EXCEPT ![s] = 0]
  /\ writer' = [writer EXCEPT ![s] = IF Released("track", s) THEN "done" ELSE "failed"]
  /\ UNCHANGED <<shared, demux, at, made, over, fed, drain, history>>

-----------------------------------------------------------------------------
Init ==
  /\ running = FALSE /\ phase = "waiting"
  /\ field = [n \in Names |-> 0] /\ pcm = <<>>
  /\ session = 0 /\ dpc = "idle"
  /\ at = [who \in {"main", "demux"} |-> 0]
  /\ made = {} /\ over = {}
  /\ fed = [s \in Sessions |-> 0]
  /\ drain = [s \in Sessions |-> "none"]
  /\ writer = [s \in Sessions |-> "none"]
  /\ item = [s \in Sessions |-> 0]
  /\ starts = 0 /\ crossed = FALSE /\ lost = {}

Teardown(who) == TakeAway(who) \/ Forget(who) \/ ClearQueue(who)

MainStep == Teardown("main") \/ Stopped

DemuxStep ==
  \/ Teardown("demux") \/ NoAudio \/ Configure
  \/ CreateCodec \/ StartCodec \/ BuildTrack \/ PlayTrack
  \/ ClearOld \/ StartDrain \/ StartWriter
  \/ ConfigureFails \/ ConfigureFailed \/ VideoStarts \/ VideoFails \/ SessionEnded

DrainStep(s) == DrainLoop(s) \/ Dequeue(s) \/ DrainFails(s) \/ Offer(s)
WriterStep(s) == WriterLoop(s) \/ Poll(s) \/ Write(s) \/ WriteFails(s)

Next ==
  \/ Start \/ Stop \/ MainStep
  \/ OnStreamHeader \/ OnAudioFrame \/ OnSessionEnded \/ DemuxStep
  \/ \E s \in Sessions : DrainStep(s) \/ WriterStep(s)

\* Every thread runs, the wait for a surface has a deadline, and a session whose
\* stream was stopped ends (the StopEnds of TabletVideo).  Nobody need connect, send or touch the switch.
Spec ==
  /\ Init /\ [][Next]_vars
  /\ WF_vars(MainStep) /\ WF_vars(DemuxStep)
  /\ WF_vars(~running /\ OnSessionEnded)
  /\ \A s \in Sessions : WF_vars(DrainStep(s)) /\ WF_vars(WriterStep(s))

-----------------------------------------------------------------------------
(* Properties.                                                             *)

\* The next two are promised unless the switch was turned off while a session
\* was being configured: the two threads' teardown and assignments then cross.

\* A session's track plays what was decoded in that session: the rest of an
\* earlier one is never heard in it, though the queue is shared.
OwnSound == ~crossed => \A s \in Sessions : item[s] \in {0, s}

\* What a session made lives no longer than it, and not shorter.  From the end it is
\* told of until the next header, everything, of the sessions before it too, has been
\* interrupted or released but what a throw lost between its making and its field
\* (AudioStream.kt:194-197, 200-202), and no field is set.  While it is on and nobody
\* has turned the switch, the decoder that takes its frames is its own, and no teardown
\* has ended its threads: one that does not run has failed by itself
\* (AudioStream.kt:133-180, 271-274, 297-316).
NoneKept ==
  ~crossed =>
    /\ dpc = "idle" /\ at["main"] = 0 =>
         /\ made \ over \subseteq lost
         /\ field = [n \in Names |-> 0]
    /\ dpc \in {"video", "open"} /\ running /\ field["codec"] # 0 =>
         /\ field["codec"] = session
         /\ {drain[session], writer[session]} \cap {"none", "done"} = {}

\* Turned off for good, every thread ends: even one that teardown could not see
\* because it was just being started.
ThreadsEnd == <>[](~running) => <>[](\A s \in Sessions : Ended(s))
=============================================================================
