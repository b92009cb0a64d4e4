----------------------- MODULE SessionResources_proofs ----------------------
(***************************************************************************)
(* Proofs about what a session leaves behind: nothing, on a compositor     *)
(* whose output has a guard as soon as it exists and as long as the daemon *)
(* is not killed; and nothing of what others left, once it has streamed.   *)
(* What it moved it has put back, and what it streams is its own.          *)
(***************************************************************************)
EXTENDS SessionResources, TLAPS

USE DEF world, daemon, locals, config, Configured

\* What is in scope follows from where run is, until it returns.
HeldInv ==
  /\ pc \in {"idle", "installed", "output", "create", "configure", "restore",
             "connect"} => held = {}
  /\ pc \in {"discover", "position", "finish"} => held = {"pending"}
  /\ pc = "forward" => held = {"output"}
  /\ pc \in {"launch", "capture", "sink"} => held = {"output", "forward"}
  /\ pc = "audio" => held = {"output", "forward", "sink"}
  /\ pc \in {"sender", "stream"} => {"output", "forward"} \subseteq held
  /\ pc \in {"sender", "stream", "return"} => "pending" \notin held
  /\ "pending" \in held => "output" \notin held /\ compositor = "niri"
  /\ pc \in {"create", "configure", "restore"} => compositor = "hyprland"
  /\ pc = "connect" => compositor = "niri"

\* The evdi connector is there exactly as long as its guard, and no other
\* output is ours but Hyprland's.
OutputInv ==
  /\ plugged \subseteq outputs
  /\ connector # None <=> compositor = "niri" /\ held \cap {"pending", "output"} # {}
  /\ Ours \subseteq {connector, output_name}
  /\ compositor # "hyprland" => Ours \subseteq {connector}
  /\ pc = "return" /\ "output" \notin held => Ours = {}

\* The rule and the sink.  A killed daemon leaves both.
RuleInv ==
  /\ pc = "return" /\ "forward" \notin held => forward = None
  /\ crashes = 0 /\ "forward" \notin held => forward = None
  /\ "sink" \in held => sinks > 0
  /\ sinks <= crashes + IF "sink" \in held THEN 1 ELSE 0

ResourcesInv == TypeOK /\ HeldInv /\ OutputInv /\ RuleInv

\* Before the first session there is nothing of ours.
LEMMA InvInit == Init => ResourcesInv
<1> SUFFICES ASSUME Init PROVE ResourcesInv  OBVIOUS
<1>1. 0 \in 0..MaxCrashes  BY ResourcesAssumption
<1>2. TypeOK  BY <1>1, ResourcesAssumption DEF Init, TypeOK, Phases, Configured
<1>3. HeldInv  BY DEF Init, HeldInv
<1>4. OutputInv  BY DEF Init, OutputInv, Ours
<1>5. RuleInv  BY DEF Init, RuleInv
<1> QED  BY <1>2, <1>3, <1>4, <1>5 DEF ResourcesInv

-----------------------------------------------------------------------------
(* The set-up.                                                             *)

\* The steps that only move on, and those that touch no more than the layout,
\* the app, or what the set-up remembers.
Passing ==
  \/ Installed \/ SaveStates \/ ConfigureOutput \/ ListBefore \/ DiscoverOutput
  \/ PositionOutput \/ Launch \/ StartCapture \/ NoAudio \/ StartAudio
  \/ ConnectSender \/ StreamEnds \/ Fails
  \/ \E s \in Serials : Begin(s)

\* They leave every resource alone.
LEMMA PassingStep == ResourcesInv /\ Passing => ResourcesInv'
<1> SUFFICES ASSUME ResourcesInv, Passing PROVE ResourcesInv'  OBVIOUS
<1> USE DEF ResourcesInv
<1> DEFINE Same == UNCHANGED <<plugged, outputs, connector, forward, sinks, held, crashes, config>>
<1>1. Same
  BY DEF Passing, Installed, SaveStates, ConfigureOutput, ListBefore, DiscoverOutput,
     PositionOutput, Launch, StartCapture, NoAudio, StartAudio, ConnectSender,
     StreamEnds, Fails, Begin, GoTo
<1>2. TypeOK'
  <2>1. moved' \subseteq plugged
    BY DEF Passing, Installed, SaveStates, ConfigureOutput, ListBefore, DiscoverOutput,
       PositionOutput, Launch, StartCapture, NoAudio, StartAudio, ConnectSender,
       StreamEnds, Fails, Begin, Rearranged, TypeOK
  <2>2. pc' \in Phases /\ serial' \in Serials \cup {None} /\ app' \in BOOLEAN
    BY DEF Passing, Installed, SaveStates, ConfigureOutput, ListBefore, DiscoverOutput,
       PositionOutput, Launch, StartCapture, NoAudio, StartAudio, ConnectSender,
       StreamEnds, Fails, Begin, GoTo, TypeOK, Phases
  <2>3. /\ saved' \subseteq Monitors
        /\ before' \subseteq Monitors \cup Connectors \cup Virtual
        /\ discovered' \in Monitors \cup Connectors \cup Virtual \cup {None}
        /\ buffer' \in {"none", "good", "stale"}
    BY DEF Passing, Installed, SaveStates, ConfigureOutput, ListBefore, DiscoverOutput,
       PositionOutput, Launch, StartCapture, NoAudio, StartAudio, ConnectSender,
       StreamEnds, Fails, Begin, TypeOK
  <2> QED  BY <1>1, <2>1, <2>2, <2>3 DEF TypeOK
<1>3. HeldInv'
  BY <1>1 DEF Passing, Installed, SaveStates, ConfigureOutput, ListBefore, DiscoverOutput,
     PositionOutput, Launch, StartCapture, NoAudio, StartAudio, ConnectSender,
     StreamEnds, Fails, Begin, GoTo, HeldInv
<1>4. pc' = "return" => pc = "stream"
  BY DEF Passing, Installed, SaveStates, ConfigureOutput, ListBefore, DiscoverOutput,
     PositionOutput, Launch, StartCapture, NoAudio, StartAudio, ConnectSender,
     StreamEnds, Fails, Begin, GoTo
<1>5. OutputInv'  BY <1>1, <1>4 DEF OutputInv, HeldInv, Ours
<1>6. RuleInv'  BY <1>1, <1>4 DEF RuleInv, HeldInv
<1> QED  BY <1>2, <1>3, <1>5, <1>6

\* labwc's output is the user's, and the guard takes nothing down.
LEMMA AttachStep == ResourcesInv /\ AttachOutput => ResourcesInv'
<1> SUFFICES ASSUME ResourcesInv, AttachOutput PROVE ResourcesInv'  OBVIOUS
<1> USE DEF ResourcesInv, AttachOutput, GoTo
<1>1. TypeOK'  BY DEF TypeOK, Phases, Guards
<1>2. HeldInv'  BY DEF HeldInv
<1>3. OutputInv'  BY DEF HeldInv, OutputInv, Ours
<1>4. RuleInv'  BY DEF HeldInv, RuleInv
<1> QED  BY <1>1, <1>2, <1>3, <1>4

\* Hyprland's output is there before it has a guard.
LEMMA CreateStep == ResourcesInv /\ CreateOutput => ResourcesInv'
<1> SUFFICES ASSUME ResourcesInv, CreateOutput PROVE ResourcesInv'  OBVIOUS
<1> USE DEF ResourcesInv, CreateOutput, GoTo
<1>1. TypeOK'  BY DEF TypeOK, Phases, Rearranged
<1>2. HeldInv'  BY DEF HeldInv
<1>3. OutputInv'  BY DEF HeldInv, OutputInv, Ours
<1>4. RuleInv'  BY DEF HeldInv, RuleInv
<1> QED  BY <1>1, <1>2, <1>3, <1>4

LEMMA RestoreStep == ResourcesInv /\ RestoreStates => ResourcesInv'
<1> SUFFICES ASSUME ResourcesInv, RestoreStates PROVE ResourcesInv'  OBVIOUS
<1> USE DEF ResourcesInv, RestoreStates, GoTo
<1>1. TypeOK'  BY DEF TypeOK, Phases, Guards
<1>2. HeldInv'  BY DEF HeldInv
<1>3. OutputInv'  BY DEF HeldInv, OutputInv, Ours
<1>4. RuleInv'  BY DEF HeldInv, RuleInv
<1> QED  BY <1>1, <1>2, <1>3, <1>4

\* The evdi output has a guard as soon as it exists.
LEMMA ConnectStep == ResourcesInv /\ ConnectEvdi => ResourcesInv'
<1> SUFFICES ASSUME ResourcesInv, ConnectEvdi PROVE ResourcesInv'  OBVIOUS
<1> USE DEF ResourcesInv, ConnectEvdi, GoTo
<1>1. TypeOK'  BY DEF TypeOK, Phases, Guards
<1>2. HeldInv'  BY DEF HeldInv
<1>3. connector' # None  BY ResourcesAssumption
<1>4. compositor = "niri" /\ connector = None  BY DEF HeldInv, OutputInv
<1>5. Ours = {}  BY <1>4, ResourcesAssumption DEF OutputInv, Ours, TypeOK
<1>6. OutputInv'  BY <1>3, <1>4, <1>5 DEF HeldInv, OutputInv, Ours
<1>7. RuleInv'  BY DEF HeldInv, RuleInv
<1> QED  BY <1>1, <1>2, <1>6, <1>7

\* finish hands the evdi output from one guard to the next.
LEMMA FinishStep == ResourcesInv /\ Finish => ResourcesInv'
<1> SUFFICES ASSUME ResourcesInv, Finish PROVE ResourcesInv'  OBVIOUS
<1> USE DEF ResourcesInv, Finish, GoTo
<1>1. TypeOK'  BY DEF TypeOK, Phases, Guards
<1>2. HeldInv'  BY DEF HeldInv
<1>3. OutputInv'  BY DEF HeldInv, OutputInv, Ours
<1>4. RuleInv'  BY DEF HeldInv, RuleInv
<1> QED  BY <1>1, <1>2, <1>3, <1>4

LEMMA ForwardStep == ResourcesInv /\ NewForward => ResourcesInv'
<1> SUFFICES ASSUME ResourcesInv, NewForward PROVE ResourcesInv'  OBVIOUS
<1> USE DEF ResourcesInv, NewForward, GoTo
<1>1. TypeOK'  BY DEF TypeOK, Phases, Guards
<1>2. HeldInv'  BY DEF HeldInv
<1>3. OutputInv'  BY DEF HeldInv, OutputInv, Ours
<1>4. RuleInv'  BY DEF HeldInv, RuleInv
<1> QED  BY <1>1, <1>2, <1>3, <1>4

\* The sink and its guard come and go together.
LEMMA SinkStep == ResourcesInv /\ (CreateSink \/ AudioFails) => ResourcesInv'
<1> SUFFICES ASSUME ResourcesInv, CreateSink \/ AudioFails PROVE ResourcesInv'  OBVIOUS
<1> USE DEF ResourcesInv, CreateSink, AudioFails, GoTo
<1>1. TypeOK'
  <2>1. sinks' \in Nat  BY DEF TypeOK, HeldInv, RuleInv
  <2> QED  BY <2>1 DEF TypeOK, Phases, Guards
<1>2. HeldInv'  BY DEF HeldInv
<1>3. OutputInv'  BY DEF HeldInv, OutputInv, Ours
<1>4. RuleInv'  BY DEF HeldInv, RuleInv, TypeOK
<1> QED  BY <1>1, <1>2, <1>3, <1>4

-----------------------------------------------------------------------------
(* The ways out.                                                           *)

\* No guard takes down what is not its own.
LEMMA DropStep == ResourcesInv /\ DropGuard => ResourcesInv'
<1> SUFFICES ASSUME ResourcesInv, DropGuard PROVE ResourcesInv'  OBVIOUS
<1> USE DEF ResourcesInv
<1>1. PICK i \in DOMAIN DropOrder : /\ DropOrder[i] \in held
                                    /\ Release(DropOrder[i])
                                    /\ held' = held \ {DropOrder[i]}
  BY DEF DropGuard
<1>2. PICK g \in held : Release(g) /\ held' = held \ {g}  BY <1>1
<1>3. /\ UNCHANGED <<plugged, moved, app, pc, serial, saved, before, discovered, crashes,
                    config>>
      /\ pc \in {"return", "unwind"}
  BY DEF DropGuard
<1>4. HeldInv'  BY <1>2, <1>3 DEF HeldInv
<1>5. CASE g = "forward"
  <2>1. forward' = None /\ UNCHANGED <<outputs, connector, buffer, sinks>>
    BY <1>2, <1>5 DEF Release
  <2>2. TypeOK'  BY <1>2, <1>3, <2>1 DEF TypeOK
  <2>3. OutputInv'  BY <1>2, <1>3, <1>5, <2>1 DEF OutputInv, Ours
  <2>4. RuleInv'  BY <1>2, <1>3, <1>5, <2>1 DEF RuleInv
  <2> QED  BY <1>4, <2>2, <2>3, <2>4
<1>6. CASE g = "sink"
  <2>1. sinks' = sinks - 1 /\ UNCHANGED <<outputs, connector, buffer, forward>>
    BY <1>2, <1>6 DEF Release
  <2>2. sinks' \in Nat  BY <1>2, <1>6, <2>1 DEF TypeOK, RuleInv
  <2>3. TypeOK'  BY <1>2, <1>3, <2>1, <2>2 DEF TypeOK
  <2>4. OutputInv'  BY <1>2, <1>3, <1>6, <2>1 DEF OutputInv, Ours
  <2>5. RuleInv'  BY <1>2, <1>3, <1>6, <2>1 DEF RuleInv, TypeOK
  <2> QED  BY <1>4, <2>3, <2>4, <2>5
<1>7. CASE g \in {"pending", "output"}
  <2>1. UNCHANGED <<forward, sinks>>  BY <1>2, <1>7 DEF Release
  <2>2. RuleInv'  BY <1>2, <1>3, <1>7, <2>1 DEF RuleInv
  <2>3. CASE compositor = "niri"
    <3>1. DropEvdi  BY <1>2, <1>7, <2>3 DEF Release, DropOutput
    <3>2. TypeOK'  BY <1>2, <1>3, <2>1, <3>1 DEF TypeOK, DropEvdi
    <3>3. held' \cap {"pending", "output"} = {}  BY <1>2, <1>7 DEF HeldInv
    <3>4. plugged \subseteq outputs'
      BY <3>1, ResourcesAssumption DEF DropEvdi, OutputInv, TypeOK
    <3>5. Ours' = {}  BY <1>3, <3>1, <2>3 DEF DropEvdi, OutputInv, Ours
    <3>6. OutputInv'  BY <1>3, <3>1, <3>3, <3>4, <3>5 DEF DropEvdi, OutputInv
    <3> QED  BY <1>4, <2>2, <3>2, <3>6
  <2>4. CASE compositor # "niri"
    <3>1. g = "output" /\ connector = None
      BY <1>2, <1>7, <2>4 DEF HeldInv, OutputInv
    <3>2. UNCHANGED <<connector, buffer>>
      BY <1>2, <3>1, <2>4 DEF Release, DropOutput
    <3>3. CASE compositor = "hyprland"
      <4>1. outputs' = outputs \ {output_name}
        BY <1>2, <3>1, <3>3 DEF Release, DropOutput
      <4>2. plugged \subseteq outputs'
        BY <4>1, <3>3, ResourcesAssumption DEF OutputInv, TypeOK
      <4>3. TypeOK'  BY <1>2, <1>3, <2>1, <3>2, <4>1 DEF TypeOK
      <4>4. Ours' = {}
        BY <1>3, <3>1, <4>1, ResourcesAssumption DEF OutputInv, Ours, TypeOK
      <4>5. OutputInv'  BY <1>3, <2>4, <3>1, <3>2, <4>2, <4>4 DEF OutputInv
      <4> QED  BY <1>4, <2>2, <4>3, <4>5
    <3>4. CASE compositor # "hyprland"
      <4>1. outputs' = outputs
        BY <1>2, <3>1, <3>4, <2>4 DEF Release, DropOutput
      <4>2. TypeOK'  BY <1>2, <1>3, <2>1, <3>2, <4>1 DEF TypeOK
      <4>3. Ours' = {}
        BY <1>3, <3>1, <3>4, <4>1, ResourcesAssumption DEF OutputInv, Ours, TypeOK
      <4>4. OutputInv'  BY <1>3, <2>4, <3>1, <3>2, <4>1, <4>3 DEF OutputInv
      <4> QED  BY <1>4, <2>2, <4>2, <4>4
    <3> QED  BY <3>3, <3>4
  <2> QED  BY <2>3, <2>4
<1> QED  BY <1>2, <1>5, <1>6, <1>7 DEF TypeOK, Guards

LEMMA ReturnStep == ResourcesInv /\ Returned => ResourcesInv'
<1> SUFFICES ASSUME ResourcesInv, Returned PROVE ResourcesInv'  OBVIOUS
<1> USE DEF ResourcesInv, Returned
<1>1. TypeOK'  BY DEF TypeOK, Phases
<1>2. HeldInv'  BY DEF HeldInv
<1>3. OutputInv'  BY DEF OutputInv, Ours
<1>4. RuleInv'  BY DEF RuleInv
<1> QED  BY <1>1, <1>2, <1>3, <1>4

\* A killed daemon leaves a rule and a sink, and Hyprland's output.
LEMMA CrashStep == ResourcesInv /\ Crash => ResourcesInv'
<1> SUFFICES ASSUME ResourcesInv, Crash PROVE ResourcesInv'  OBVIOUS
<1> USE DEF ResourcesInv, Crash, DropEvdi
<1>1. crashes' \in 0..MaxCrashes /\ crashes' # 0
  BY ResourcesAssumption DEF TypeOK
<1>2. TypeOK'  BY <1>1 DEF TypeOK, Phases
<1>3. HeldInv'  BY DEF HeldInv
<1>4. plugged \subseteq outputs'  BY ResourcesAssumption DEF OutputInv, TypeOK
<1>5. OutputInv'  BY <1>4 DEF OutputInv, Ours
<1>6. RuleInv'
  <2>1. sinks' <= crashes' + 0  BY DEF RuleInv, TypeOK
  <2> QED  BY <1>1, <2>1 DEF RuleInv
<1> QED  BY <1>2, <1>3, <1>5, <1>6

-----------------------------------------------------------------------------
(* The user, and every step together.                                      *)

\* The user's monitors are never among ours.
LEMMA UserStep == ResourcesInv /\ User => ResourcesInv'
<1> SUFFICES ASSUME ResourcesInv, User PROVE ResourcesInv'  OBVIOUS
<1> USE DEF ResourcesInv
<1>1. CASE TabletGone
  BY <1>1 DEF TabletGone, TypeOK, HeldInv, OutputInv, Ours, RuleInv
<1>2. CASE \E m \in Monitors : PlugMonitor(m) \/ UnplugMonitor(m)
  <2>1. PICK m \in Monitors : PlugMonitor(m) \/ UnplugMonitor(m)  BY <1>2
  <2>2. UNCHANGED <<connector, forward, sinks, app, pc, serial, held, saved,
                    before, discovered, buffer, crashes, config>>
    BY <2>1 DEF PlugMonitor, UnplugMonitor
  <2>3. /\ plugged' \subseteq Monitors /\ moved' \subseteq plugged'
        /\ outputs' \subseteq Monitors \cup Connectors \cup Virtual
        /\ plugged' \subseteq outputs' /\ outputs' \ plugged' \subseteq Ours
    BY <2>1 DEF PlugMonitor, UnplugMonitor, TypeOK, OutputInv, Ours
  <2>4. TypeOK'  BY <2>2, <2>3 DEF TypeOK
  <2>5. HeldInv'  BY <2>2 DEF HeldInv
  <2>6. OutputInv'  BY <2>2, <2>3 DEF OutputInv, Ours
  <2>7. RuleInv'  BY <2>2 DEF RuleInv
  <2> QED  BY <2>4, <2>5, <2>6, <2>7
<1> QED  BY <1>1, <1>2 DEF User

LEMMA InvStep == ResourcesInv /\ [Next]_vars => ResourcesInv'
<1> SUFFICES ASSUME ResourcesInv, [Next]_vars PROVE ResourcesInv'  OBVIOUS
<1>1. CASE UNCHANGED vars
  BY <1>1 DEF vars, ResourcesInv, TypeOK, HeldInv, OutputInv, Ours, RuleInv
<1>2. CASE Next
  BY <1>2, PassingStep, AttachStep, CreateStep, RestoreStep, ConnectStep, FinishStep,
     ForwardStep, SinkStep, DropStep, ReturnStep, CrashStep, UserStep
     DEF Next, SetUp, MakeOutput, TakeDown, Passing
<1> QED  BY <1>1, <1>2

LEMMA InvHolds == Spec => []ResourcesInv
<1> QED  BY InvInit, InvStep, PTL DEF Spec

\* Every variable stays in its domain; no sink is removed that is not there.
THEOREM TypeCorrect == Spec => []TypeOK
<1>1. ResourcesInv => TypeOK  BY DEF ResourcesInv
<1> QED  BY <1>1, InvHolds, PTL

\* On labwc and niri a session leaves nothing, whichever step of it fails, until
\* a daemon is killed (session.rs:195-196).
THEOREM NothingIsLeft == Spec => []NothingLeft
<1>1. ResourcesInv => NothingLeft
  <2> SUFFICES ASSUME ResourcesInv, pc = "idle", crashes = 0, compositor # "hyprland"
               PROVE  Ours = {} /\ forward = None /\ sinks = 0
    BY DEF NothingLeft, NothingOurs
  <2>1. held = {}  BY DEF ResourcesInv, HeldInv
  <2>2. connector = None  BY <2>1 DEF ResourcesInv, OutputInv
  <2>3. Ours = {}
    BY <2>2, ResourcesAssumption DEF ResourcesInv, OutputInv, TypeOK, Ours
  <2>4. sinks \in Nat /\ sinks <= 0 + 0  BY <2>1 DEF ResourcesInv, RuleInv, TypeOK
  <2> QED  BY <2>1, <2>3, <2>4 DEF ResourcesInv, RuleInv
<1> QED  BY <1>1, InvHolds, PTL

\* Whatever killed daemons and failed set-ups left of outputs and rules, a session that
\* streamed takes down with its own; of sinks each kill has left one at the most
\* (output.rs:394, adb.rs:75-78, audio/src/lib.rs:336).
THEOREM LeftoversHealed == Spec => []Healed
<1>1. ResourcesInv => Healed
  <2> SUFFICES ASSUME ResourcesInv, pc = "return", held = {}
               PROVE  Ours = {} /\ forward = None /\ sinks <= crashes
    BY DEF Healed
  <2>1. sinks <= crashes  BY DEF ResourcesInv, RuleInv, TypeOK
  <2> QED  BY <2>1 DEF ResourcesInv, OutputInv, RuleInv
<1> QED  BY <1>1, InvHolds, PTL

\* No output of the user's is ever removed.
THEOREM MonitorsSurvive == Spec => []MonitorsKept
<1>1. ResourcesInv => MonitorsKept  BY DEF ResourcesInv, OutputInv, MonitorsKept
<1> QED  BY <1>1, InvHolds, PTL

-----------------------------------------------------------------------------
(* The buffer, the port and the layout of a session.                       *)

\* A frame buffer comes with the output's guard and goes with it, its mapping
\* good all the time: nothing sets the mode between the two.
BufferInv ==
  compositor = "niri" => buffer = IF "output" \in held THEN "good" ELSE "none"

\* While the rule has its guard the port leads nowhere else.
PortInv == "forward" \in held => forward \in {None, serial}

\* Only Hyprland's monitors are saved, and not before there is a session; once
\* they are restored nothing rearranges them.
LayoutInv ==
  /\ pc \in {"idle", "installed", "output"} \/ compositor # "hyprland" => saved = {}
  /\ "output" \in held => saved \cap moved = {}

OwnInv == BufferInv /\ PortInv /\ LayoutInv

LEMMA OwnInit == Init => OwnInv
<1> QED  BY DEF Init, OwnInv, BufferInv, PortInv, LayoutInv

\* The steps that touch none of buffer, forward, saved and moved.
Unrelated ==
  \/ \E s \in Serials : Begin(s)
  \/ Installed \/ ListBefore \/ ConnectEvdi \/ DiscoverOutput
  \/ Launch \/ StartCapture \/ CreateSink \/ NoAudio \/ StartAudio \/ AudioFails
  \/ ConnectSender \/ Fails \/ StreamEnds

LEMMA OwnUnrelated == ResourcesInv /\ OwnInv /\ Unrelated => OwnInv'
<1> SUFFICES ASSUME ResourcesInv, OwnInv, Unrelated PROVE OwnInv'  OBVIOUS
<1>1. /\ UNCHANGED <<buffer, forward, saved, moved, compositor>>
      /\ "output" \in held' <=> "output" \in held
      /\ "forward" \in held' <=> "forward" \in held
  BY DEF Unrelated, Begin, Installed, ListBefore, ConnectEvdi, DiscoverOutput, Launch,
     StartCapture, CreateSink, NoAudio, StartAudio, AudioFails, ConnectSender, Fails,
     StreamEnds, GoTo
<1>2. "forward" \in held => serial' = serial
  BY DEF Unrelated, Begin, Installed, ListBefore, ConnectEvdi, DiscoverOutput, Launch,
     StartCapture, CreateSink, NoAudio, StartAudio, AudioFails, ConnectSender, Fails,
     StreamEnds, GoTo, ResourcesInv, HeldInv
<1>3. pc' \in {"idle", "installed", "output"} => pc \in {"idle", "installed", "output"}
  BY DEF Unrelated, Begin, Installed, ListBefore, ConnectEvdi, DiscoverOutput, Launch,
     StartCapture, CreateSink, NoAudio, StartAudio, AudioFails, ConnectSender, Fails,
     StreamEnds, GoTo
<1> QED  BY <1>1, <1>2, <1>3 DEF OwnInv, BufferInv, PortInv, LayoutInv

\* The steps that make the output: the layout is restored with the guard, and
\* niri's buffer registered with it.
LEMMA OwnOutput ==
  ResourcesInv /\ OwnInv
    /\ (\/ AttachOutput \/ SaveStates \/ CreateOutput \/ ConfigureOutput \/ RestoreStates
        \/ PositionOutput \/ Finish \/ NewForward)
  => OwnInv'
<1> USE DEF GoTo, OwnInv, BufferInv, PortInv, LayoutInv
<1> SUFFICES ASSUME ResourcesInv, OwnInv PROVE
      (\/ AttachOutput \/ SaveStates \/ CreateOutput \/ ConfigureOutput \/ RestoreStates
       \/ PositionOutput \/ Finish \/ NewForward) => OwnInv'
  OBVIOUS
<1>1. ASSUME AttachOutput PROVE OwnInv'
  BY <1>1 DEF AttachOutput
<1>2. ASSUME SaveStates \/ CreateOutput \/ ConfigureOutput PROVE OwnInv'
  BY <1>2 DEF SaveStates, CreateOutput, ConfigureOutput, ResourcesInv, HeldInv
<1>3. ASSUME RestoreStates PROVE OwnInv'
  BY <1>3 DEF RestoreStates, ResourcesInv, HeldInv
<1>4. ASSUME PositionOutput PROVE OwnInv'
  BY <1>4 DEF PositionOutput, ResourcesInv, HeldInv
<1>5. ASSUME Finish PROVE OwnInv'
  BY <1>5 DEF Finish, ResourcesInv, HeldInv
<1>6. ASSUME NewForward PROVE OwnInv'
  BY <1>6 DEF NewForward
<1> QED  BY <1>1, <1>2, <1>3, <1>4, <1>5, <1>6

\* A guard that goes takes its own part along and nothing else.
LEMMA OwnDrop == ResourcesInv /\ OwnInv /\ DropGuard => OwnInv'
<1> SUFFICES ASSUME ResourcesInv, OwnInv, DropGuard PROVE OwnInv'  OBVIOUS
<1>1. PICK g \in held : Release(g) /\ held' = held \ {g}
  BY DEF DropGuard
<1>2. UNCHANGED <<moved, saved, pc, serial, compositor>> /\ pc \in {"return", "unwind"}
  BY DEF DropGuard
<1>3. LayoutInv'  BY <1>1, <1>2 DEF OwnInv, LayoutInv
<1>4. PortInv'  BY <1>1, <1>2 DEF OwnInv, PortInv, Release
<1>5. BufferInv'
  <2> SUFFICES ASSUME compositor = "niri"
               PROVE  buffer' = IF "output" \in held' THEN "good" ELSE "none"
    BY <1>2 DEF BufferInv
  <2>1. CASE g \in {"pending", "output"}
    <3>1. buffer' = "none"  BY <1>1, <2>1 DEF Release, DropOutput, DropEvdi
    <3>2. "output" \notin held'  BY <1>1, <2>1 DEF ResourcesInv, HeldInv
    <3> QED  BY <3>1, <3>2
  <2>2. CASE g \notin {"pending", "output"}
    BY <1>1, <2>2 DEF Release, OwnInv, BufferInv
  <2> QED  BY <2>1, <2>2
<1> QED  BY <1>3, <1>4, <1>5 DEF OwnInv

LEMMA OwnStep == ResourcesInv /\ OwnInv /\ [Next]_vars => OwnInv'
<1> SUFFICES ASSUME ResourcesInv, OwnInv, [Next]_vars PROVE OwnInv'  OBVIOUS
<1>1. CASE UNCHANGED vars  BY <1>1 DEF vars, OwnInv, BufferInv, PortInv, LayoutInv
<1>2. CASE Returned
  BY <1>2 DEF Returned, OwnInv, BufferInv, PortInv, LayoutInv
<1>3. CASE Crash
  BY <1>3 DEF Crash, DropEvdi, OwnInv, BufferInv, PortInv, LayoutInv
<1>4. CASE TabletGone
  BY <1>4 DEF TabletGone, OwnInv, BufferInv, PortInv, LayoutInv
<1>5. CASE \E m \in Monitors : PlugMonitor(m) \/ UnplugMonitor(m)
  <2>1. /\ UNCHANGED <<forward, buffer, saved, held, serial, pc, compositor>>
        /\ moved' \subseteq moved
    BY <1>5 DEF PlugMonitor, UnplugMonitor
  <2> QED  BY <2>1 DEF OwnInv, BufferInv, PortInv, LayoutInv
<1> QED
  BY <1>1, <1>2, <1>3, <1>4, <1>5, OwnUnrelated, OwnOutput, OwnDrop
     DEF Next, SetUp, MakeOutput, TakeDown, User, Unrelated

LEMMA OwnHolds == Spec => []OwnInv
<1> QED  BY OwnInit, OwnStep, InvHolds, PTL DEF Spec

\* Once the output is there every monitor is where the user had it, and stays
\* there for the session (output.rs:426).
THEOREM LayoutIsRestored == Spec => []LayoutRestored
<1>1. OwnInv => LayoutRestored  BY DEF OwnInv, LayoutInv, LayoutRestored
<1> QED  BY <1>1, OwnHolds, PTL

\* A session that streams reads its own frames through a good mapping and
\* sends them through its own port (output.rs:377-382, adb.rs:75-78).
THEOREM StreamsItsOwn == Spec => []StreamsOwn
<1>1. ResourcesInv /\ OwnInv => StreamsOwn
  BY DEF ResourcesInv, HeldInv, OwnInv, BufferInv, PortInv, StreamsOwn
<1> QED  BY <1>1, InvHolds, OwnHolds, PTL
=============================================================================
