-------------------------- MODULE SessionResources --------------------------
(***************************************************************************)
(* What a session sets up outside the daemon's process before its pacing   *)
(* loop, and takes down when session::run returns: the virtual output of   *)
(* each compositor (daemon/src/output.rs, capture/src/evdi_backend), the   *)
(* adb forward (transport/src/adb.rs) and the audio sink (audio/src/       *)
(* lib.rs).  Every step of the set-up may fail, the user plugs monitors,   *)
(* the tablet goes away, and the daemon may be killed at any point.        *)
(***************************************************************************)
EXTENDS Naturals, FiniteSets

CONSTANTS
  Monitors,      \* names of the outputs that are the user's own
  Virtual,       \* names that are nobody's, until an output is made with one
  Connectors,    \* names the kernel may give to an evdi connector
  Serials,       \* the devices that come to have sessions
  MaxCrashes,    \* bound on the times the daemon is killed
  None

ASSUME ResourcesAssumption ==
  /\ Monitors \cap Virtual = {}
  /\ Connectors \cap (Monitors \cup Virtual) = {}
  /\ None \notin Monitors \cup Virtual \cup Connectors \cup Serials
  /\ MaxCrashes \in Nat

VARIABLES
  (* outside the daemon *)
  plugged,    \* the user's monitors that are there
  moved,      \* those of them that are no longer as the user has them
  outputs,    \* every output of the compositor
  connector,  \* that of the daemon's evdi device
  forward,    \* the device that the local port leads to
  sinks,      \* null sinks loaded by the daemon
  app,        \* the tablet runs the display app
  (* the daemon; its configuration first *)
  compositor,   \* the one it runs under
  output_name,  \* the configured name of the output
  pc, serial, held,
  saved,      \* monitors as the user has them, when Hyprland's were saved
  before,     \* the outputs listed before the evdi device was connected
  discovered, \* the output it was taken to be
  buffer,     \* the evdi frame buffer, and whether its mapping is still good
  crashes

world == <<plugged, moved, outputs, connector, forward, sinks, app>>
locals == <<saved, before, discovered, buffer>>
config == <<compositor, output_name>>
daemon == <<pc, serial, held, locals, crashes, config>>
vars == <<world, daemon>>

Phases == {"idle", "installed", "output", "create", "configure", "restore",
           "connect", "discover", "position", "finish", "forward", "launch",
           "capture", "sink", "audio", "sender", "stream", "return", "unwind"}

\* Guards in scope whose Drop takes something down.
Guards == {"pending", "output", "forward", "sink"}

GoTo(from, to) == pc = from /\ pc' = to /\ UNCHANGED <<serial, crashes, config>>

\* A layout that the compositor changes on its own account.
Rearranged == \E more \in SUBSET plugged : moved' = moved \cup more

-----------------------------------------------------------------------------
(* The virtual output.                                                     *)

Begin(s) ==
  /\ pc = "idle"
  /\ pc' = "installed"
  /\ serial' = s
  /\ UNCHANGED <<world, held, locals, crashes, config>>

\* The app is installed, and the panel's size known.
Installed ==
  /\ GoTo("installed", "output")
  /\ UNCHANGED <<world, held, locals>>

\* labwc lends an output that exists.
AttachOutput ==
  /\ compositor = "labwc" /\ output_name \in outputs
  /\ GoTo("output", "forward")
  /\ held' = held \cup {"output"}
  /\ UNCHANGED <<world, locals>>

SaveStates ==
  /\ compositor = "hyprland"
  /\ GoTo("output", "create")
  /\ saved' = plugged \ moved
  /\ UNCHANGED <<world, held, before, discovered, buffer>>

\* An output of that name is used again.
CreateOutput ==
  /\ GoTo("create", "configure")
  /\ \/ output_name \in outputs /\ UNCHANGED <<outputs, moved>>
     \/ output_name \notin outputs /\ outputs' = outputs \cup {output_name} /\ Rearranged
  /\ UNCHANGED <<plugged, connector, forward, sinks, app, held, locals>>

\* Mutant of ConfigureOutput: the others are restored before the output has its
\* place.
ConfigureAfterRestore ==
  /\ GoTo("configure", "forward")
  /\ Rearranged
  /\ held' = held \cup {"output"}
  /\ UNCHANGED <<plugged, outputs, connector, forward, sinks, app, locals>>

ConfigureOutput ==
  /\ GoTo("configure", "restore")
  /\ Rearranged
  /\ UNCHANGED <<plugged, outputs, connector, forward, sinks, app, held, locals>>

\* Every other monitor gets back its saved mode and place; from here on the
\* output has a guard.
RestoreStates ==
  /\ GoTo("restore", "forward")
  /\ moved' = moved \ saved
  /\ held' = held \cup {"output"}
  /\ UNCHANGED <<plugged, outputs, connector, forward, sinks, app, locals>>

\* unwrap_or_default: a list that cannot be read is an empty one.
ListBefore ==
  /\ compositor = "niri"
  /\ GoTo("output", "connect")
  /\ before' \in {outputs, {}}
  /\ UNCHANGED <<world, held, saved, discovered, buffer>>

\* EvdiOutput::connect: niri sees a monitor plugged in, and sets its mode.
ConnectEvdi ==
  /\ GoTo("connect", "discover")
  /\ connector' \in Connectors \ outputs
  /\ outputs' = outputs \cup {connector'}
  /\ held' = held \cup {"pending"}
  /\ UNCHANGED <<plugged, moved, forward, sinks, app, locals>>

\* Mutant of DiscoverOutput: the buffer is registered before the output has its
\* place.
DiscoverAndRegister ==
  /\ GoTo("discover", "position")
  /\ discovered' \in outputs \ before
  /\ buffer' = "good"
  /\ UNCHANGED <<world, held, saved, before>>

DiscoverOutput ==
  /\ GoTo("discover", "position")
  /\ discovered' \in outputs \ before
  /\ UNCHANGED <<world, held, saved, before, buffer>>

\* The mode is set again, which takes a mapping made before away.
PositionOutput ==
  /\ GoTo("position", "finish")
  /\ discovered \in outputs
  /\ moved' = moved \cup ({discovered} \cap plugged)
  /\ buffer' = IF buffer = "good" THEN "stale" ELSE buffer
  /\ UNCHANGED <<plugged, outputs, connector, forward, sinks, app,
                 held, saved, before, discovered>>

Finish ==
  /\ GoTo("finish", "forward")
  /\ buffer' = IF buffer = "none" THEN "good" ELSE buffer
  /\ held' = (held \ {"pending"}) \cup {"output"}
  /\ UNCHANGED <<world, saved, before, discovered>>

-----------------------------------------------------------------------------
(* The rest of the set-up.                                                 *)

\* A stale rule is removed first, and adb lets a rule be replaced besides.
NewForward ==
  /\ GoTo("forward", "launch")
  /\ forward' = serial
  /\ held' = held \cup {"forward"}
  /\ UNCHANGED <<plugged, moved, outputs, connector, sinks, app, locals>>

Launch ==
  /\ GoTo("launch", "capture")
  /\ app' = TRUE
  /\ UNCHANGED <<plugged, moved, outputs, connector, forward, sinks, held, locals>>

\* The capture session and the encoder.
StartCapture ==
  /\ compositor # "niri" => output_name \in outputs
  /\ GoTo("capture", "sink")
  /\ UNCHANGED <<world, held, locals>>

CreateSink ==
  /\ GoTo("sink", "audio")
  /\ sinks' = sinks + 1
  /\ held' = held \cup {"sink"}
  /\ UNCHANGED <<plugged, moved, outputs, connector, forward, app, locals>>

\* Disabled, not available, or no sink: video only.
NoAudio ==
  /\ GoTo("sink", "sender")
  /\ UNCHANGED <<world, held, locals>>

StartAudio ==
  /\ GoTo("audio", "sender")
  /\ UNCHANGED <<world, held, locals>>

\* Mutant of AudioFails: the sink has no guard of its own, and stays.
AudioFailsKept ==
  /\ GoTo("audio", "sender")
  /\ held' = held \ {"sink"}
  /\ UNCHANGED <<world, locals>>

\* The sink goes with the match arm.
AudioFails ==
  /\ GoTo("audio", "sender")
  /\ sinks' = sinks - 1
  /\ held' = held \ {"sink"}
  /\ UNCHANGED <<plugged, moved, outputs, connector, forward, app, locals>>

ConnectSender ==
  /\ GoTo("sender", "stream")
  /\ UNCHANGED <<world, held, locals>>

-----------------------------------------------------------------------------
(* The ways out.                                                           *)

\* A step returns early: any but those of the evdi buffer and of the audio.
Fails ==
  /\ pc \notin {"idle", "finish", "sink", "audio", "stream", "return", "unwind"}
  /\ pc' = "unwind"
  /\ UNCHANGED <<world, serial, held, locals, crashes, config>>

StreamEnds ==
  /\ GoTo("stream", "return")
  /\ UNCHANGED <<world, held, locals>>

\* After the loop run drops two guards by name; otherwise they go in the
\* reverse order of their making.
DropOrder == IF pc = "return" THEN <<"forward", "output", "sink">>
                              ELSE <<"sink", "forward", "output", "pending">>

\* EvdiOutput's handle is closed, and niri sees its monitor unplugged.
DropEvdi ==
  /\ outputs' = outputs \ {connector}
  /\ connector' = None
  /\ buffer' = "none"

\* Mutant of DropOutput: labwc's output is taken for one of ours.
DropAnyOutput ==
  \/ compositor = "niri" /\ DropEvdi
  \/ compositor # "niri" /\ outputs' = outputs \ {output_name} /\ UNCHANGED <<connector, buffer>>

\* Mutant of DropOutput: an output that was there before is left alone.
DropNewOutput ==
  \/ compositor = "niri" /\ DropEvdi
  \/ compositor # "niri" /\ UNCHANGED <<outputs, connector, buffer>>

DropOutput ==
  \/ compositor = "niri" /\ DropEvdi
  \/ /\ compositor = "hyprland"
     /\ outputs' = outputs \ {output_name} /\ UNCHANGED <<connector, buffer>>
  \/ compositor = "labwc" /\ UNCHANGED <<outputs, connector, buffer>>

Release(guard) ==
  \/ guard = "pending" /\ DropEvdi /\ UNCHANGED <<forward, sinks>>
  \/ guard = "output" /\ DropOutput /\ UNCHANGED <<forward, sinks>>
  \/ /\ guard = "forward"
     /\ forward' = None /\ UNCHANGED <<outputs, connector, buffer, sinks>>
  \/ /\ guard = "sink"
     /\ sinks' = sinks - 1 /\ UNCHANGED <<outputs, connector, buffer, forward>>

DropGuard ==
  /\ pc \in {"return", "unwind"}
  /\ \E i \in DOMAIN DropOrder :
       /\ DropOrder[i] \in held
       /\ \A j \in 1..(i - 1) : DropOrder[j] \notin held
       /\ Release(DropOrder[i])
       /\ held' = held \ {DropOrder[i]}
  /\ UNCHANGED <<plugged, moved, app, pc, serial, saved, before, discovered, crashes,
                 config>>

Returned ==
  /\ pc \in {"return", "unwind"} /\ held = {}
  /\ pc' = "idle"
  /\ serial' = None
  /\ saved' = {} /\ before' = {} /\ discovered' = None
  /\ UNCHANGED <<world, held, buffer, crashes, config>>

\* The daemon is killed and started again: no Drop runs, and the kernel closes
\* what was open.
Crash ==
  /\ pc # "idle" /\ crashes < MaxCrashes
  /\ crashes' = crashes + 1
  /\ DropEvdi
  /\ pc' = "idle" /\ serial' = None /\ held' = {}
  /\ saved' = {} /\ before' = {} /\ discovered' = None
  /\ UNCHANGED <<plugged, moved, forward, sinks, app, config>>

-----------------------------------------------------------------------------
(* The user.                                                               *)

\* adb drops the rules of a device that goes.
TabletGone ==
  /\ forward # None
  /\ forward' = None
  /\ UNCHANGED <<plugged, moved, outputs, connector, sinks, app, daemon>>

PlugMonitor(m) ==
  /\ m \notin plugged
  /\ plugged' = plugged \cup {m}
  /\ outputs' = outputs \cup {m}
  /\ UNCHANGED <<moved, connector, forward, sinks, app, daemon>>

UnplugMonitor(m) ==
  /\ m \in plugged
  /\ plugged' = plugged \ {m}
  /\ outputs' = outputs \ {m}
  /\ moved' = moved \ {m}
  /\ UNCHANGED <<connector, forward, sinks, app, daemon>>

-----------------------------------------------------------------------------
\* Hyprland's output is the daemon's own, by its name; labwc's is one there is.
Configured ==
  /\ compositor \in {"hyprland", "labwc", "niri"}
  /\ output_name \in IF compositor = "labwc" THEN Monitors ELSE Virtual

Init ==
  /\ Configured
  /\ plugged \in SUBSET Monitors /\ outputs = plugged /\ moved = {}
  /\ connector = None /\ forward = None /\ sinks = 0 /\ app = FALSE
  /\ pc = "idle" /\ serial = None /\ held = {}
  /\ saved = {} /\ before = {} /\ discovered = None /\ buffer = "none"
  /\ crashes = 0

MakeOutput ==
  \/ AttachOutput
  \/ SaveStates \/ CreateOutput \/ ConfigureOutput \/ RestoreStates
  \/ ListBefore \/ ConnectEvdi \/ DiscoverOutput \/ PositionOutput \/ Finish

SetUp ==
  \/ Installed \/ MakeOutput \/ NewForward \/ Launch \/ StartCapture
  \/ CreateSink \/ NoAudio \/ StartAudio \/ AudioFails \/ ConnectSender

TakeDown == Fails \/ StreamEnds \/ DropGuard \/ Returned \/ Crash

User == TabletGone \/ \E m \in Monitors : PlugMonitor(m) \/ UnplugMonitor(m)

Next == (\E s \in Serials : Begin(s)) \/ SetUp \/ TakeDown \/ User

Spec == Init /\ [][Next]_vars

-----------------------------------------------------------------------------
(* Properties.                                                             *)

\* Every variable stays in its domain; a sink is never removed twice.
TypeOK ==
  /\ Configured
  /\ plugged \subseteq Monitors /\ moved \subseteq plugged
  /\ outputs \subseteq Monitors \cup Connectors \cup Virtual
  /\ connector \in Connectors \cup {None}
  /\ forward \in Serials \cup {None}
  /\ sinks \in Nat
  /\ app \in BOOLEAN
  /\ pc \in Phases
  /\ serial \in Serials \cup {None}
  /\ held \subseteq Guards
  /\ saved \subseteq Monitors
  /\ before \subseteq Monitors \cup Connectors \cup Virtual
  /\ discovered \in Monitors \cup Connectors \cup Virtual \cup {None}
  /\ buffer \in {"none", "good", "stale"}
  /\ crashes \in 0..MaxCrashes

\* Outputs that are not the user's.
Ours == outputs \ plugged

NothingOurs == Ours = {} /\ forward = None /\ sinks = 0

\* Whatever a session made is gone when it has returned, however it returned
\* (session.rs:195-196): where the output has a guard as soon as it exists, and
\* as long as no daemon was killed.
NothingLeft ==
  pc = "idle" /\ crashes = 0 /\ compositor # "hyprland" => NothingOurs

\* "the virtual output and the adb forward are removed when this function
\* returns, however it returns" (session.rs:195-196).
NothingLeftEver == pc = "idle" /\ crashes = 0 => NothingOurs

\* A session that has streamed takes down, with its own, the output and the rule that
\* a killed daemon or a failed set-up left: it finds the first by its name
\* (output.rs:394) and the second by its port (adb.rs:75-78).  Null sinks it does not
\* look for (audio/src/lib.rs:336): at most one stays for each time the daemon was
\* killed, and none for a session that failed.
Healed ==
  pc = "return" /\ held = {} => Ours = {} /\ forward = None /\ sinks <= crashes

\* An output of the user's is never removed.
MonitorsKept == plugged \subseteq outputs

\* Once the output is there, every monitor is as it was when the session began
\* (output.rs:426).
LayoutRestored == "output" \in held => saved \cap moved = {}

\* "finding the evdi output in wlr-randr's output list" (output.rs:374): what is
\* given the tablet's mode and place is the daemon's own output, which "isn't placed
\* yet" (output.rs:524).
EvdiFound == pc \in {"position", "finish"} => discovered \notin plugged

\* A session that streams reads its frames through a good mapping, because the buffer
\* is registered after the last step that takes one away (output.rs:377-382), and
\* its port leads to its own tablet, if anywhere, whatever an earlier session left
\* (adb.rs:75-78).
StreamsOwn ==
  pc = "stream" =>
    /\ compositor = "niri" => buffer = "good"
    /\ forward # None => forward = serial
=============================================================================
