----------------------------- MODULE DaemonLoop -----------------------------
(***************************************************************************)
(* The daemon's outer loop (crates/daemon/src/main.rs) and the device      *)
(* tracker it polls (tracker.rs): device lists that the adb server sends   *)
(* only when they change, read under a timeout, the choice of a device,    *)
(* one session after another with a backoff between them, and the tracker  *)
(* connection lost and made again.                                         *)
(***************************************************************************)
EXTENDS Naturals, Sequences

CONSTANTS
  Serials,     \* serial numbers of devices
  Lists,       \* the device lists the adb server may send
  MaxBackoff,  \* failures that still lengthen the backoff
  MaxInbox,    \* bound on the lists sent and not read
  HexLists,    \* the lists whose text begins like a hexadecimal number
  once,        \* --once: stop after the first session
  NoDevice

\* A list is a sequence of devices with their state, in the server's order.
Device == [serial : Serials, state : {"device", "unauthorized", "offline"}]

ASSUME LoopAssumption ==
  /\ Lists \subseteq Seq(Device)
  /\ <<>> \in Lists /\ HexLists \subseteq Lists
  /\ MaxBackoff \in Nat \ {0} /\ MaxInbox \in Nat \ {0}
  /\ once \in BOOLEAN
  /\ NoDevice \notin Serials

VARIABLES
  (* the adb server *)
  server,   \* whether it runs
  actual,   \* the device list it would report
  (* the tracker's connection *)
  link,     \* whether it still stands
  inbox,    \* lists sent on it and not read in full
  late,     \* the text of the last of them has not arrived
  half,     \* the length of the first of them has been read
  torn,     \* history: a timeout has come between a length and its text
  (* the daemon *)
  pc, shutdown, devices, failures,
  device    \* the device of the session

adb == <<server, actual>>
connection == <<link, inbox, late, half, torn>>
daemon == <<pc, shutdown, devices, failures, device>>
vars == <<adb, connection, daemon>>

Ready(list) == {i \in DOMAIN list : list[i].state = "device"}

-----------------------------------------------------------------------------
(* The adb server.                                                         *)

\* A list's length and text may arrive apart; an empty one has no text.
Arrives(list) == late' \in {FALSE, list # <<>>}

\* The list changes, and the tracker is told.
DevicesChange(list) ==
  /\ server = "up" /\ list # actual
  /\ Len(inbox) < MaxInbox /\ ~late
  /\ actual' = list
  /\ IF link = "up" THEN inbox' = Append(inbox, list) /\ Arrives(list)
                    ELSE UNCHANGED <<inbox, late>>
  /\ UNCHANGED <<server, link, half, torn, daemon>>

TextArrives ==
  /\ late
  /\ late' = FALSE
  /\ UNCHANGED <<adb, link, inbox, half, torn, daemon>>

\* The server is killed: what it has sent can still be read.
ServerDies ==
  /\ server = "up"
  /\ server' = "down"
  /\ link' = "lost"
  /\ UNCHANGED <<actual, inbox, late, half, torn, daemon>>

ServerStarts ==
  /\ server = "down"
  /\ server' = "up"
  /\ UNCHANGED <<actual, connection, daemon>>

-----------------------------------------------------------------------------
(* The tracker, as the loop calls it.                                      *)

\* A fresh connection is told the current list first.  connect runs "adb
\* start-server" before: that it brings the server up is ServerStarts.
Connect ==
  /\ server = "up"
  /\ link' = "up"
  /\ inbox' = <<actual>>
  /\ Arrives(actual)
  /\ half' = FALSE /\ torn' = FALSE
  /\ UNCHANGED adb

\* Whether read_exact finds what it asks for, a length or a text.
Available == inbox # <<>> /\ (half /\ late => Len(inbox) > 1)

Reading == pc \in {"length", "text"}

\* read_payload reads the length of the first list.
ReadLength ==
  /\ pc = "length" /\ ~half /\ Available
  /\ half' = TRUE
  /\ pc' = "text"
  /\ UNCHANGED <<adb, link, inbox, late, torn, shutdown, devices, failures, device>>

\* The update is complete: devices is replaced and the failures forgotten.
ReadText ==
  /\ pc = "text" /\ Available
  /\ devices' = Head(inbox)
  /\ failures' = 0
  /\ inbox' = Tail(inbox)
  /\ half' = FALSE
  /\ pc' = "pick"
  /\ UNCHANGED <<adb, link, late, torn, shutdown, device>>

\* Mutants of TimedOut: a timeout means that there is no device, or that there
\* is nothing to do before the next update.
TimedOutEmpty ==
  /\ Reading /\ ~Available /\ link = "up"
  /\ pc' = "pick"
  /\ torn' = (torn \/ pc = "text")
  /\ devices' = <<>>
  /\ UNCHANGED <<adb, link, inbox, late, half, shutdown, failures, device>>

TimedOutWaits ==
  /\ Reading /\ ~Available /\ link = "up"
  /\ pc' = "check"
  /\ torn' = (torn \/ pc = "text")
  /\ UNCHANGED <<adb, link, inbox, late, half, shutdown, devices, failures, device>>

\* Nothing, or not all of it, arrives in 500 ms.  A length that was read is
\* gone, and the list in hand stands.
TimedOut ==
  /\ Reading /\ ~Available /\ link = "up"
  /\ pc' = "pick"
  /\ torn' = (torn \/ pc = "text")
  /\ UNCHANGED <<adb, link, inbox, late, half, shutdown, devices, failures, device>>

\* A text whose length an earlier call has read is taken for a length.
Misread == pc = "length" /\ half /\ Available

\* Its first characters are hexadecimal, and all there is to read is taken for
\* part of a text that never comes.  (Serials that begin with a number small
\* enough to be reached are left out.)
TextAsLength ==
  /\ Misread /\ Head(inbox) \in HexLists /\ link = "up"
  /\ inbox' = IF late THEN <<actual>> ELSE <<>>
  /\ half' = late
  /\ pc' = "pick"
  /\ UNCHANGED <<adb, link, late, torn, shutdown, devices, failures, device>>

\* Mutant of TrackerLost: a length that is none is not an error.
TrackerLostClosed ==
  /\ Reading /\ ~Available /\ link = "lost"
  /\ devices' = <<>>
  /\ pc' = "reconnect"
  /\ UNCHANGED <<adb, connection, shutdown, failures, device>>

\* The connection is closed, or a length is none: forget the devices.
TrackerLost ==
  /\ \/ Reading /\ ~Available /\ link = "lost"
     \/ Misread /\ (Head(inbox) \in HexLists => link = "lost")
  /\ devices' = <<>>
  /\ pc' = "reconnect"
  /\ UNCHANGED <<adb, connection, shutdown, failures, device>>

\* After two seconds; a failure leaves the old tracker in place.
Reconnect ==
  /\ pc = "reconnect"
  /\ Connect
  /\ pc' = "check"
  /\ UNCHANGED <<shutdown, devices, failures, device>>

ReconnectFails ==
  /\ pc = "reconnect" /\ server = "down"
  /\ pc' = "check"
  /\ UNCHANGED <<adb, connection, shutdown, devices, failures, device>>

-----------------------------------------------------------------------------
(* The loop.                                                               *)

\* main connects the tracker before the loop, or gives up.
Start ==
  /\ pc = "start"
  /\ \/ Connect /\ pc' = "check"
     \/ server = "down" /\ pc' = "exit" /\ UNCHANGED <<adb, connection>>
  /\ UNCHANGED <<shutdown, devices, failures, device>>

\* Mutant of CheckShutdown: a signal is only looked at after a session.
CheckNothing ==
  /\ pc = "check"
  /\ pc' = "length"
  /\ UNCHANGED <<adb, connection, shutdown, devices, failures, device>>

CheckShutdown ==
  /\ pc = "check"
  /\ pc' = IF shutdown THEN "exit" ELSE "length"
  /\ UNCHANGED <<adb, connection, shutdown, devices, failures, device>>

\* The first ready device, if there is one, gets a session.
PickDevice ==
  /\ pc = "pick"
  /\ \/ /\ Ready(devices) = {}
        /\ pc' = "check" /\ UNCHANGED device
     \/ \E i \in Ready(devices) :
          /\ \A j \in Ready(devices) : i <= j
          /\ pc' = "session" /\ device' = devices[i].serial
  /\ UNCHANGED <<adb, connection, shutdown, devices, failures>>

\* consecutive_failures after one more: only its minimum with 8 is looked at.
Failed(n) == IF n < MaxBackoff THEN n + 1 ELSE n

\* What session::run returned, and the backoff it calls for.
SessionEnds(ok) ==
  /\ pc = "session"
  /\ device' = NoDevice
  /\ IF once \/ shutdown
     THEN pc' = "exit" /\ UNCHANGED failures
     ELSE /\ pc' = "backoff"
          /\ failures' = IF ok THEN 0 ELSE Failed(failures)
  /\ UNCHANGED <<adb, connection, shutdown, devices>>

BackedOff ==
  /\ pc = "backoff"
  /\ pc' = "check"
  /\ UNCHANGED <<adb, connection, shutdown, devices, failures, device>>

Shutdown ==
  /\ ~shutdown /\ pc # "exit"
  /\ shutdown' = TRUE
  /\ UNCHANGED <<adb, connection, pc, devices, failures, device>>

Exited == pc = "exit" /\ UNCHANGED vars

-----------------------------------------------------------------------------
Init ==
  /\ server \in {"up", "down"}
  /\ actual \in Lists
  /\ link = "lost" /\ inbox = <<>> /\ late = FALSE /\ half = FALSE /\ torn = FALSE
  /\ pc = "start"
  /\ shutdown = FALSE
  /\ devices = <<>>
  /\ failures = 0
  /\ device = NoDevice

\* Every step of the daemon but the end of a session.
LoopStep ==
  \/ Start \/ CheckShutdown \/ ReadLength \/ ReadText \/ TimedOut \/ TrackerLost
  \/ TextAsLength \/ Reconnect \/ ReconnectFails \/ PickDevice \/ BackedOff

Environment ==
  \/ \E list \in Lists : DevicesChange(list)
  \/ TextArrives \/ ServerDies \/ ServerStarts \/ Shutdown

Next == LoopStep \/ (\E ok \in BOOLEAN : SessionEnds(ok)) \/ Environment \/ Exited

\* What the loop waits for ends by itself: a read by its timeout, a command by
\* returning, which is taken for granted.  A session need not end.
Spec == Init /\ [][Next]_vars /\ WF_vars(LoopStep)

-----------------------------------------------------------------------------
(* Properties.                                                             *)

\* Every variable stays in its domain; the backoff is bounded.
TypeOK ==
  /\ server \in {"up", "down"}
  /\ actual \in Lists
  /\ link \in {"up", "lost"}
  /\ inbox \in Seq(Lists)
  /\ late \in BOOLEAN
  /\ half \in BOOLEAN /\ torn \in BOOLEAN
  /\ pc \in {"start", "check", "length", "text", "pick", "reconnect", "session",
             "backoff", "exit"}
  /\ shutdown \in BOOLEAN
  /\ devices \in Lists
  /\ failures \in 0..MaxBackoff
  /\ device \in Serials \cup {NoDevice}

\* The list in hand is the one the server would report, while the tracker
\* stands and there is nothing left to read.
InStep == link = "up" /\ inbox = <<>> /\ pc # "reconnect" => devices = actual

\* Unless a timeout has cut a list in two, waiting for an update never means
\* waiting for one that was lost: none is ever repeated (main.rs:151-157).
ListCurrent == ~torn => InStep

\* A timeout loses nothing: it "just means the list still stands"
\* (main.rs:163-164).
ListStands == InStep

\* A device that stays ready is given sessions for ever, after whatever ended
\* the last one: no update has to come (main.rs:151-157).
ServedAgain ==
  <>[](server = "up" /\ Ready(actual) # {} /\ ~torn) => []<>(pc \in {"session", "exit"})

\* Whatever a timeout has cut in two, a daemon that goes on reading is not out
\* of step with the server for ever: a text read as a length is an error, which
\* makes a new connection, or it swallows what would be out of step.
Resyncs ==
  <>[](server = "up" /\ ~late) /\ []<>(pc = "length") => []<>(half => pc = "text")

\* A signal ends the daemon wherever it meets the loop (main.rs:133-138),
\* provided the session it meets is not one that never returns.
StopEnds == []<>(pc # "session") => (shutdown ~> (pc = "exit"))
=============================================================================
