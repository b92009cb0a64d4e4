----------------------------- MODULE TabletVideo ----------------------------
(***************************************************************************)
(* The tablet's VideoStream (VideoStream.kt) around its sessions: the      *)
(* accept loop and the process-wide socket name it binds, start and stop   *)
(* from the activity's switch, the surface that comes and goes under a     *)
(* decoder, the phase the activity shows, and what a session opens and     *)
(* must close again.  What happens to frames within one session is in      *)
(* StreamSession.                                                          *)
(***************************************************************************)

CONSTANTS
  Loops,        \* accept-loop threads that may exist at a time
  Surfaces,     \* surfaces the view may have, one after another
  SlowSurface,  \* no new surface comes between the return of a session's
                \* awaitSurface and the publication of its decoder
  None

ASSUME TabletAssumption ==
  /\ SlowSurface \in BOOLEAN
  /\ None \notin Loops \cup Surfaces

VARIABLES
  (* fields of VideoStream, shared by its threads *)
  running, phase,
  surface,       \* None when there is none or it is not valid
  codec,         \* the loop whose decoder setSurface would reach
  serverSocket,  \* the loop whose server socket stop would close
  client,        \* the loop whose client stop would close
  (* each accept loop *)
  lpc,           \* where it is
  bound,         \* the loop whose server holds the socket name
  socket,        \* its connection: "none", "open", or "shut" at either end
  target,        \* what awaitSurface gave it, and then what its decoder renders to
  (* the main thread *)
  mpc,           \* in no call, in stop, or in setSurface: at its read, at its swap
  handle,        \* the loop whose decoder that swap has in hand, None once released
  (* around them *)
  host           \* the host waits to be accepted

fields == <<running, phase, surface, codec, serverSocket, client>>
threads == <<lpc, bound, socket, target>>
main == <<mpc, handle>>
vars == <<fields, threads, main, host>>

Where == {"none", "top", "bind", "listen", "accept", "accepted", "header", "await",
          "configure", "publish", "stream", "read", "finally", "release", "ended", "failed",
          "error"}

\* A session has its surface, and setSurface does not reach its decoder yet.
Unreachable == {"configure", "publish"}

\* Loop t moves on.
Step(t, from, to) == lpc[t] = from /\ lpc' = [lpc EXCEPT ![t] = to]

-----------------------------------------------------------------------------
(* acceptLoop.                                                             *)

LoopTop(t) ==
  /\ Step(t, "top", IF running THEN "bind" ELSE "none")
  /\ UNCHANGED <<fields, bound, socket, target, main, host>>

\* A second server cannot bind the name.
Bind(t) ==
  /\ bound = None
  /\ Step(t, "bind", "listen")
  /\ bound' = t
  /\ serverSocket' = t
  /\ phase' = "waiting"
  /\ UNCHANGED <<running, surface, codec, client, socket, target, main, host>>

BindFails(t) ==
  /\ bound # None
  /\ Step(t, "bind", "error")
  /\ UNCHANGED <<fields, bound, socket, target, main, host>>

\* Leaving the inner loop closes the server.
CloseServer(t) == bound' = IF bound = t THEN None ELSE bound

Listen(t) ==
  \/ /\ running
     /\ Step(t, "listen", "accept")
     /\ UNCHANGED <<fields, bound, socket, target, main, host>>
  \/ /\ ~running
     /\ Step(t, "listen", "top")
     /\ CloseServer(t)
     /\ serverSocket' = None
     /\ UNCHANGED <<running, phase, surface, codec, client, socket, target, main, host>>

Accept(t) ==
  /\ bound = t /\ host
  /\ Step(t, "accept", "accepted")
  /\ host' = FALSE
  /\ socket' = [socket EXCEPT ![t] = "open"]
  /\ UNCHANGED <<fields, bound, target, main>>

\* stop has closed the server, which wakes its accept.
AcceptFails(t) ==
  /\ bound # t
  /\ Step(t, "accept", "error")
  /\ UNCHANGED <<fields, bound, socket, target, main, host>>

Accepted(t) ==
  /\ Step(t, "accepted", "header")
  /\ phase' = "connecting"
  /\ client' = t
  /\ UNCHANGED <<running, surface, codec, serverSocket, bound, socket, target, main, host>>

\* The exception of an accept or a bind: half a second later, once more.
LoopError(t) ==
  /\ Step(t, "error", IF running THEN "top" ELSE "none")
  /\ CloseServer(t)
  /\ serverSocket' = None
  /\ phase' = IF running THEN "disconnected" ELSE phase
  /\ UNCHANGED <<running, surface, codec, client, socket, target, main, host>>

\* After a session, failed or not.
SessionOver(t) ==
  /\ \E from \in {"ended", "failed"} : Step(t, from, "listen")
  /\ socket' = [socket EXCEPT ![t] = "none"]
  /\ client' = None
  /\ phase' = "waiting"
  /\ UNCHANGED <<running, surface, codec, serverSocket, bound, target, main, host>>

-----------------------------------------------------------------------------
(* session.                                                                *)

ReadHeader(t) ==
  /\ socket[t] = "open"
  /\ Step(t, "header", "await")
  /\ UNCHANGED <<fields, bound, socket, target, main, host>>

HeaderFails(t) ==
  /\ socket[t] = "shut"
  /\ Step(t, "header", "failed")
  /\ UNCHANGED <<fields, bound, socket, target, main, host>>

\* The surface found here is the one the decoder is configured with.
AwaitSurface(t) ==
  /\ surface # None
  /\ Step(t, "await", "configure")
  /\ target' = [target EXCEPT ![t] = surface]
  /\ UNCHANGED <<fields, bound, socket, main, host>>

\* Mutant of NoSurface: it waits until it is stopped.
NoSurfaceWaits(t) ==
  /\ surface = None /\ ~running
  /\ Step(t, "await", "failed")
  /\ UNCHANGED <<fields, bound, socket, target, main, host>>

\* Five seconds without one.
NoSurface(t) ==
  /\ surface = None
  /\ Step(t, "await", "failed")
  /\ UNCHANGED <<fields, bound, socket, target, main, host>>

\* configureCodec starts the decoder on that surface, whatever there is by now: one
\* that has gone meanwhile may fail it or not.
ConfigureCodec(t) ==
  /\ Step(t, "configure", "publish")
  /\ UNCHANGED <<fields, bound, socket, target, main, host>>

\* The surface has gone, or the decoder cannot be had.
ConfigureFails(t) ==
  /\ Step(t, "configure", "failed")
  /\ target' = [target EXCEPT ![t] = None]
  /\ UNCHANGED <<fields, bound, socket, main, host>>

\* From here on setSurface reaches the decoder.
PublishCodec(t) ==
  /\ Step(t, "publish", "stream")
  /\ codec' = t
  /\ phase' = "streaming"
  /\ UNCHANGED <<running, surface, serverSocket, client, bound, socket, target, main, host>>

StreamLoop(t) ==
  /\ Step(t, "stream", IF running THEN "read" ELSE "finally")
  /\ UNCHANGED <<fields, bound, socket, target, main, host>>

ReadFrame(t) ==
  /\ socket[t] = "open"
  /\ Step(t, "read", "stream")
  /\ UNCHANGED <<fields, bound, socket, target, main, host>>

\* The end of the stream, or the socket closed under the read.
ReadFails(t) ==
  /\ socket[t] = "shut"
  /\ Step(t, "read", "finally")
  /\ UNCHANGED <<fields, bound, socket, target, main, host>>

\* Mutant of Unpublish: the field goes on naming the decoder.
UnpublishNot(t) ==
  /\ Step(t, "finally", "release")
  /\ UNCHANGED <<fields, bound, socket, target, main, host>>

\* The end of a session takes its decoder out of the field first ...
Unpublish(t) ==
  /\ Step(t, "finally", "release")
  /\ codec' = None
  /\ UNCHANGED <<running, phase, surface, serverSocket, client, bound, socket, target,
                 main, host>>

\* ... and then stops and releases it, under whoever has it in hand.  The session
\* returns, or throws what ended it.
ReleaseCodec(t) ==
  /\ \E to \in {"ended", "failed"} : Step(t, "release", to)
  /\ target' = [target EXCEPT ![t] = None]
  /\ handle' = IF handle = t THEN None ELSE handle
  /\ UNCHANGED <<fields, bound, socket, mpc, host>>

-----------------------------------------------------------------------------
(* The main thread: the switch and the surface.                            *)

Start ==
  /\ mpc = "idle" /\ ~running
  /\ \E t \in Loops : Step(t, "none", "top")
  /\ running' = TRUE
  /\ UNCHANGED <<phase, surface, codec, serverSocket, client, bound, socket, target,
                 main, host>>

Stop ==
  /\ mpc = "idle" /\ running
  /\ mpc' = "stop"
  /\ running' = FALSE
  /\ UNCHANGED <<phase, surface, codec, serverSocket, client, threads, handle, host>>

\* Mutant of StopCloses: the client is left to end by itself.
StopKeepsClient ==
  /\ mpc = "stop"
  /\ mpc' = "idle"
  /\ bound' = IF bound = serverSocket THEN None ELSE bound
  /\ phase' = "disconnected"
  /\ UNCHANGED <<running, surface, codec, serverSocket, client, lpc, socket, target,
                 handle, host>>

\* The client and the server that the fields name are closed, if they name any.
StopCloses ==
  /\ mpc = "stop"
  /\ mpc' = "idle"
  /\ socket' = [t \in Loops |->
                  IF t = client /\ socket[t] = "open" THEN "shut" ELSE socket[t]]
  /\ bound' = IF bound = serverSocket THEN None ELSE bound
  /\ phase' = "disconnected"
  /\ UNCHANGED <<running, surface, codec, serverSocket, client, lpc, target, handle, host>>

\* setSurface sets the field first, ...
SetSurface(s) ==
  /\ mpc = "idle" /\ s # surface
  /\ SlowSurface /\ s # None => \A t \in Loops : lpc[t] \notin Unreachable
  /\ surface' = s
  /\ mpc' = IF s = None THEN "idle" ELSE "surface"
  /\ UNCHANGED <<running, phase, codec, serverSocket, client, threads, handle, host>>

\* ... then reads which decoder is published, if one is, ...
ReadCodec ==
  /\ mpc = "surface"
  /\ mpc' = IF codec = None THEN "idle" ELSE "swap"
  /\ handle' = codec
  /\ UNCHANGED <<fields, threads, host>>

\* Mutant of SwapSurface: the running decoder is not told.
SwapNothing ==
  /\ mpc = "swap"
  /\ mpc' = "idle" /\ handle' = None
  /\ UNCHANGED <<fields, threads, host>>

\* ... and swaps the surface in that one.  The call fails if it was released in
\* between, and the failure is caught.
SwapSurface ==
  /\ mpc = "swap"
  /\ mpc' = "idle" /\ handle' = None
  /\ IF handle = None THEN UNCHANGED target
                      ELSE target' = [target EXCEPT ![handle] = surface]
  /\ UNCHANGED <<fields, lpc, bound, socket, host>>

-----------------------------------------------------------------------------
(* The host.                                                               *)

HostConnects ==
  /\ bound # None /\ ~host /\ \A t \in Loops : socket[t] # "open"
  /\ host' = TRUE
  /\ UNCHANGED <<fields, threads, main>>

\* It leaves: what is accepted reads an end, what is not is refused.
HostLeaves ==
  /\ \/ host
     \/ \E t \in Loops : socket[t] = "open"
  /\ host' = FALSE
  /\ socket' = [t \in Loops |-> IF socket[t] = "open" THEN "shut" ELSE socket[t]]
  /\ UNCHANGED <<fields, lpc, bound, target, main>>

-----------------------------------------------------------------------------
Init ==
  /\ running = FALSE /\ phase = "waiting" /\ surface = None
  /\ codec = None /\ serverSocket = None /\ client = None
  /\ lpc = [t \in Loops |-> "none"]
  /\ bound = None
  /\ socket = [t \in Loops |-> "none"]
  /\ target = [t \in Loops |-> None]
  /\ mpc = "idle" /\ handle = None /\ host = FALSE

LoopStep(t) ==
  \/ LoopTop(t) \/ Bind(t) \/ BindFails(t) \/ Listen(t) \/ Accept(t) \/ AcceptFails(t)
  \/ Accepted(t) \/ LoopError(t) \/ SessionOver(t)
  \/ ReadHeader(t) \/ HeaderFails(t) \/ AwaitSurface(t) \/ NoSurface(t)
  \/ ConfigureCodec(t) \/ ConfigureFails(t) \/ PublishCodec(t)
  \/ StreamLoop(t) \/ ReadFails(t) \/ Unpublish(t) \/ ReleaseCodec(t)

MainStep == StopCloses \/ ReadCodec \/ SwapSurface

User == Start \/ Stop \/ \E s \in Surfaces \cup {None} : SetSurface(s)

Host == HostConnects \/ HostLeaves \/ \E t \in Loops : ReadFrame(t)

Next == MainStep \/ User \/ Host \/ \E t \in Loops : LoopStep(t)

\* The threads run, and the host writes its header as soon as it has connected
\* (crates/transport/src/lib.rs:21).  It need not send frames, and the user need not
\* act.
Spec ==
  /\ Init /\ [][Next]_vars
  /\ WF_vars(MainStep) /\ \A t \in Loops : WF_vars(LoopStep(t))

-----------------------------------------------------------------------------
(* Properties.                                                             *)

\* A decoder renders to the surface there is, once setSurface has returned.
Followed ==
  \A t \in Loops :
    lpc[t] \in {"stream", "read"} /\ mpc \notin {"surface", "swap"} /\ surface # None =>
      target[t] = surface

\* No second accept loop: the switch is not turned on again before the loop of
\* the time before has ended.
OneLoop == \A t, u \in Loops : lpc[t] # "none" /\ lpc[u] # "none" => t = u

\* As long as there is one accept loop, a decoder renders to the surface there
\* is, whenever it changed (VideoStream.kt:108-115), although the decoder that
\* setSurface has in hand may be released before it is told, and another started.
SurfaceFollowed == []OneLoop => []Followed

\* The field never names a decoder that is being stopped or released, not even when
\* two loops share it: a call of setSurface can reach one only if it had read the
\* field before that session ended (VideoStream.kt:123-125, 254-256).
CodecLive == \A t \in Loops : codec = t => lpc[t] \in {"stream", "read", "finally"}

\* The name is free, no connection is open, no loop runs, and the activity shows
\* no picture.
Off ==
  /\ bound = None /\ phase \notin {"connecting", "streaming"}
  /\ \A t \in Loops : lpc[t] = "none" /\ socket[t] = "none"

\* As long as there is one accept loop: turned off for good, it ends whatever a
\* silent host does (VideoStream.kt:136-145).
StopEnds == []OneLoop /\ <>[](~running) => <>[]Off

\* "Also survives being started and stopped repeatedly across the process's life"
\* (VideoStream.kt:66-68): turned off for good it ends, however the switch was
\* flicked before.
RestartsSurvived == <>[](~running) => <>[]Off

\* Left on, it listens or streams again and again: whatever ended the last
\* session, however long there is no surface, and however the switch was flicked
\* before.
Listens ==
  <>[]running =>
    []<>(\E t \in Loops : (lpc[t] = "accept" /\ bound = t) \/ lpc[t] \in {"stream", "read"})
=============================================================================
