-------------------------- MODULE MCStreamSession --------------------------
(***************************************************************************)
(* Kinds of session for TLC.  Frames are numbered where their identity is  *)
(* in question, and losses and failures happen there; where progress and   *)
(* backlog are, frames are alike and the session has no bound.             *)
(***************************************************************************)
EXTENDS StreamSession

Few == [numbered |-> TRUE, maxLost |-> 1, maxAudio |-> 0, constantRate |-> TRUE,
        mayFail |-> TRUE]

Endless == [numbered |-> FALSE, maxLost |-> 0, maxAudio |-> 1, constantRate |-> TRUE,
            mayFail |-> FALSE]

MCSetups == {Few, Endless}

\* Wayland's capture, which waits for damage.
IdleSetups == {[Endless EXCEPT !.constantRate = FALSE]}
=============================================================================
