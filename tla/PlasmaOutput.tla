---------------------------- MODULE PlasmaOutput ----------------------------
(***************************************************************************)
(* KWin's virtual output (crates/capture/src/plasma/mod.rs) as             *)
(* plasma-probe uses it: an output is asked for, or an existing one        *)
(* mirrored, the answer awaited, the output KWin forgets it has made is    *)
(* recovered and the stream is held until KWin closes it or time is up.    *)
(* KWin is external: its answers are those the comments and the document   *)
(* docs/06-plasma-backend.md report.                                       *)
(***************************************************************************)
EXTENDS Naturals, Sequences

CONSTANTS
  MaxWire,  \* bound on what KWin has sent and nobody has read
  NoStream

\* The virtual output's own stream, and that of an output that exists.
Streams == {"virtual", "plain"}

ASSUME PlasmaAssumption == MaxWire \in Nat /\ MaxWire > 2 /\ NoStream \notin Streams

VARIABLES
  pc,
  asked,    \* the stream asked for last
  node,     \* State: the stream the node belongs to, ...
  failed,   \* ... "no", KWin's orphaned output or another refusal, ...
  closed,   \* ... and whether a stream was closed
  heard,    \* settle has dispatched something that settled nothing
  wire,     \* what KWin has sent and nobody has read; one entry a flush
  kwin,     \* what became of each stream
  monitor,  \* the virtual output, in KWin
  fault     \* history: something but KWin's answer went wrong

State == <<node, failed, closed>>
vars == <<pc, asked, State, heard, wire, kwin, monitor, fault>>

Says(what, s) ==
  [node |-> IF what = "created" THEN s ELSE NoStream,
   failed |-> IF what \in {"orphaned", "refused"} THEN what ELSE "no",
   closed |-> what = "closed"]

-----------------------------------------------------------------------------
(* KWin.                                                                   *)

Send(entry) == Len(wire) < MaxWire /\ wire' = Append(wire, entry)

\* A virtual output may be made disabled; KWin then does not find it itself and
\* refuses the stream, which it may close in the same breath.
KwinAnswers(s) ==
  /\ kwin[s] = "asked"
  /\ \/ /\ s = "plain" \/ monitor' = "enabled"
        /\ kwin' = [kwin EXCEPT ![s] = "live"]
        /\ Send(Says("created", s))
     \/ /\ kwin' = [kwin EXCEPT ![s] = "refused"]
        /\ Send(Says("refused", s))
     \/ /\ s = "virtual" /\ monitor' = "disabled"
        /\ kwin' = [kwin EXCEPT ![s] = "orphaned"]
        /\ \E also \in BOOLEAN : Send([Says("orphaned", s) EXCEPT !.closed = also])
  /\ s = "plain" \/ kwin'[s] = "refused" => UNCHANGED monitor
  /\ UNCHANGED <<pc, asked, State, heard, fault>>

\* The output is removed from KWin's side.
KwinCloses(s) ==
  /\ kwin[s] \in {"asked", "live"}
  /\ kwin' = [kwin EXCEPT ![s] = "closed"]
  /\ monitor' = "none"
  /\ Send(Says("closed", s))
  /\ UNCHANGED <<pc, asked, State, heard, fault>>

\* A global comes or goes; what is left of MaxWire is for an answer and a close.
KwinAdvertises ==
  /\ pc \in {"settle", "resettle"} /\ Len(wire) < MaxWire - 2
  /\ Send(Says("nothing", NoStream))
  /\ UNCHANGED <<pc, asked, State, heard, kwin, monitor, fault>>

-----------------------------------------------------------------------------
(* The client.                                                             *)

Ask(s) == asked' = s /\ kwin' = [kwin EXCEPT ![s] = "asked"] /\ heard' = FALSE

Fault == pc' = "error" /\ fault' = TRUE /\ UNCHANGED <<asked, State, heard, wire, kwin, monitor>>

\* create and mirror up to the request; the protocol may not be granted.
Create ==
  /\ pc = "start"
  /\ pc' = "settle"
  /\ Ask("virtual")
  /\ UNCHANGED <<State, wire, monitor, fault>>

Mirror ==
  /\ pc = "start"
  /\ pc' = "resettle"
  /\ Ask("plain")
  /\ UNCHANGED <<State, wire, monitor, fault>>

NotGranted == pc = "start" /\ Fault

\* Mutant of Settled: a stream closed before it was created settles nothing.
SettledOpen == node # NoStream \/ failed # "no"

Settled == node # NoStream \/ failed # "no" \/ closed

\* The handlers of the events read, in the order they were sent: the latest to say
\* something of a field sets it.
Handle(entries) ==
  LET Set(new, old, said, none) ==
        \/ new = old /\ \A k \in DOMAIN said : said[k] = none
        \/ \E k \in DOMAIN said :
             /\ new = said[k] /\ said[k] # none
             /\ \A later \in DOMAIN said : later > k => said[later] = none
  IN /\ Set(node', node, [k \in DOMAIN entries |-> entries[k].node], NoStream)
     /\ Set(failed', failed, [k \in DOMAIN entries |-> entries[k].failed], "no")
     /\ closed' = (closed \/ \E k \in DOMAIN entries : entries[k].closed)

\* blocking_dispatch: what has arrived is read and handled at once.
Dispatch ==
  /\ pc \in {"settle", "resettle"} /\ ~Settled
  /\ \E n \in 1..Len(wire) :
       /\ Handle(SubSeq(wire, 1, n))
       /\ wire' = SubSeq(wire, n + 1, Len(wire))
  /\ heard' = TRUE
  /\ UNCHANGED <<pc, asked, kwin, monitor, fault>>

\* The deadline is looked at between dispatches only.
SettleTimesOut == pc \in {"settle", "resettle"} /\ ~Settled /\ heard /\ Fault

\* The connection is lost under a call that reads from it.
Disconnected == pc \in {"settle", "resettle", "find"} /\ Fault

Hold ==
  /\ pc \in {"settle", "resettle"} /\ Settled
  /\ failed = "no" /\ ~closed
  /\ pc' = "held"
  /\ UNCHANGED <<asked, State, heard, wire, kwin, monitor, fault>>

\* A refusal or a close fails create, but for the one KWin gives by mistake.
Refused ==
  /\ pc \in {"settle", "resettle"} /\ Settled
  /\ failed # "no" \/ closed
  /\ pc' = IF pc = "settle" /\ failed = "orphaned" THEN "enable" ELSE "error"
  /\ UNCHANGED <<asked, State, heard, wire, kwin, monitor, fault>>

\* kscreen-doctor switches the output on; it may be missing, or fail.
Enable ==
  /\ pc = "enable"
  /\ pc' = "find"
  /\ monitor' = IF monitor = "disabled" THEN "enabled" ELSE monitor
  /\ UNCHANGED <<asked, State, heard, wire, kwin, fault>>

EnableFails == pc = "enable" /\ Fault

\* Mutant of Recover: the State the two streams share is not cleared of all.
RecoverClosed ==
  /\ pc = "find" /\ monitor = "enabled"
  /\ wire' = <<>>
  /\ failed' = "no" /\ UNCHANGED <<node, closed>>
  /\ Ask("plain")
  /\ pc' = "resettle"
  /\ UNCHANGED <<monitor, fault>>

\* The round trips of find_output read all there is.  The output is found, the
\* State is cleared and the output streamed like any other.
Recover ==
  /\ pc = "find" /\ monitor = "enabled"
  /\ wire' = <<>>
  /\ failed' = "no" /\ closed' = FALSE /\ UNCHANGED node
  /\ Ask("plain")
  /\ pc' = "resettle"
  /\ UNCHANGED <<monitor, fault>>

NotFound == pc = "find" /\ Fault

\* dispatch_pending handles what was read before, and reads nothing.
Poll ==
  /\ pc = "held"
  /\ pc' = IF closed THEN "removed" ELSE "held"
  /\ UNCHANGED <<asked, State, heard, wire, kwin, monitor, fault>>

\* The probe has held the output for as long as it was told to.
Drop ==
  /\ pc = "held"
  /\ pc' = "removed"
  /\ UNCHANGED <<asked, State, heard, wire, kwin, monitor, fault>>

\* The stream's close and the end of the connection take the output away.
KwinForgets ==
  /\ pc \in {"error", "removed"} /\ monitor # "none"
  /\ monitor' = "none"
  /\ UNCHANGED <<pc, asked, State, heard, wire, kwin, fault>>

Done == pc \in {"error", "removed"} /\ UNCHANGED vars

-----------------------------------------------------------------------------
Init ==
  /\ pc = "start" /\ asked = NoStream /\ heard = FALSE /\ fault = FALSE
  /\ node = NoStream /\ failed = "no" /\ closed = FALSE
  /\ wire = <<>> /\ kwin = [s \in Streams |-> "none"] /\ monitor = "none"

Client ==
  \/ Create \/ Mirror \/ NotGranted
  \/ Dispatch \/ SettleTimesOut \/ Hold \/ Refused
  \/ Enable \/ EnableFails \/ Recover \/ NotFound
  \/ Poll

Next ==
  \/ Client \/ Disconnected \/ Drop \/ Done
  \/ \E s \in Streams : KwinAnswers(s) \/ KwinCloses(s)
  \/ KwinAdvertises \/ KwinForgets

\* "KWin always answers" (plasma/mod.rs:244), and the client keeps running.
Fairness ==
  /\ WF_vars(Client)
  /\ WF_vars(\E s \in Streams : KwinAnswers(s))

Spec == Init /\ [][Next]_vars /\ Fairness

-----------------------------------------------------------------------------
\* create and mirror fail only if something went wrong with the stream they asked
\* for last: what was said of the first never counts against the recovered one
\* (plasma/mod.rs:353-381).
ErrorJustified == pc = "error" => fault \/ kwin[asked] \in {"refused", "closed"}

\* Whenever KWin answers, and whatever it answers, create ends: with the output, or
\* with an error (plasma/mod.rs:245-268).
CreateEnds == pc = "settle" ~> pc \in {"held", "error"}

\* "Returns `false` once KWin has closed the stream, which is how an externally
\* removed output is noticed" (plasma/mod.rs:468-469): a stream that KWin has
\* closed is not held for ever by who polls it.
CloseNoticed == (pc = "held" /\ kwin[asked] = "closed") ~> pc # "held"
=============================================================================
