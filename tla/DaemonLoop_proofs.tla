------------------------- MODULE DaemonLoop_proofs --------------------------
(***************************************************************************)
(* Proofs about the daemon's outer loop: its types, with the bound on the  *)
(* backoff, and the device list it holds, which is the server's own until  *)
(* a timeout falls between the length and the text of a list.              *)
(***************************************************************************)
EXTENDS DaemonLoop, SequenceTheorems, TLAPS

\* The variables of the daemon that most steps leave alone are in their domain.
USE DEF adb, connection, daemon

-----------------------------------------------------------------------------
(* Types.                                                                  *)

\* A serial number comes from a list the server sent.
LEMMA PickedSerial ==
  ASSUME NEW list \in Lists, NEW i \in Ready(list)
  PROVE  list[i].serial \in Serials
<1>1. list \in Seq(Device)  BY LoopAssumption
<1>2. i \in DOMAIN list  BY DEF Ready
<1>3. list[i] \in Device  BY <1>1, <1>2
<1> QED  BY <1>3 DEF Device

\* The current list and nothing else waits on a fresh connection.
LEMMA ConnectTypes ==
  ASSUME TypeOK, Connect
  PROVE  /\ server' \in {"up", "down"} /\ actual' \in Lists
         /\ link' \in {"up", "lost"} /\ inbox' \in Seq(Lists)
         /\ late' \in BOOLEAN /\ half' \in BOOLEAN /\ torn' \in BOOLEAN
<1>2. late' \in BOOLEAN  BY Zenon DEF Connect, Arrives
<1>3. inbox' = <<actual>> /\ actual \in Lists  BY DEF Connect, TypeOK
<1>4. inbox' \in Seq(Lists)  BY <1>3
<1>5. /\ server' = server /\ actual' = actual /\ link' = "up" /\ half' = FALSE
      /\ torn' = FALSE
  BY DEF Connect
<1> QED  BY <1>2, <1>4, <1>5 DEF TypeOK

\* Every step of the daemon or of the adb server keeps the types.
LEMMA TypeStep ==
  ASSUME TypeOK, [Next]_vars
  PROVE  TypeOK'
<1>c. /\ <<>> \in Lists /\ MaxBackoff \in Nat \ {0}
      /\ 0 \in 0..MaxBackoff
  BY LoopAssumption
<1>1. CASE \E list \in Lists : DevicesChange(list)
  <2>1. PICK list \in Lists : DevicesChange(list)  BY <1>1
  <2>2. late' \in BOOLEAN  BY <2>1, Zenon DEF DevicesChange, Arrives, TypeOK
  <2>3. inbox' \in Seq(Lists)  BY <2>1 DEF DevicesChange, TypeOK
  <2> QED  BY <2>1, <2>2, <2>3 DEF DevicesChange, TypeOK
<1>2. CASE TextArrives  BY <1>2 DEF TextArrives, TypeOK
<1>3. CASE ServerDies  BY <1>3 DEF ServerDies, TypeOK
<1>4. CASE ServerStarts  BY <1>4 DEF ServerStarts, TypeOK
<1>5. CASE Shutdown  BY <1>5 DEF Shutdown, TypeOK
<1>6. CASE Start
  <2>1. CASE Connect  BY <2>1, <1>6, ConnectTypes DEF Start, TypeOK, Connect
  <2>2. CASE ~Connect  BY <2>2, <1>6 DEF Start, TypeOK
  <2> QED  BY <2>1, <2>2
<1>7. CASE CheckShutdown  BY <1>7 DEF CheckShutdown, TypeOK
<1>8. CASE ReadLength  BY <1>8 DEF ReadLength, TypeOK
<1>9. CASE ReadText
  <2>1. inbox \in Seq(Lists) /\ inbox # <<>>
    BY <1>9 DEF ReadText, Available, TypeOK
  <2>2. Head(inbox) \in Lists /\ Tail(inbox) \in Seq(Lists)
    BY <2>1, HeadTailProperties
  <2> QED  BY <2>2, <1>9, <1>c DEF ReadText, TypeOK
<1>10. CASE TimedOut  BY <1>10 DEF TimedOut, TypeOK
<1>11. CASE TrackerLost  BY <1>11, <1>c DEF TrackerLost, TypeOK
<1>12. CASE TextAsLength
  <2>1. inbox' \in Seq(Lists)  BY <1>12 DEF TextAsLength, TypeOK
  <2> QED  BY <2>1, <1>12 DEF TextAsLength, TypeOK
<1>13. CASE Reconnect  BY <1>13, ConnectTypes DEF Reconnect, TypeOK
<1>14. CASE ReconnectFails  BY <1>14 DEF ReconnectFails, TypeOK
<1>15. CASE PickDevice
  <2>1. device' \in Serials \cup {NoDevice}
    BY <1>15, PickedSerial DEF PickDevice, TypeOK
  <2> QED  BY <2>1, <1>15 DEF PickDevice, TypeOK
<1>16. CASE BackedOff  BY <1>16 DEF BackedOff, TypeOK
<1>17. CASE \E ok \in BOOLEAN : SessionEnds(ok)
  <2>1. PICK ok \in BOOLEAN : SessionEnds(ok)  BY <1>17
  <2>2. Failed(failures) \in 0..MaxBackoff  BY <1>c DEF Failed, TypeOK
  <2>3. failures' \in 0..MaxBackoff
    BY <2>1, <2>2, <1>c DEF SessionEnds, TypeOK
  <2> QED  BY <2>1, <2>3 DEF SessionEnds, TypeOK
<1>18. CASE UNCHANGED vars  BY <1>18 DEF vars, TypeOK
<1> QED
  BY <1>1, <1>2, <1>3, <1>4, <1>5, <1>6, <1>7, <1>8, <1>9, <1>10, <1>11, <1>12,
     <1>13, <1>14, <1>15, <1>16, <1>17, <1>18
     DEF Next, LoopStep, Environment, Exited

\* Before the first connection nothing has been read.
LEMMA TypeInit == Init => TypeOK
<1>1. <<>> \in Lists /\ 0 \in 0..MaxBackoff  BY LoopAssumption
<1>2. <<>> \in Seq(Lists)  OBVIOUS
<1> QED  BY <1>1, <1>2 DEF Init, TypeOK

\* Every variable stays in its domain; consecutive_failures, as far as the
\* backoff looks at it, never exceeds its limit (main.rs:227).
THEOREM TypeCorrect == Spec => []TypeOK
<1> QED  BY TypeInit, TypeStep, PTL DEF Spec

-----------------------------------------------------------------------------
(* The device list.                                                        *)

Last(list) == list[Len(list)]

\* While no timeout has fallen between a length and its text, nothing is half
\* read between two calls of next_update, and the last list sent is the
\* server's own.
ListInv ==
  ~torn /\ link = "up" =>
    /\ half <=> pc = "text"
    /\ pc = "text" => inbox # <<>>
    /\ pc \notin {"start", "reconnect"}
    /\ inbox # <<>> => Last(inbox) = actual
    /\ inbox = <<>> => devices = actual

\* A new list is the last of the queue.
LEMMA AppendLast ==
  ASSUME NEW q \in Seq(Lists), NEW list \in Lists
  PROVE  Append(q, list) # <<>> /\ Last(Append(q, list)) = list
BY DEF Last

\* Reading the first list leaves the last where it was, or was reading it.
LEMMA TailLast ==
  ASSUME NEW q \in Seq(Lists), q # <<>>
  PROVE  /\ Tail(q) # <<>> => Last(Tail(q)) = Last(q)
         /\ Tail(q) = <<>> => Head(q) = Last(q)
<1>1. /\ Tail(q) \in Seq(Lists) /\ Len(Tail(q)) = Len(q) - 1
      /\ \A i \in 1 .. Len(Tail(q)) : Tail(q)[i] = q[i + 1]
  BY HeadTailProperties
<1>2. Len(q) \in Nat \ {0}  BY EmptySeq
<1>3. CASE Tail(q) = <<>>
  <2>1. Len(Tail(q)) = 0  BY <1>3, EmptySeq
  <2>2. Len(q) = 1  BY <2>1, <1>1, <1>2
  <2> QED  BY <1>3, <2>2 DEF Last
<1>4. CASE Tail(q) # <<>>
  <2>1. Len(Tail(q)) \in Nat \ {0}  BY <1>1, <1>4, EmptySeq
  <2>2. \A n \in Nat \ {0} : n \in 1 .. n  OBVIOUS
  <2>3. Tail(q)[Len(Tail(q))] = q[Len(Tail(q)) + 1]  BY <1>1, <2>1, <2>2
  <2>4. Len(Tail(q)) + 1 = Len(q)  BY <1>1, <1>2
  <2> QED  BY <1>4, <2>3, <2>4 DEF Last
<1> QED  BY <1>3, <1>4

\* On a fresh connection only the current list waits.
LEMMA ConnectList ==
  ASSUME Connect
  PROVE  half' = FALSE /\ inbox' # <<>> /\ Last(inbox') = actual'
<1>1. inbox' = <<actual'>>  BY DEF Connect
<1>2. Last(inbox') = actual'  BY <1>1 DEF Last
<1> QED  BY <1>1, <1>2 DEF Connect

\* Every step keeps the list in hand current, or is cut by a timeout.
LEMMA ListStep ==
  ASSUME TypeOK, ListInv, [Next]_vars
  PROVE  ListInv'
<1>1. CASE \E list \in Lists : DevicesChange(list)
  <2>1. PICK list \in Lists : DevicesChange(list)  BY <1>1
  <2>2. CASE link = "up"
    <3>1. inbox' = Append(inbox, list) /\ actual' = list
      BY <2>1, <2>2 DEF DevicesChange
    <3>2. inbox' # <<>> /\ Last(inbox') = actual'
      BY <3>1, AppendLast DEF TypeOK
    <3> QED  BY <2>1, <3>2 DEF DevicesChange, ListInv
  <2>3. CASE link # "up"  BY <2>1, <2>3 DEF DevicesChange, ListInv
  <2> QED  BY <2>2, <2>3
<1>2. CASE TextArrives  BY <1>2 DEF TextArrives, ListInv, Last
<1>3. CASE ServerDies  BY <1>3 DEF ServerDies, ListInv
<1>4. CASE ServerStarts  BY <1>4 DEF ServerStarts, ListInv, Last
<1>5. CASE Shutdown  BY <1>5 DEF Shutdown, ListInv, Last
<1>6. CASE Start
  <2>1. CASE Connect  BY <2>1, <1>6, ConnectList DEF Start, ListInv
  <2>2. CASE ~Connect  BY <2>2, <1>6 DEF Start, ListInv
  <2> QED  BY <2>1, <2>2
<1>7. CASE CheckShutdown  BY <1>7 DEF CheckShutdown, ListInv, Last
<1>8. CASE ReadLength  BY <1>8 DEF ReadLength, Available, ListInv, Last
<1>9. CASE ReadText
  <2>1. inbox \in Seq(Lists) /\ inbox # <<>>
    BY <1>9 DEF ReadText, Available, TypeOK
  <2>2. /\ Tail(inbox) # <<>> => Last(Tail(inbox)) = Last(inbox)
        /\ Tail(inbox) = <<>> => Head(inbox) = Last(inbox)
    BY <2>1, TailLast
  <2>3. /\ link' = link /\ actual' = actual /\ inbox' = Tail(inbox)
        /\ devices' = Head(inbox) /\ half' = FALSE /\ torn' = torn /\ pc' = "pick"
    BY <1>9 DEF ReadText
  <2> QED  BY <2>1, <2>2, <2>3 DEF ListInv
<1>10. CASE TimedOut
  <2>1. CASE pc = "text"  BY <2>1, <1>10 DEF TimedOut, ListInv
  <2>2. CASE pc # "text"  BY <2>2, <1>10 DEF TimedOut, ListInv, Last, TypeOK
  <2> QED  BY <2>1, <2>2
<1>11. CASE TrackerLost
  <2>1. torn \/ link = "lost"  BY <1>11 DEF TrackerLost, Misread, ListInv, TypeOK
  <2> QED  BY <2>1, <1>11 DEF TrackerLost, ListInv
<1>12. CASE TextAsLength
  <2>1. torn  BY <1>12 DEF TextAsLength, Misread, ListInv
  <2> QED  BY <2>1, <1>12 DEF TextAsLength, ListInv
<1>13. CASE Reconnect  BY <1>13, ConnectList DEF Reconnect, ListInv
<1>14. CASE ReconnectFails  BY <1>14 DEF ReconnectFails, ListInv
<1>15. CASE PickDevice
  <2>1. pc = "pick" /\ pc' \in {"check", "session"}  BY <1>15 DEF PickDevice
  <2> QED  BY <2>1, <1>15 DEF PickDevice, ListInv, Last
<1>16. CASE BackedOff  BY <1>16 DEF BackedOff, ListInv, Last
<1>17. CASE \E ok \in BOOLEAN : SessionEnds(ok)
  <2>1. PICK ok \in BOOLEAN : SessionEnds(ok)  BY <1>17
  <2>2. pc = "session" /\ pc' \in {"exit", "backoff"}  BY <2>1 DEF SessionEnds
  <2> QED  BY <2>1, <2>2 DEF SessionEnds, ListInv, Last
<1>18. CASE UNCHANGED vars  BY <1>18 DEF vars, ListInv, Last
<1> QED
  BY <1>1, <1>2, <1>3, <1>4, <1>5, <1>6, <1>7, <1>8, <1>9, <1>10, <1>11, <1>12,
     <1>13, <1>14, <1>15, <1>16, <1>17, <1>18
     DEF Next, LoopStep, Environment, Exited

\* While no timeout has cut a list in two, a tracker that still stands and has
\* nothing left to read leaves the daemon with the server's own list
\* (main.rs:151-157): waiting for the next update is never waiting for one that
\* was lost.
THEOREM ListsKept == Spec => []ListCurrent
<1>1. Init => ListInv  BY DEF Init, ListInv
<1>2. TypeOK /\ ListInv /\ [Next]_vars => ListInv'  BY ListStep
<1>3. ListInv => ListCurrent  BY DEF ListInv, ListCurrent, InStep
<1> QED  BY <1>1, <1>2, <1>3, TypeCorrect, PTL DEF Spec
=============================================================================
