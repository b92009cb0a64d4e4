------------------------- MODULE TabletAudio_proofs -------------------------
(***************************************************************************)
(* TabletAudio for any number of sessions and any bounds: a track is given *)
(* only the samples of its own session; nothing of a session outlives it   *)
(* but what a throw lost before a field named it, and no teardown ends a   *)
(* thread of an open one.  Both unless a stop fell into the configuration  *)
(* of a session, the first if a drain thread is quick to offer what it     *)
(* copied.                                                                 *)
(***************************************************************************)
EXTENDS TabletAudio, SequenceTheorems, TLAPS

Callers == {"main", "demux"}

\* Where the demux thread has called teardown.
Calling == {"header", "failed", "end"}

\* Where it does nothing to the fields.
Resting == {"idle", "video", "open", "untold"}

DrainPlaces == {"none", "run", "dequeue", "offer", "done", "failed"}
WriterPlaces == {"none", "run", "poll", "write", "done", "failed"}

Types ==
  /\ running \in BOOLEAN /\ crossed \in BOOLEAN
  /\ field \in [Names -> 0..MaxSessions]
  /\ pcm \in Seq(Sessions)
  /\ session \in 0..MaxSessions /\ (dpc # "idle" => session \in Sessions)
  /\ dpc \in Configuring \cup Calling \cup Resting
  /\ at \in [Callers -> 0..10]
  /\ made \subseteq Names \X Sessions /\ over \subseteq Names \X Sessions
  /\ drain \in [Sessions -> DrainPlaces]
  /\ writer \in [Sessions -> WriterPlaces]
  /\ item \in [Sessions -> 0..MaxSessions]
  /\ lost \subseteq {"codec", "track"} \X Sessions

-----------------------------------------------------------------------------
(* The invariant, but for a stop in the middle of a configuration.         *)

\* What the configuration has made and named so far.
Got ==
  CASE dpc \in {"track", "play"} -> {"codec"}
    [] dpc \in {"clear", "drainer"} -> {"codec", "track"}
    [] dpc = "writer" -> {"codec", "track", "drainer"}
    [] OTHER -> {}

NoFields == \A n \in Names : field[n] = 0

\* Whose things the fields may hold: the last session's, until its successor has begun.
Holder == IF dpc = "header" THEN session - 1 ELSE session

\* The switch is off as long as stop runs, the demux thread tears down where it
\* says it does, and a session is configured with the switch on.
Places ==
  /\ running => at["main"] = 0
  /\ at["demux"] # 0 <=> dpc \in Calling
  /\ dpc \in Configuring => running

\* The fields hold what one session has made, or nothing: nothing between sessions,
\* if the sink was told of the end, and nothing when a stop is over.
Fields ==
  /\ \A n \in Names : field[n] \in {0, Holder}
  /\ dpc \in Configuring => \A n \in Names : field[n] = IF n \in Got THEN session ELSE 0
  /\ dpc = "idle" => NoFields
  /\ dpc \in Resting /\ ~running /\ at["main"] = 0 => NoFields

\* How far a teardown is: what it has passed is forgotten, what it forgets next
\* is taken away.
Torn ==
  \A who \in Callers, k \in 1..4 :
    /\ at[who] > 2 * k => field[Order[k]] = 0
    /\ at[who] = 2 * k => field[Order[k]] = 0 \/ <<Order[k], field[Order[k]]>> \in over

\* What was made is in its field or taken away, or was lost, or the configuration is
\* about to name it; only what was made is.
Owned ==
  /\ over \subseteq made
  /\ \A n \in Names, s \in Sessions :
       <<n, s>> \in made => <<n, s>> \in over \cup lost \cup Unnamed \/ field[n] = s
  /\ \A n \in Names : field[n] # 0 => <<n, field[n]>> \in made
  /\ \A n \in Names, s \in Sessions : <<n, s>> \in made => s <= session
  /\ dpc \in Configuring \cup {"header"} =>
       \A n \in Names : <<n, session>> \in made => n \in Got \/ <<n, session>> \in Unnamed
  /\ Unnamed \subseteq made \ over

\* While a session is configured nothing of it is lost.
Lost ==
  /\ lost \subseteq made
  /\ dpc \in Configuring => \A n \in Names : <<n, session>> \notin lost

\* While nobody tears down, nothing in a field is taken away.
Kept ==
  (at["main"] = 0 /\ at["demux"] = 0) =>
    \A n \in Names : field[n] # 0 => <<n, field[n]>> \notin over

\* A thread that was started was made, and so was the decoder it was started with,
\* which is not lost.
Started ==
  \A s \in Sessions :
    /\ drain[s] # "none" => <<"drainer", s>> \in made /\ <<"codec", s>> \in made \ lost
    /\ writer[s] # "none" => <<"writer", s>> \in made

\* The threads of a session with sound run, or have failed by themselves, as long as
\* the switch is on.
Alive ==
  /\ dpc = "writer" => drain[session] \notin {"none", "done"}
  /\ dpc \in {"video", "open"} /\ running =>
       \/ NoFields
       \/ /\ \A n \in Names : field[n] = session
          /\ drain[session] \notin {"none", "done"}
          /\ writer[session] \notin {"none", "done"}

KeptInv == Places /\ Fields /\ Torn /\ Owned /\ Lost /\ Kept /\ Started /\ Alive

\* From the clearing of the queue on, what is in it or about to be offered is of
\* the session that has the fields; so is what its writer has taken.
OwnPcm ==
  dpc \in {"drainer", "writer"} \/ field["writer"] # 0 =>
    /\ \A i \in 1..Len(pcm) : pcm[i] = Holder
    /\ \A s \in Sessions : drain[s] = "offer" => s = Holder

OwnItems == \A s \in Sessions : item[s] \in {0, s}

Inv == Types /\ (~crossed => KeptInv)
OwnInv == ~crossed => OwnPcm /\ OwnItems

-----------------------------------------------------------------------------
(* Names and places.                                                       *)

LEMMA NamesAre ==
  /\ Names = {"writer", "drainer", "codec", "track"}
  /\ \A k \in 1..4 : Order[k] \in Names
  /\ \A n \in Names : \E k \in 1..4 : Order[k] = n
<1>1. Names = {Order[1], Order[2], Order[3], Order[4]}
  <2>1. 1..4 = {1, 2, 3, 4}
    OBVIOUS
  <2>2. QED
    BY <2>1 DEF Names
<1>2. Order[1] = "writer" /\ Order[2] = "drainer" /\ Order[3] = "codec" /\ Order[4] = "track"
  BY DEF Order
<1>3. QED
  BY <1>1, <1>2 DEF Names

\* A teardown that has returned has left no field.
LEMMA LeftNothing ==
  ASSUME Types, Torn, NEW who \in Callers, at[who] = 10
  PROVE  NoFields
<1>1. \A k \in 1..4 : 10 > 2 * k
  OBVIOUS
<1>2. QED
  BY <1>1, NamesAre DEF Torn, NoFields

LEMMA InitInv == Init => Inv /\ OwnInv
<1>1. SUFFICES ASSUME Init PROVE Inv /\ OwnInv
  OBVIOUS
<1>2. Types
  <2>1. <<>> \in Seq(Sessions) /\ 0 \in 0..MaxSessions /\ 0 \in 0..10
    BY AudioAssumption
  <2>2. QED
    BY <1>1, <2>1 DEF Init, Types, Callers, Resting, DrainPlaces, WriterPlaces
<1>3. Places /\ Fields /\ Owned /\ Lost /\ Kept /\ Started /\ Alive
  BY <1>1, NamesAre
     DEF Init, Places, Fields, Owned, Lost, Kept, Started, Alive, NoFields, Unnamed,
         Configuring, Calling, Resting
<1>4. Torn
  BY <1>1, NamesAre DEF Init, Torn, Callers
<1>5. OwnPcm /\ OwnItems
  BY <1>1, NamesAre DEF Init, OwnPcm, OwnItems
<1>6. QED
  BY <1>2, <1>3, <1>4, <1>5 DEF Inv, OwnInv, KeptInv

-----------------------------------------------------------------------------
(* Types.                                                                  *)

\* The parts of Types that several steps change.
LEMMA PlaceTyped ==
  ASSUME Types, NEW who \in Callers
  PROVE  /\ EnterTeardown(who) \/ Leave(who) => at' \in [Callers -> 0..10]
         /\ \A k \in 1..4 : at[who] = 2 * k - 1 \/ at[who] = 2 * k =>
              [at EXCEPT ![who] = @ + 1] \in [Callers -> 0..10]
         /\ [at EXCEPT ![who] = 10] \in [Callers -> 0..10]
<1>1. at \in [Callers -> 0..10]
  BY DEF Types
<1>2. 0 \in 0..10 /\ 1 \in 0..10 /\ 10 \in 0..10
  OBVIOUS
<1>3. ASSUME NEW k \in 1..4, at[who] = 2 * k - 1 \/ at[who] = 2 * k
      PROVE  at[who] + 1 \in 0..10
  BY <1>1, <1>3
<1>4. QED
  BY <1>1, <1>2, <1>3, Zenon DEF EnterTeardown, Leave

LEMMA MakeTyped ==
  ASSUME Types, NEW name \in Names, session \in Sessions,
         Create(name) \/ Name(name) \/ Make(name)
  PROVE  field' \in [Names -> 0..MaxSessions] /\ made' \subseteq Names \X Sessions
BY DEF Types, Create, Name, Make

LEMMA UpdateTyped ==
  ASSUME NEW S, NEW T, NEW f \in [S -> T], NEW s, NEW v \in T
  PROVE  [f EXCEPT ![s] = v] \in [S -> T]
OBVIOUS

LEMMA TypesStep == Types /\ [Next]_vars => Types'
<1>1. SUFFICES ASSUME Types, [Next]_vars PROVE Types'
  OBVIOUS
<1>a. <<>> \in Seq(Sessions)
  OBVIOUS
<1>b. 0 \in 0..MaxSessions /\ \A s \in Sessions : s \in 0..MaxSessions
  BY AudioAssumption DEF Sessions
<1>c. "main" \in Callers /\ "demux" \in Callers
  BY DEF Callers
<1>d. {"writer", "drainer", "codec", "track"} \subseteq Names
  BY NamesAre
<1>e. dpc \in Configuring => session \in Sessions
  BY <1>1 DEF Types, Configuring
<1>2. ASSUME NEW who \in Callers, Teardown(who) PROVE Types'
  <2>1. CASE TakeAway(who)
    <3>1. PICK k \in 1..4 :
            /\ at[who] = 2 * k - 1
            /\ over' = IF field[Order[k]] = 0 THEN over
                       ELSE over \cup {<<Order[k], field[Order[k]]>>}
            /\ at' = [at EXCEPT ![who] = @ + 1]
      BY <2>1 DEF TakeAway
    <3>2. Order[k] \in Names
      BY NamesAre
    <3>3. field[Order[k]] = 0 \/ field[Order[k]] \in Sessions
      BY <1>1, <3>2, AudioAssumption DEF Types, Sessions
    <3>4. over' \subseteq Names \X Sessions
      BY <1>1, <3>1, <3>2, <3>3 DEF Types
    <3>5. at' \in [Callers -> 0..10]
      BY <1>1, <3>1, PlaceTyped
    <3>6. QED
      BY <1>1, <2>1, <3>4, <3>5 DEF TakeAway, Types, shared, demux, history
  <2>2. CASE Forget(who)
    <3>1. PICK k \in 1..4 :
            /\ at[who] = 2 * k
            /\ field' = [field EXCEPT ![Order[k]] = 0]
            /\ at' = [at EXCEPT ![who] = @ + 1]
      BY <2>2 DEF Forget
    <3>2. field' \in [Names -> 0..MaxSessions]
      BY <1>1, <1>b, <3>1, UpdateTyped DEF Types
    <3>3. at' \in [Callers -> 0..10]
      BY <1>1, <3>1, PlaceTyped
    <3>4. QED
      BY <1>1, <2>2, <3>2, <3>3 DEF Forget, Types, players, demux, history
  <2>3. CASE ClearQueue(who)
    <3>1. at' \in [Callers -> 0..10]
      BY <1>1, <2>3, PlaceTyped DEF ClearQueue
    <3>2. QED
      BY <1>1, <1>a, <2>3, <3>1 DEF ClearQueue, Types, players, demux, history
  <2>4. QED
    BY <1>2, <2>1, <2>2, <2>3 DEF Teardown
<1>3. CASE Start
  BY <1>1, <1>3 DEF Start, Types, demux, players
<1>4. CASE Stop
  <2>1. at' \in [Callers -> 0..10]
    BY <1>1, <1>4, <1>c, PlaceTyped DEF Stop
  <2>2. QED
    BY <1>1, <1>4, <2>1 DEF Stop, Types, demux, players
<1>5. CASE Stopped
  <2>1. at' \in [Callers -> 0..10]
    BY <1>1, <1>5, <1>c, PlaceTyped DEF Stopped
  <2>2. QED
    BY <1>1, <1>5, <2>1 DEF Stopped, Types, demux, players, history
<1>6. CASE OnStreamHeader
  <2>1. at' \in [Callers -> 0..10]
    BY <1>1, <1>6, <1>c, PlaceTyped DEF OnStreamHeader
  <2>2. session' \in 0..MaxSessions /\ session' \in Sessions
    BY <1>1, <1>6, AudioAssumption DEF OnStreamHeader, Types, Sessions
  <2>3. QED
    BY <1>1, <1>6, <2>1, <2>2
       DEF OnStreamHeader, Demux, Types, Calling, shared, players, history
<1>7. CASE OnSessionEnded
  <2>1. at' \in [Callers -> 0..10]
    BY <1>1, <1>7, <1>c, PlaceTyped DEF OnSessionEnded
  <2>2. QED
    BY <1>1, <1>7, <2>1 DEF OnSessionEnded, Demux, Types, Calling, shared, players, history
<1>8. CASE NoAudio \/ Configure \/ ConfigureFailed \/ SessionEnded \/ VideoStarts
             \/ VideoFails
  <2>1. at' \in [Callers -> 0..10]
    <3>1. CASE NoAudio \/ Configure \/ ConfigureFailed \/ SessionEnded
      BY <1>1, <3>1, <1>c, PlaceTyped DEF NoAudio, Configure, ConfigureFailed, SessionEnded
    <3>2. CASE VideoStarts \/ VideoFails
      BY <1>1, <3>2 DEF VideoStarts, VideoFails, Types
    <3>3. QED
      BY <1>8, <3>1, <3>2
  <2>2. dpc' \in Configuring \cup Calling \cup Resting
    BY <1>8 DEF NoAudio, Configure, ConfigureFailed, SessionEnded, VideoStarts, VideoFails,
                Demux, Configuring, Resting
  <2>3. /\ dpc # "idle"
        /\ UNCHANGED <<field, pcm, session, made, over, drain, writer, item, lost>>
    BY <1>8 DEF NoAudio, Configure, ConfigureFailed, SessionEnded, VideoStarts, VideoFails,
                Demux, shared, players, history
  <2>4. running' \in BOOLEAN /\ crossed' \in BOOLEAN
    BY <1>1, <1>8
       DEF NoAudio, Configure, ConfigureFailed, SessionEnded, VideoStarts, VideoFails, Types,
           shared, history
  <2>5. QED
    BY <1>1, <2>1, <2>2, <2>3, <2>4 DEF Types
<1>9. CASE ConfigureFails
  <2>1. at' \in [Callers -> 0..10]
    BY <1>1, <1>9, <1>c, PlaceTyped DEF ConfigureFails
  <2>2. session \in Sessions
    BY <1>9, <1>e DEF ConfigureFails, Demux, Configuring
  <2>3. lost' \subseteq {"codec", "track"} \X Sessions
    BY <1>1, <1>9, <2>2 DEF ConfigureFails, Types, Unnamed
  <2>4. QED
    BY <1>1, <1>9, <2>1, <2>2, <2>3 DEF ConfigureFails, Demux, Types, Calling, players
<1>10. CASE \/ CreateCodec \/ StartCodec \/ BuildTrack \/ PlayTrack
             \/ StartDrain \/ StartWriter
  <2>1. PICK name \in Names : Create(name) \/ Name(name) \/ Make(name)
    BY <1>10, <1>d DEF CreateCodec, StartCodec, BuildTrack, PlayTrack, StartDrain, StartWriter
  <2>2. session \in Sessions
    BY <1>10, <1>e
       DEF CreateCodec, StartCodec, BuildTrack, PlayTrack, StartDrain, StartWriter, Demux,
           Configuring
  <2>3. field' \in [Names -> 0..MaxSessions] /\ made' \subseteq Names \X Sessions
    BY <1>1, <2>1, <2>2, MakeTyped
  <2>4. dpc' \in Configuring \cup Calling \cup Resting
    BY <1>10
       DEF CreateCodec, StartCodec, BuildTrack, PlayTrack, StartDrain, StartWriter, Demux,
           Configuring, Resting
  <2>5. drain' \in [Sessions -> DrainPlaces]
    BY <1>1, <1>10, UpdateTyped
       DEF CreateCodec, StartCodec, BuildTrack, PlayTrack, StartDrain, StartWriter, Types,
           DrainPlaces, WriterPlaces
  <2>6. writer' \in [Sessions -> WriterPlaces]
    BY <1>1, <1>10, UpdateTyped
       DEF CreateCodec, StartCodec, BuildTrack, PlayTrack, StartDrain, StartWriter, Types,
           DrainPlaces, WriterPlaces
  <2>7. UNCHANGED <<running, crossed, pcm, session, at, over, item, lost>>
    BY <1>10
       DEF CreateCodec, StartCodec, BuildTrack, PlayTrack, StartDrain, StartWriter, history
  <2>8. QED
    BY <1>1, <2>2, <2>3, <2>4, <2>5, <2>6, <2>7 DEF Types
<1>11. CASE ClearOld
  BY <1>1, <1>11, <1>a, <1>e DEF ClearOld, Demux, Types, Configuring, players, history
<1>12. CASE OnAudioFrame
  BY <1>1, <1>12 DEF OnAudioFrame, Types, shared, demux, history
<1>13. ASSUME NEW s \in Sessions, DrainStep(s) PROVE Types'
  <2>1. drain' \in [Sessions -> DrainPlaces]
    <3>1. PICK p \in DrainPlaces : drain' = [drain EXCEPT ![s] = p]
      BY <1>13 DEF DrainStep, DrainLoop, Dequeue, DrainFails, Offer, DrainPlaces
    <3>2. QED
      BY <1>1, <3>1, UpdateTyped DEF Types
  <2>2. pcm' \in Seq(Sessions)
    <3>1. CASE Offer(s)
      BY <1>1, <3>1, AppendProperties DEF Offer, Types
    <3>2. CASE DrainLoop(s) \/ Dequeue(s) \/ DrainFails(s)
      BY <1>1, <3>2 DEF DrainLoop, Dequeue, DrainFails, Types, shared
    <3>3. QED
      BY <1>13, <3>1, <3>2 DEF DrainStep
  <2>3. UNCHANGED <<running, crossed, field, session, dpc, at, made, over, writer, item, lost>>
    BY <1>13 DEF DrainStep, DrainLoop, Dequeue, DrainFails, Offer, shared, demux, history
  <2>4. QED
    BY <1>1, <2>1, <2>2, <2>3 DEF Types
<1>14. ASSUME NEW s \in Sessions, WriterStep(s) PROVE Types'
  <2>1. writer' \in [Sessions -> WriterPlaces]
    <3>1. PICK p \in WriterPlaces : writer' = [writer EXCEPT ![s] = p]
      BY <1>14 DEF WriterStep, WriterLoop, Poll, Write, WriteFails, WriterPlaces
    <3>2. QED
      BY <1>1, <3>1, UpdateTyped DEF Types
  <2>2. pcm' \in Seq(Sessions) /\ item' \in [Sessions -> 0..MaxSessions]
    <3>1. CASE UNCHANGED <<pcm, item>>
      BY <1>1, <3>1 DEF Types
    <3>2. CASE pcm # <<>> /\ item' = [item EXCEPT ![s] = Head(pcm)] /\ pcm' = Tail(pcm)
      <4>1. Head(pcm) \in Sessions /\ Tail(pcm) \in Seq(Sessions)
        BY <1>1, <3>2, HeadTailProperties DEF Types
      <4>2. QED
        BY <1>1, <1>b, <3>2, <4>1, UpdateTyped DEF Types
    <3>3. CASE pcm' = pcm /\ item' = [item EXCEPT ![s] = 0]
      BY <1>1, <1>b, <3>3, UpdateTyped DEF Types
    <3>4. QED
      BY <1>14, <3>1, <3>2, <3>3 DEF WriterStep, WriterLoop, Poll, Write, WriteFails, shared
  <2>3. UNCHANGED <<running, crossed, field, session, dpc, at, made, over, drain, lost>>
    BY <1>14 DEF WriterStep, WriterLoop, Poll, Write, WriteFails, shared, demux, history
  <2>4. QED
    BY <1>1, <2>1, <2>2, <2>3 DEF Types
<1>15. CASE UNCHANGED vars
  BY <1>1, <1>15 DEF vars, Types, shared, demux, players, history
<1>16. "main" \in Callers /\ "demux" \in Callers
  BY DEF Callers
<1>17. QED
  BY <1>1, <1>2, <1>3, <1>4, <1>5, <1>6, <1>7, <1>8, <1>9, <1>10, <1>11, <1>12, <1>13,
     <1>14, <1>15, <1>16 DEF Next, MainStep, DemuxStep

-----------------------------------------------------------------------------
(* Teardown, by either thread.                                             *)

LEMMA TeardownKeeps ==
  ASSUME Types, KeptInv, NEW who \in Callers, Teardown(who)
  PROVE  KeptInv'
<1> USE DEF KeptInv
<1>1. /\ UNCHANGED <<running, session, dpc, made, drain, writer, lost>>
      /\ at[who] \in 1..9 /\ at' = [at EXCEPT ![who] = at[who] + 1]
      /\ over \subseteq over'
  <2>1. CASE TakeAway(who)
    BY <2>1 DEF TakeAway, shared, demux, history
  <2>2. CASE Forget(who)
    BY <2>2 DEF Forget, demux, players, history
  <2>3. CASE ClearQueue(who)
    BY <2>3 DEF ClearQueue, demux, players, history
  <2>4. QED
    BY <2>1, <2>2, <2>3 DEF Teardown
<1>2. /\ at \in [Callers -> 0..10] /\ at[who] # 0 /\ at'[who] = at[who] + 1 /\ at'[who] # 0
      /\ \A other \in Callers : other # who => at'[other] = at[other]
  BY <1>1 DEF Types
<1>3. dpc \notin Configuring /\ (dpc \in Resting => ~running)
  BY <1>2 DEF Places, Callers, Configuring, Calling, Resting
<1>4. Places'
  BY <1>1, <1>2, <1>3 DEF Places, Callers
<1>5. /\ \A n \in Names : field'[n] = field[n] \/ field'[n] = 0
      /\ \A n \in Names : field[n] # 0 /\ field'[n] = 0 => <<n, field[n]>> \in over
  <2>1. CASE Forget(who)
    <3>1. PICK k \in 1..4 : at[who] = 2 * k /\ field' = [field EXCEPT ![Order[k]] = 0]
      BY <2>1 DEF Forget
    <3>2. field[Order[k]] = 0 \/ <<Order[k], field[Order[k]]>> \in over
      BY <3>1 DEF Torn
    <3>3. QED
      BY <3>1, <3>2 DEF Types
  <2>2. CASE TakeAway(who) \/ ClearQueue(who)
    BY <2>2 DEF TakeAway, ClearQueue, shared
  <2>3. QED
    BY <2>1, <2>2 DEF Teardown
<1>6. Fields'
  <2>1. NoFields => NoFields'
    BY <1>5 DEF NoFields
  <2>2. at'["main"] = 0 => at["main"] = 0
    BY <1>2 DEF Callers
  <2>3. QED
    BY <1>1, <1>3, <1>5, <2>1, <2>2 DEF Fields, Holder
<1>7. Torn'
  <2>1. SUFFICES ASSUME NEW whom \in Callers, NEW j \in 1..4
                 PROVE  /\ at'[whom] > 2 * j => field'[Order[j]] = 0
                        /\ at'[whom] = 2 * j =>
                             \/ field'[Order[j]] = 0
                             \/ <<Order[j], field'[Order[j]]>> \in over'
    BY DEF Torn
  <2>2. Order[j] \in Names
    BY NamesAre
  <2>3. field[Order[j]] = 0 => field'[Order[j]] = 0
    BY <1>5, <2>2
  <2>4. CASE whom # who
    BY <1>1, <1>2, <1>5, <2>2, <2>3, <2>4 DEF Torn
  <2>5. CASE whom = who
    <3>1. CASE TakeAway(who)
      <4>1. PICK k \in 1..4 :
              /\ at[who] = 2 * k - 1
              /\ over' = IF field[Order[k]] = 0 THEN over
                         ELSE over \cup {<<Order[k], field[Order[k]]>>}
              /\ field' = field
        BY <3>1 DEF TakeAway, shared
      <4>2. at'[who] > 2 * j => at[who] > 2 * j
        BY <1>2, <4>1
      <4>3. at'[who] = 2 * j => j = k
        BY <1>2, <4>1
      <4>4. QED
        BY <2>5, <4>1, <4>2, <4>3 DEF Torn
    <3>2. CASE Forget(who)
      <4>1. PICK k \in 1..4 : at[who] = 2 * k /\ field' = [field EXCEPT ![Order[k]] = 0]
        BY <3>2 DEF Forget
      <4>2. at'[who] > 2 * j => at[who] > 2 * j \/ j = k
        BY <1>2, <4>1
      <4>3. at'[who] # 2 * j
        BY <1>2, <4>1
      <4>4. field'[Order[k]] = 0
        BY <4>1, NamesAre DEF Types
      <4>5. QED
        BY <2>3, <2>5, <4>2, <4>3, <4>4 DEF Torn
    <3>3. CASE ClearQueue(who)
      <4>1. at[who] = 9 /\ field' = field
        BY <3>3 DEF ClearQueue
      <4>2. at[who] > 2 * j /\ at'[who] # 2 * j
        BY <1>2, <4>1
      <4>3. QED
        BY <2>5, <4>1, <4>2 DEF Torn
    <3>4. QED
      BY <3>1, <3>2, <3>3 DEF Teardown
  <2>6. QED
    BY <2>4, <2>5
<1>8. Owned'
  <2>0. Unnamed = {} /\ Unnamed' = {}
    BY <1>1, <1>3 DEF Unnamed, Configuring
  <2>1. over' \subseteq made'
    <3>1. CASE TakeAway(who)
      <4>1. PICK k \in 1..4 :
              over' = IF field[Order[k]] = 0 THEN over
                      ELSE over \cup {<<Order[k], field[Order[k]]>>}
        BY <3>1 DEF TakeAway
      <4>2. QED
        BY <1>1, <4>1, NamesAre DEF Owned
    <3>2. CASE Forget(who) \/ ClearQueue(who)
      BY <1>1, <3>2 DEF Forget, ClearQueue, players, Owned
    <3>3. QED
      BY <3>1, <3>2 DEF Teardown
  <2>2. ASSUME NEW n \in Names, NEW s \in Sessions, <<n, s>> \in made'
        PROVE  <<n, s>> \in over' \cup lost' \cup Unnamed' \/ field'[n] = s
    <3>1. s # 0
      BY AudioAssumption DEF Sessions
    <3>2. QED
      BY <1>1, <1>5, <2>2, <2>0, <3>1 DEF Owned
  <2>3. \A n \in Names : field'[n] # 0 => <<n, field'[n]>> \in made'
    BY <1>1, <1>5 DEF Owned
  <2>4. QED
    BY <1>1, <1>3, <2>0, <2>1, <2>2, <2>3 DEF Owned, Got
<1>9. Kept' /\ Lost'
  BY <1>1, <1>2 DEF Kept, Lost, Callers
<1>10. Started'
  BY <1>1 DEF Started
<1>11. Alive'
  BY <1>1, <1>3 DEF Alive, Configuring, Resting
<1>12. QED
  BY <1>4, <1>6, <1>7, <1>8, <1>9, <1>10, <1>11

-----------------------------------------------------------------------------
(* The switch, and what the demux thread does between its teardowns.       *)

LEMMA SwitchKeeps ==
  ASSUME Types, KeptInv, ~crossed', Start \/ Stop \/ Stopped
  PROVE  KeptInv'
<1> USE DEF KeptInv
<1>1. /\ UNCHANGED <<field, session, dpc, made, over, drain, writer, lost>>
      /\ at'["demux"] = at["demux"]
  BY DEF Start, Stop, Stopped, EnterTeardown, Leave, demux, players, history, Types, Callers
<1>2. at["main"] = 10 => NoFields
  BY LeftNothing DEF Callers
<1>3. \/ Start /\ at' = at /\ at["main"] = 0 /\ ~running /\ running'
      \/ Stop /\ at["main"] = 0 /\ at'["main"] = 1 /\ ~running' /\ dpc \notin Configuring
      \/ Stopped /\ NoFields /\ at'["main"] = 0 /\ ~running /\ ~running'
  <2>1. CASE Start
    BY <2>1 DEF Start
  <2>2. CASE Stop
    BY <2>2 DEF Stop, EnterTeardown, Types, Callers
  <2>3. CASE Stopped
    BY <1>2, <2>3 DEF Stopped, Leave, Places, Types, Callers
  <2>4. QED
    BY <2>1, <2>2, <2>3
<1>4. Places'
  BY <1>1, <1>3 DEF Places
<1>5. Fields'
  BY <1>1, <1>3 DEF Fields, NoFields, Got, Holder
<1>6. Torn'
  <2>1. ASSUME NEW j \in 1..4 PROVE 1 # 2 * j /\ ~(1 > 2 * j) /\ 0 # 2 * j /\ ~(0 > 2 * j)
    BY <2>1
  <2>2. at'["main"] = at["main"] \/ at'["main"] = 0 \/ at'["main"] = 1
    BY <1>3
  <2>3. QED
    BY <1>1, <2>1, <2>2 DEF Torn, Callers
<1>7. Owned' /\ Lost' /\ Started'
  BY <1>1 DEF Owned, Lost, Started, Got, Unnamed
<1>8. Kept'
  BY <1>1, <1>3 DEF Kept, NoFields
<1>9. Alive'
  BY <1>1, <1>3 DEF Alive, Fields, NoFields, Configuring, Resting
<1>10. QED
  BY <1>4, <1>5, <1>6, <1>7, <1>8, <1>9

LEMMA CallKeeps ==
  ASSUME Types, KeptInv, ~crossed',
         OnStreamHeader \/ NoAudio \/ Configure \/ ConfigureFails \/ ConfigureFailed
           \/ OnSessionEnded \/ SessionEnded
  PROVE  KeptInv'
<1> USE DEF KeptInv
<1>1. /\ UNCHANGED <<running, field, made, over, drain, writer>>
      /\ at'["main"] = at["main"]
  BY DEF OnStreamHeader, NoAudio, Configure, ConfigureFails, ConfigureFailed, OnSessionEnded,
         SessionEnded, EnterTeardown, Leave, shared, players, Types, Callers
<1>0. Unnamed' = {} /\ lost' = lost \cup Unnamed
  <2>1. CASE ConfigureFails
    BY <2>1 DEF ConfigureFails, Demux, Unnamed
  <2>2. CASE OnStreamHeader \/ NoAudio \/ Configure \/ ConfigureFailed \/ OnSessionEnded
               \/ SessionEnded
    BY <2>2 DEF OnStreamHeader, NoAudio, Configure, ConfigureFailed, OnSessionEnded,
                SessionEnded, Demux, Unnamed, history
  <2>3. QED
    BY <2>1, <2>2
<1>2. at["demux"] = 10 => NoFields
  BY LeftNothing DEF Callers
<1>3. \/ /\ OnStreamHeader /\ dpc # "header" /\ session' = session + 1
         /\ dpc' = "header" /\ at'["demux"] = 1
      \/ /\ Configure /\ NoFields /\ session' = session /\ dpc = "header"
         /\ dpc' = "codec" /\ at'["demux"] = 0 /\ running
      \/ /\ NoAudio \/ ConfigureFailed \/ SessionEnded
         /\ NoFields /\ session' = session
         /\ dpc' \in {"video", "idle"} /\ at'["demux"] = 0
      \/ /\ ConfigureFails \/ OnSessionEnded
         /\ dpc # "header" /\ session' = session
         /\ dpc' \in {"failed", "end"} /\ at'["demux"] = 1
  <2>1. CASE OnStreamHeader
    BY <2>1 DEF OnStreamHeader, Demux, EnterTeardown, Fields, Types, Callers
  <2>2. CASE Configure
    BY <1>2, <2>2 DEF Configure, Demux, Leave, Types, Callers
  <2>3. CASE NoAudio \/ ConfigureFailed \/ SessionEnded
    BY <1>2, <2>3 DEF NoAudio, ConfigureFailed, SessionEnded, Demux, Leave, shared, Types, Callers
  <2>4. CASE ConfigureFails \/ OnSessionEnded
    BY <2>4 DEF ConfigureFails, OnSessionEnded, Demux, EnterTeardown, shared, Types, Callers
  <2>5. QED
    BY <2>1, <2>2, <2>3, <2>4
<1>4. Places'
  BY <1>1, <1>3 DEF Places, Calling, Configuring
<1>5. Fields'
  <2>1. NoFields => NoFields' /\ \A n \in Names : field'[n] = 0
    BY <1>1 DEF NoFields
  <2>2. dpc' = "codec" => Got' = {}
    BY DEF Got
  <2>3. NoFields \/ Holder' = Holder
    <3>1. (session + 1) - 1 = session
      BY DEF Types
    <3>2. QED
      BY <1>3, <3>1 DEF Holder
  <2>4. QED
    BY <1>1, <1>3, <2>1, <2>2, <2>3 DEF Fields, Configuring, Resting
<1>6. Torn'
  <2>1. ASSUME NEW j \in 1..4 PROVE 1 # 2 * j /\ ~(1 > 2 * j) /\ 0 # 2 * j /\ ~(0 > 2 * j)
    BY <2>1
  <2>2. at'["demux"] = 0 \/ at'["demux"] = 1
    BY <1>3
  <2>3. QED
    BY <1>1, <2>1, <2>2 DEF Torn, Callers
<1>7. Owned'
  <2>1. ASSUME NEW n \in Names, NEW s \in Sessions, <<n, s>> \in made' PROVE s <= session'
    BY <1>1, <1>3, <2>1 DEF Owned, Types, Sessions
  <2>2. ASSUME dpc' \in Configuring \cup {"header"}, NEW n \in Names, <<n, session'>> \in made'
        PROVE  FALSE
    <3>1. CASE OnStreamHeader
      <4>1. session + 1 \in Sessions /\ session' = session + 1
        BY <3>1, AudioAssumption DEF OnStreamHeader, Types, Sessions
      <4>2. session + 1 <= session
        BY <1>1, <2>2, <4>1 DEF Owned
      <4>3. QED
        BY <4>2 DEF Types
    <3>2. CASE Configure
      <4>1. dpc = "header" /\ session' = session
        BY <3>2 DEF Configure, Demux
      <4>2. Got = {} /\ Unnamed = {}
        BY <4>1 DEF Got, Unnamed
      <4>3. QED
        BY <1>1, <2>2, <4>1, <4>2 DEF Owned
    <3>3. QED
      BY <1>3, <2>2, <3>1, <3>2 DEF Configuring
  <2>3. QED
    BY <1>0, <1>1, <2>1, <2>2 DEF Owned
<1>8. Lost'
  <2>1. lost' \subseteq made'
    BY <1>0, <1>1 DEF Lost, Owned
  <2>2. ASSUME dpc' \in Configuring, NEW n \in Names, <<n, session'>> \in lost' PROVE FALSE
    <3>1. Configure /\ dpc = "header" /\ session' = session
      BY <1>3, <2>2 DEF Configuring
    <3>2. Got = {} /\ Unnamed = {}
      BY <3>1 DEF Got, Unnamed
    <3>3. <<n, session>> \in made
      BY <1>1, <2>1, <2>2, <3>1
    <3>4. QED
      BY <3>1, <3>2, <3>3 DEF Owned
  <2>3. QED
    BY <2>1, <2>2 DEF Lost
<1>9. Kept'
  BY <1>1, <1>3 DEF Kept, NoFields
<1>10. Started'
  <2>1. ASSUME NEW s \in Sessions, <<"codec", s>> \in Unnamed PROVE <<"drainer", s>> \notin made
    <3>1. dpc = "start" /\ s = session
      BY <2>1 DEF Unnamed
    <3>2. Got = {} /\ <<"drainer", session>> \notin Unnamed
      BY <3>1 DEF Got, Unnamed
    <3>3. QED
      BY <3>1, <3>2, NamesAre DEF Owned, Configuring
  <2>2. QED
    BY <1>0, <1>1, <2>1 DEF Started
<1>11. Alive'
  BY <1>1, <1>3 DEF Alive, NoFields
<1>12. QED
  BY <1>4, <1>5, <1>6, <1>7, <1>8, <1>9, <1>10, <1>11

LEMMA VideoKeeps ==
  ASSUME Types, KeptInv, VideoStarts \/ VideoFails
  PROVE  KeptInv'
<1>1. /\ dpc = "video" /\ dpc' \in {"open", "untold"}
      /\ UNCHANGED <<running, field, session, at, made, over, drain, writer, lost>>
  BY DEF VideoStarts, VideoFails, Demux, shared, players, history
<1>2. Got = {} /\ Got' = {} /\ Unnamed = {} /\ Unnamed' = {} /\ Holder' = Holder
  BY <1>1 DEF Got, Unnamed, Holder
<1>3. QED
  BY <1>1, <1>2
     DEF KeptInv, Places, Fields, Torn, Owned, Lost, Kept, Started, Alive, NoFields,
         Configuring, Calling, Resting

-----------------------------------------------------------------------------
(* Configuration: one thing after another is made.                         *)

\* What a configuration has got so far is its own, and neither taken away nor lost.
LEMMA OfSession ==
  ASSUME Types, KeptInv, dpc \in Configuring
  PROVE  /\ running /\ at["main"] = 0 /\ at["demux"] = 0
         /\ session \in Sessions /\ session # 0
         /\ \A n \in Names : field[n] = IF n \in Got THEN session ELSE 0
         /\ \A n \in Names : <<n, session>> \notin lost
         /\ \A n \in Names : <<n, session>> \in made =>
              n \in Got \/ <<n, session>> \in Unnamed
         /\ Unnamed \subseteq made \ over
<1>1. dpc # "idle" /\ dpc \notin Calling
  BY DEF Configuring, Calling
<1>2. session \in Sessions /\ session # 0
  BY <1>1, AudioAssumption DEF Types, Sessions
<1>3. QED
  BY <1>1, <1>2 DEF KeptInv, Places, Fields, Owned, Lost

\* One step of a configuration, that makes what has the name or names it or both;
\* G is what has been named then.
LEMMA MakeKeeps ==
  ASSUME Types, KeptInv, dpc \in Configuring, NEW name \in Names, NEW G,
         UNCHANGED <<running, session, at, over, lost>>,
         made' = made \cup {<<name, session>>}, <<name, session>> \notin over,
         \A n \in Names : field'[n] = IF n \in G THEN session ELSE 0,
         Got \subseteq G, G \subseteq Got \cup {name},
         Unnamed \subseteq {<<name, session>>}, Unnamed' \subseteq {<<name, session>>},
         name \in G \/ Unnamed' = {<<name, session>>},
         \/ dpc' \in Configuring /\ Got' = G
         \/ dpc' = "video" /\ Names \subseteq G
  PROVE  Places' /\ Fields' /\ Torn' /\ Owned' /\ Lost' /\ Kept'
<1> USE DEF KeptInv
<1>1. /\ running /\ at["main"] = 0 /\ at["demux"] = 0
      /\ session \in Sessions /\ session # 0
  BY OfSession
<1>2. /\ \A n \in Names : field[n] = IF n \in Got THEN session ELSE 0
      /\ \A n \in Names : <<n, session>> \in made => n \in Got \/ <<n, session>> \in Unnamed
  BY OfSession
<1>3. dpc' \in Configuring \cup {"video"} /\ dpc' \notin Calling \cup {"idle", "header"}
  BY DEF Configuring, Calling
<1>4. Places'
  BY <1>1, <1>3 DEF Places
<1>5. Fields'
  <2>1. Holder' = session
    BY <1>3 DEF Holder
  <2>2. QED
    BY <1>1, <1>3, <2>1 DEF Fields, Configuring
<1>6. Torn'
  BY <1>1 DEF Torn, Callers
<1>7. Owned'
  <2>1. over' \subseteq made' /\ Unnamed' \subseteq made' \ over'
    BY DEF Owned
  <2>2. ASSUME NEW n \in Names, NEW s \in Sessions, <<n, s>> \in made'
        PROVE  <<n, s>> \in over' \cup lost' \cup Unnamed' \/ field'[n] = s
    <3>1. CASE n = name /\ s = session
      BY <3>1
    <3>2. CASE ~(n = name /\ s = session)
      <4>1. <<n, s>> \in made /\ s # 0 /\ <<n, s>> \notin Unnamed
        BY <2>2, <3>2, AudioAssumption DEF Sessions
      <4>2. <<n, s>> \in over \cup lost \/ field[n] = s
        BY <4>1 DEF Owned
      <4>3. field[n] = s => field'[n] = s
        BY <1>2, <4>1
      <4>4. QED
        BY <4>2, <4>3
    <3>3. QED
      BY <3>1, <3>2
  <2>3. ASSUME NEW n \in Names, field'[n] # 0 PROVE <<n, field'[n]>> \in made'
    <3>1. field'[n] = session /\ n \in Got \cup {name}
      BY <2>3
    <3>2. n \in Got => <<n, session>> \in made
      BY <1>1, <1>2 DEF Owned
    <3>3. QED
      BY <3>1, <3>2
  <2>4. ASSUME NEW n \in Names, NEW s \in Sessions, <<n, s>> \in made' PROVE s <= session'
    <3>1. session <= session
      BY <1>1 DEF Sessions
    <3>2. QED
      BY <2>4, <3>1 DEF Owned
  <2>5. ASSUME dpc' \in Configuring \cup {"header"}, NEW n \in Names, <<n, session'>> \in made'
        PROVE  n \in Got' \/ <<n, session'>> \in Unnamed'
    <3>1. Got' = G
      BY <1>3, <2>5 DEF Configuring
    <3>2. n = name \/ n \in Got
      BY <1>2, <2>5
    <3>3. QED
      BY <3>1, <3>2
  <2>6. QED
    BY <2>1, <2>2, <2>3, <2>4, <2>5 DEF Owned
<1>8. Lost'
  BY OfSession DEF Lost
<1>9. Kept'
  <2>1. SUFFICES ASSUME NEW n \in Names, field'[n] # 0 PROVE <<n, field'[n]>> \notin over'
    BY DEF Kept
  <2>2. field'[n] = session /\ n \in Got \cup {name}
    BY <2>1
  <2>3. n \in Got => <<n, session>> \notin over
    BY <1>1, <1>2 DEF Kept
  <2>4. QED
    BY <2>2, <2>3
<1>10. QED
  BY <1>4, <1>5, <1>6, <1>7, <1>8, <1>9

LEMMA ConfigurationKeeps ==
  ASSUME Types, KeptInv,
         \/ CreateCodec \/ StartCodec \/ BuildTrack \/ PlayTrack
         \/ ClearOld \/ StartDrain \/ StartWriter
  PROVE  KeptInv'
<1>1. Names = {"writer", "drainer", "codec", "track"}
  BY NamesAre
<1>2. dpc \in Configuring
  BY DEF CreateCodec, StartCodec, BuildTrack, PlayTrack, ClearOld, StartDrain, StartWriter,
         Demux, Configuring
<1>3. session \in Sessions /\ session # 0 /\ \A n \in Names : <<n, session>> \notin lost
  BY <1>2, OfSession
<1>4. /\ \A n \in Names : field[n] = IF n \in Got THEN session ELSE 0
      /\ \A n \in Names : <<n, session>> \in made => n \in Got \/ <<n, session>> \in Unnamed
      /\ Unnamed \subseteq made \ over /\ over \subseteq made
  BY <1>2, OfSession DEF KeptInv, Owned
<1>5. field \in [Names -> 0..MaxSessions] /\ drain \in [Sessions -> DrainPlaces]
      /\ writer \in [Sessions -> WriterPlaces]
  BY DEF Types
<1>6. CASE CreateCodec \/ BuildTrack
  <2>1. PICK name \in {"codec", "track"} :
          /\ Create(name) /\ name \notin Got /\ Got' = Got
          /\ Unnamed = {} /\ Unnamed' = {<<name, session>>}
          /\ dpc' \in Configuring /\ dpc' \notin {"writer", "video", "open"}
    BY <1>6 DEF CreateCodec, BuildTrack, Demux, Got, Unnamed, Configuring
  <2>a. PICK G : G = Got
    OBVIOUS
  <2>2. UNCHANGED <<running, session, at, over, lost, drain, writer>>
    BY <1>6 DEF CreateCodec, BuildTrack, history
  <2>3. field' = field /\ made' = made \cup {<<name, session>>}
    BY <2>1 DEF Create
  <2>4. <<name, session>> \notin over
    BY <1>1, <1>4, <2>1
  <2>5. \A n \in Names : field'[n] = IF n \in G THEN session ELSE 0
    BY <1>4, <2>3, <2>a
  <2>6. /\ name \in Names /\ Got \subseteq G /\ G \subseteq Got \cup {name} /\ Got' = G
        /\ Unnamed \subseteq {<<name, session>>} /\ Unnamed' \subseteq {<<name, session>>}
    BY <1>1, <2>1, <2>a
  <2>7. Places' /\ Fields' /\ Torn' /\ Owned' /\ Lost' /\ Kept'
    BY <1>2, <2>1, <2>2, <2>3, <2>4, <2>5, <2>6, MakeKeeps
  <2>8. Started' /\ Alive'
    BY <2>1, <2>2, <2>3 DEF KeptInv, Started, Alive
  <2>9. QED
    BY <2>7, <2>8 DEF KeptInv
<1>7. CASE StartCodec \/ PlayTrack
  <2>1. PICK name \in {"codec", "track"} :
          /\ Name(name) /\ Got' = Got \cup {name}
          /\ Unnamed = {<<name, session>>} /\ Unnamed' = {}
          /\ dpc' \in Configuring /\ dpc' \notin {"writer", "video", "open"}
    BY <1>7 DEF StartCodec, PlayTrack, Demux, Got, Unnamed, Configuring
  <2>a. PICK G : G = Got \cup {name}
    OBVIOUS
  <2>2. UNCHANGED <<running, session, at, over, lost, drain, writer>>
    BY <1>7 DEF StartCodec, PlayTrack, history
  <2>3. field' = [field EXCEPT ![name] = session] /\ made' = made
    BY <2>1 DEF Name
  <2>4. <<name, session>> \in made /\ <<name, session>> \notin over
    BY <1>4, <2>1
  <2>5. made' = made \cup {<<name, session>>}
    BY <2>3, <2>4
  <2>6. \A n \in Names : field'[n] = IF n \in G THEN session ELSE 0
    BY <1>4, <1>5, <2>3, <2>a
  <2>7. /\ name \in Names /\ Got \subseteq G /\ G \subseteq Got \cup {name} /\ name \in G /\ Got' = G
        /\ Unnamed \subseteq {<<name, session>>} /\ Unnamed' \subseteq {<<name, session>>}
    BY <1>1, <2>1, <2>a
  <2>8. Places' /\ Fields' /\ Torn' /\ Owned' /\ Lost' /\ Kept'
    BY <1>2, <2>1, <2>2, <2>4, <2>5, <2>6, <2>7, MakeKeeps
  <2>9. Started' /\ Alive'
    BY <2>1, <2>2, <2>3 DEF KeptInv, Started, Alive
  <2>10. QED
    BY <2>8, <2>9 DEF KeptInv
<1>8. CASE ClearOld
  <2>1. dpc = "clear" /\ dpc' = "drainer" /\ Got' = Got /\ Unnamed = {} /\ Unnamed' = {}
    BY <1>8 DEF ClearOld, Demux, Got, Unnamed
  <2>2. UNCHANGED <<running, field, session, at, made, over, drain, writer, lost>>
    BY <1>8 DEF ClearOld, players, history
  <2>3. QED
    BY <2>1, <2>2
       DEF KeptInv, Places, Fields, Torn, Owned, Lost, Kept, Started, Alive, NoFields,
           Holder, Configuring, Calling, Resting
<1>9. CASE StartDrain
  <2>1. /\ Make("drainer") /\ "drainer" \notin Got /\ Got' = Got \cup {"drainer"}
        /\ Unnamed = {} /\ Unnamed' = {}
        /\ dpc' = "writer" /\ dpc' \in Configuring /\ "codec" \in Got
    BY <1>9 DEF StartDrain, Demux, Got, Unnamed, Configuring
  <2>a. PICK G : G = Got \cup {"drainer"}
    OBVIOUS
  <2>2. /\ UNCHANGED <<running, session, at, over, writer, lost>>
        /\ drain' = [drain EXCEPT ![session] = "run"]
    BY <1>9 DEF StartDrain, history
  <2>3. /\ field' = [field EXCEPT !["drainer"] = session]
        /\ made' = made \cup {<<"drainer", session>>}
    BY <2>1 DEF Make
  <2>4. <<"drainer", session>> \notin over
    BY <1>1, <1>4, <2>1
  <2>5. \A n \in Names : field'[n] = IF n \in G THEN session ELSE 0
    BY <1>4, <1>5, <2>3, <2>a
  <2>b. /\ "drainer" \in Names /\ Got \subseteq G /\ G \subseteq Got \cup {"drainer"}
        /\ "drainer" \in G /\ Got' = G
        /\ Unnamed \subseteq {<<"drainer", session>>}
        /\ Unnamed' \subseteq {<<"drainer", session>>}
    BY <1>1, <2>1, <2>a
  <2>6. Places' /\ Fields' /\ Torn' /\ Owned' /\ Lost' /\ Kept'
    BY <1>2, <2>1, <2>2, <2>3, <2>4, <2>5, <2>b, MakeKeeps
  <2>7. <<"codec", session>> \in made \ lost
    BY <1>1, <1>3, <1>4, <2>1 DEF KeptInv, Owned
  <2>8. Started'
    BY <1>5, <2>2, <2>3, <2>7 DEF KeptInv, Started
  <2>9. Alive'
    BY <1>3, <1>5, <2>1, <2>2 DEF Alive
  <2>10. QED
    BY <2>6, <2>8, <2>9 DEF KeptInv
<1>10. CASE StartWriter
  <2>1. /\ Make("writer") /\ "writer" \notin Got /\ Names = Got \cup {"writer"}
        /\ Unnamed = {} /\ Unnamed' = {}
        /\ dpc' = "video" /\ dpc = "writer"
    BY <1>1, <1>10 DEF StartWriter, Demux, Got, Unnamed
  <2>2. /\ UNCHANGED <<running, session, at, over, drain, lost>>
        /\ writer' = [writer EXCEPT ![session] = "run"]
    BY <1>10 DEF StartWriter, history
  <2>3. /\ field' = [field EXCEPT !["writer"] = session]
        /\ made' = made \cup {<<"writer", session>>}
    BY <2>1 DEF Make
  <2>4. <<"writer", session>> \notin over
    BY <1>1, <1>4, <2>1
  <2>5. \A n \in Names : field'[n] = IF n \in Names THEN session ELSE 0
    BY <1>4, <1>5, <2>1, <2>3
  <2>6. Places' /\ Fields' /\ Torn' /\ Owned' /\ Lost' /\ Kept'
    BY <1>1, <1>2, <2>1, <2>2, <2>3, <2>4, <2>5, MakeKeeps
  <2>7. Started'
    BY <1>5, <2>2, <2>3 DEF KeptInv, Started
  <2>8. Alive'
    BY <1>3, <1>5, <2>1, <2>2, <2>5 DEF KeptInv, Alive
  <2>9. QED
    BY <2>6, <2>7, <2>8 DEF KeptInv
<1>11. QED
  BY <1>6, <1>7, <1>8, <1>9, <1>10

-----------------------------------------------------------------------------
(* The threads, and the frames that are given to the decoder.              *)

LEMMA ThreadsKeep ==
  ASSUME Types, KeptInv,
         OnAudioFrame \/ (\E s \in Sessions : DrainStep(s) \/ WriterStep(s)) \/ UNCHANGED vars
  PROVE  KeptInv'
<1>1. UNCHANGED <<running, field, session, dpc, at, made, over, lost>>
  BY DEF OnAudioFrame, DrainStep, DrainLoop, Dequeue, DrainFails, Offer, WriterStep,
         WriterLoop, Poll, Write, WriteFails, vars, shared, demux, players, history
<1>2. ASSUME NEW t \in Sessions
      PROVE  /\ drain[t] = "none" => drain'[t] = "none"
             /\ /\ drain[t] \notin {"none", "done"} /\ running
                /\ <<"drainer", t>> \notin over /\ <<"codec", t>> \notin over
                => drain'[t] \notin {"none", "done"}
  <2>1. CASE drain' = drain
    BY <2>1
  <2>2. ASSUME NEW s \in Sessions, DrainStep(s)
        PROVE  /\ drain[t] = "none" => drain'[t] = "none"
               /\ /\ drain[t] \notin {"none", "done"} /\ running
                  /\ <<"drainer", t>> \notin over /\ <<"codec", t>> \notin over
                  => drain'[t] \notin {"none", "done"}
    BY <2>2
       DEF DrainStep, DrainLoop, Dequeue, DrainFails, Offer, Interrupted, Released, Types
  <2>3. QED
    BY <2>1, <2>2
       DEF OnAudioFrame, WriterStep, WriterLoop, Poll, Write, WriteFails, vars, players
<1>3. ASSUME NEW t \in Sessions
      PROVE  /\ writer[t] = "none" => writer'[t] = "none"
             /\ /\ writer[t] \notin {"none", "done"} /\ running
                /\ <<"writer", t>> \notin over /\ <<"track", t>> \notin over
                => writer'[t] \notin {"none", "done"}
  <2>1. CASE writer' = writer
    BY <2>1
  <2>2. ASSUME NEW s \in Sessions, WriterStep(s)
        PROVE  /\ writer[t] = "none" => writer'[t] = "none"
               /\ /\ writer[t] \notin {"none", "done"} /\ running
                  /\ <<"writer", t>> \notin over /\ <<"track", t>> \notin over
                  => writer'[t] \notin {"none", "done"}
    BY <2>2
       DEF WriterStep, WriterLoop, Poll, Write, WriteFails, Interrupted, Released, Types
  <2>3. QED
    BY <2>1, <2>2
       DEF OnAudioFrame, DrainStep, DrainLoop, Dequeue, DrainFails, Offer, vars, players
<1>4. Places' /\ Fields' /\ Torn' /\ Owned' /\ Lost' /\ Kept'
  BY <1>1 DEF KeptInv, Places, Fields, Torn, Owned, Lost, Kept, NoFields, Got, Unnamed, Holder
<1>5. Started'
  BY <1>1, <1>2, <1>3 DEF KeptInv, Started
<1>6. Alive'
  <2>1. Names = {"writer", "drainer", "codec", "track"}
    BY NamesAre
  <2>2. dpc \in {"writer", "video", "open"} => session \in Sessions /\ session # 0
    BY AudioAssumption DEF Types, Sessions
  <2>3. dpc \in {"writer", "video", "open"} /\ running => at["main"] = 0 /\ at["demux"] = 0
    BY DEF KeptInv, Places, Calling
  <2>4. CASE dpc = "writer"
    <3>1. running /\ field["drainer"] = session /\ field["codec"] = session
      BY <2>1, <2>4 DEF KeptInv, Places, Fields, Got, Configuring
    <3>2. <<"drainer", session>> \notin over /\ <<"codec", session>> \notin over
      BY <2>1, <2>2, <2>3, <2>4, <3>1 DEF KeptInv, Kept
    <3>3. QED
      BY <1>1, <1>2, <2>2, <2>4, <3>1, <3>2 DEF KeptInv, Alive
  <2>5. CASE dpc \in {"video", "open"} /\ running
    <3>1. CASE NoFields
      BY <1>1, <2>5, <3>1 DEF Alive, NoFields
    <3>2. CASE ~NoFields
      <4>1. \A n \in Names : field[n] = session
        BY <2>5, <3>2 DEF KeptInv, Alive
      <4>2. \A n \in Names : <<n, session>> \notin over
        BY <2>2, <2>3, <2>5, <4>1 DEF KeptInv, Kept
      <4>3. QED
        BY <1>1, <1>2, <1>3, <2>1, <2>2, <2>5, <3>2, <4>1, <4>2 DEF KeptInv, Alive
    <3>3. QED
      BY <3>1, <3>2
  <2>6. QED
    BY <1>1, <2>4, <2>5 DEF Alive
<1>7. QED
  BY <1>4, <1>5, <1>6 DEF KeptInv

LEMMA CrossedStays == crossed /\ [Next]_vars => crossed'
BY DEF Next, Start, Stop, MainStep, Teardown, TakeAway, Forget, ClearQueue, Stopped,
       OnStreamHeader, OnAudioFrame, OnSessionEnded, DemuxStep, NoAudio, Configure,
       CreateCodec, StartCodec, BuildTrack, PlayTrack, ClearOld, StartDrain, StartWriter,
       ConfigureFails, ConfigureFailed, VideoStarts, VideoFails, SessionEnded, DrainStep,
       DrainLoop, Dequeue, DrainFails, Offer, WriterStep, WriterLoop, Poll, Write, WriteFails, vars, history

LEMMA InvStep == Inv /\ [Next]_vars => Inv'
<1>1. SUFFICES ASSUME Inv, [Next]_vars PROVE Inv'
  OBVIOUS
<1>2. Types'
  BY <1>1, TypesStep DEF Inv
<1>3. ASSUME ~crossed' PROVE KeptInv'
  <2>1. Types /\ KeptInv
    BY <1>1, <1>3, CrossedStays DEF Inv
  <2>2. ASSUME NEW who \in Callers, Teardown(who) PROVE KeptInv'
    BY <2>1, <2>2, TeardownKeeps
  <2>3. "main" \in Callers /\ "demux" \in Callers
    BY DEF Callers
  <2>4. QED
    BY <1>1, <1>3, <2>1, <2>2, <2>3, SwitchKeeps, CallKeeps, VideoKeeps,
       ConfigurationKeeps, ThreadsKeep
       DEF Next, MainStep, DemuxStep
<1>4. QED
  BY <1>2, <1>3 DEF Inv

\* The invariant holds always.
LEMMA AlwaysInv == Spec => []Inv
<1>1. Init => Inv
  BY InitInv
<1>2. QED
  BY <1>1, InvStep, PTL DEF Spec

\* After a session whose end was told nothing is left but what a throw lost before a
\* field named it, and while one with sound is on its decoder has both its threads, or they
\* have failed by themselves; but for a stop in the middle of a configuration
\* (AudioStream.kt:133-180, 194-202, 271-274, 297-316).
THEOREM NothingIsKept == Spec => []NoneKept
<1>1. Inv => NoneKept
  <2>1. SUFFICES ASSUME Types, KeptInv, ~crossed PROVE NoneKept
    BY DEF Inv, NoneKept
  <2>2. ASSUME dpc = "idle" PROVE made \ over \subseteq lost /\ field = [n \in Names |-> 0]
    <3>1. \A n \in Names : field[n] = 0
      BY <2>1, <2>2 DEF KeptInv, Fields, NoFields
    <3>2. made \subseteq Names \X Sessions /\ \A s \in Sessions : s # 0
      BY <2>1, AudioAssumption DEF Types, Sessions
    <3>3. Unnamed = {}
      BY <2>2 DEF Unnamed
    <3>4. made \subseteq over \cup lost
      BY <2>1, <3>1, <3>2, <3>3 DEF KeptInv, Owned
    <3>5. QED
      BY <2>1, <3>1, <3>4 DEF Types
  <2>3. ASSUME dpc \in {"video", "open"}, running, field["codec"] # 0
        PROVE  /\ field["codec"] = session
               /\ {drain[session], writer[session]} \cap {"none", "done"} = {}
    BY <2>1, <2>3, NamesAre DEF KeptInv, Alive, NoFields
  <2>4. QED
    BY <2>2, <2>3 DEF NoneKept
<1>2. QED
  BY <1>1, AlwaysInv, PTL

-----------------------------------------------------------------------------
(* The queue.                                                              *)

\* Only the last session's drain thread can come to offer samples once the
\* decoders of the others were released.
LEMMA OwnPcmStep ==
  ASSUME QuickDrain, Types, KeptInv, Types', KeptInv', OwnPcm, [Next]_vars
  PROVE  OwnPcm'
<1> DEFINE From == dpc \in {"drainer", "writer"} \/ field["writer"] # 0
<1> DEFINE OwnBuffers == \A i \in 1..Len(pcm) : pcm[i] = Holder
<1> DEFINE OwnOffers == \A s \in Sessions : drain[s] = "offer" => s = Holder
<1>1. OwnPcm <=> (From => OwnBuffers /\ OwnOffers)
  BY DEF OwnPcm
<1>2. OwnPcm' <=> (From' => OwnBuffers' /\ OwnOffers')
  BY DEF OwnPcm
<1>3. "writer" \in Names /\ "codec" \in Names
  BY NamesAre
<1>4. ASSUME pcm' = <<>> PROVE OwnBuffers'
  <2>1. Len(pcm') = 0
    BY <1>4
  <2>2. QED
    BY <2>1
<1>5. ASSUME From' => From, UNCHANGED <<Holder, drain>>, pcm' = pcm \/ pcm' = <<>>
      PROVE  OwnPcm'
  <2>1. ASSUME From' PROVE OwnBuffers' /\ OwnOffers'
    BY <1>1, <1>4, <1>5, <2>1
  <2>2. QED
    BY <1>2, <2>1
<1>6. ASSUME NEW who \in Callers, Teardown(who) PROVE OwnPcm'
  <2>1. UNCHANGED <<dpc, Holder, drain>> /\ (pcm' = pcm \/ pcm' = <<>>)
    BY <1>6 DEF Teardown, TakeAway, Forget, ClearQueue, shared, demux, players, Holder
  <2>2. field'["writer"] = field["writer"] \/ field'["writer"] = 0
    BY <1>3, <1>6 DEF Teardown, TakeAway, Forget, ClearQueue, shared, Types
  <2>3. QED
    BY <1>5, <2>1, <2>2
<1>7. CASE Start \/ Stop \/ Stopped \/ OnAudioFrame \/ UNCHANGED vars
  <2>1. UNCHANGED <<dpc, field, Holder, drain, pcm>>
    BY <1>7 DEF Start, Stop, Stopped, OnAudioFrame, vars, shared, demux, players, Holder
  <2>2. QED
    BY <1>5, <2>1
<1>8. CASE OnStreamHeader
  <2>1. /\ dpc # "header" /\ dpc' = "header" /\ session' = session + 1
        /\ UNCHANGED <<field, drain, pcm>>
    BY <1>8 DEF OnStreamHeader, Demux, shared, players
  <2>2. Holder' = Holder
    BY <2>1 DEF Holder, Types
  <2>3. QED
    BY <1>5, <2>1, <2>2
<1>9. CASE \/ NoAudio \/ Configure \/ ConfigureFails \/ ConfigureFailed \/ VideoStarts
           \/ VideoFails \/ OnSessionEnded \/ SessionEnded
  <2>1. /\ UNCHANGED <<field, session, drain, pcm>>
        /\ dpc' \notin {"drainer", "writer"}
    BY <1>9 DEF NoAudio, Configure, ConfigureFails, ConfigureFailed, VideoStarts, VideoFails,
                OnSessionEnded, SessionEnded, Demux, shared, players
  <2>2. CASE NoAudio \/ Configure
    <3>1. at["demux"] = 10
      BY <2>2 DEF NoAudio, Configure, Leave
    <3>2. NoFields
      BY <3>1, LeftNothing DEF Callers, KeptInv
    <3>3. field'["writer"] = 0
      BY <1>3, <2>1, <3>2 DEF NoFields
    <3>4. QED
      BY <1>2, <2>1, <3>3
  <2>3. CASE \/ ConfigureFails \/ ConfigureFailed \/ VideoStarts \/ VideoFails
             \/ OnSessionEnded \/ SessionEnded
    <3>1. dpc # "header" /\ dpc' # "header"
      BY <2>3 DEF ConfigureFails, ConfigureFailed, VideoStarts, VideoFails, OnSessionEnded,
                  SessionEnded, Demux
    <3>2. Holder' = Holder
      BY <2>1, <3>1 DEF Holder
    <3>3. QED
      BY <1>5, <2>1, <3>2
  <2>4. QED
    BY <1>9, <2>2, <2>3
<1>10. CASE CreateCodec \/ StartCodec \/ BuildTrack \/ PlayTrack
  <2>1. dpc' \in {"start", "track", "play", "clear"}
    BY <1>10 DEF CreateCodec, StartCodec, BuildTrack, PlayTrack, Demux
  <2>2. field'["writer"] = 0
    BY <1>3, <2>1 DEF KeptInv, Fields, Got, Configuring
  <2>3. QED
    BY <1>2, <2>1, <2>2
<1>11. CASE ClearOld
  <2>1. /\ pcm' = <<>> /\ drain' = drain
        /\ \A s \in Sessions : drain[s] # "offer"
    BY <1>11 DEF ClearOld, players
  <2>2. QED
    BY <1>2, <1>4, <2>1
<1>12. CASE StartDrain \/ StartWriter
  <2>1. From /\ session \in Sessions /\ UNCHANGED <<Holder, pcm>>
    BY <1>12 DEF StartDrain, StartWriter, Demux, Types, Holder
  <2>2. ASSUME NEW s \in Sessions, drain'[s] = "offer" PROVE drain[s] = "offer"
    BY <1>12, <2>1, <2>2 DEF StartDrain, StartWriter, Types
  <2>3. QED
    BY <1>1, <1>2, <2>1, <2>2
<1>13. ASSUME NEW s \in Sessions, DrainStep(s) PROVE OwnPcm'
  <2>1. UNCHANGED <<dpc, field, Holder>>
    BY <1>13 DEF DrainStep, DrainLoop, Dequeue, DrainFails, Offer, shared, demux, Holder
  <2>2. SUFFICES ASSUME From PROVE OwnBuffers' /\ OwnOffers'
    BY <1>2, <2>1
  <2>3. OwnBuffers /\ OwnOffers
    BY <1>1, <2>2
  <2>4. ASSUME NEW t \in Sessions, drain'[t] = "offer"
        PROVE  \/ drain[t] = "offer"
               \/ t = s /\ drain[s] = "dequeue" /\ <<"codec", s>> \notin over
    <3>1. drain \in [Sessions -> DrainPlaces]
      BY DEF Types
    <3>2. PICK p \in DrainPlaces :
            /\ drain' = [drain EXCEPT ![s] = p]
            /\ p = "offer" => drain[s] = "dequeue" /\ <<"codec", s>> \notin over
      BY <1>13 DEF DrainStep, DrainLoop, Dequeue, DrainFails, Offer, Released, DrainPlaces
    <3>3. t # s => drain'[t] = drain[t]
      BY <3>1, <3>2
    <3>4. drain'[s] = p
      BY <3>1, <3>2
    <3>5. QED
      BY <2>4, <3>2, <3>3, <3>4
  <2>5. ASSUME drain[s] = "dequeue", <<"codec", s>> \notin over PROVE s = Holder
    <3>0. s # 0
      BY AudioAssumption DEF Sessions
    <3>1. <<"codec", s>> \in made \ lost
      <4>1. drain[s] # "none"
        BY <2>5
      <4>2. QED
        BY <4>1 DEF KeptInv, Started
    <3>2. CASE <<"codec", s>> \in Unnamed
      BY <3>2 DEF Unnamed, Holder
    <3>3. CASE <<"codec", s>> \notin Unnamed
      <4>1. field["codec"] = s
        BY <1>3, <2>5, <3>0, <3>1, <3>3 DEF KeptInv, Owned
      <4>2. QED
        BY <1>3, <3>0, <4>1 DEF KeptInv, Fields
    <3>4. QED
      BY <3>2, <3>3
  <2>6. OwnOffers'
    BY <2>1, <2>3, <2>4, <2>5
  <2>7. OwnBuffers'
    <3>1. CASE Offer(s)
      <4>1. pcm' = Append(pcm, s) /\ s = Holder
        BY <2>3, <3>1 DEF Offer
      <4>2. ASSUME NEW i \in 1..Len(pcm')
              PROVE  pcm'[i] = s \/ (i \in 1..Len(pcm) /\ pcm'[i] = pcm[i])
        BY <4>1, <4>2, AppendProperties DEF Types
      <4>3. QED
        BY <2>1, <2>3, <4>1, <4>2
    <3>2. CASE DrainLoop(s) \/ Dequeue(s) \/ DrainFails(s)
      <4>1. pcm' = pcm
        BY <3>2 DEF DrainLoop, Dequeue, DrainFails, shared
      <4>2. QED
        BY <2>1, <2>3, <4>1
    <3>3. QED
      BY <1>13, <3>1, <3>2 DEF DrainStep
  <2>8. QED
    BY <2>6, <2>7
<1>14. ASSUME NEW s \in Sessions, WriterStep(s) PROVE OwnPcm'
  <2>1. UNCHANGED <<dpc, field, Holder, drain>>
    BY <1>14 DEF WriterStep, WriterLoop, Poll, Write, WriteFails, shared, demux, Holder
  <2>2. CASE pcm' = pcm
    BY <1>5, <2>1, <2>2
  <2>3. CASE pcm # <<>> /\ pcm' = Tail(pcm)
    <3>1. SUFFICES ASSUME From PROVE OwnBuffers' /\ OwnOffers'
      BY <1>2, <2>1
    <3>2. OwnBuffers /\ OwnOffers
      BY <1>1, <3>1
    <3>3. ASSUME NEW i \in 1..Len(pcm') PROVE i + 1 \in 1..Len(pcm) /\ pcm'[i] = pcm[i + 1]
      BY <2>3, <3>3, HeadTailProperties DEF Types
    <3>4. QED
      BY <2>1, <3>2, <3>3
  <2>4. QED
    BY <1>14, <2>2, <2>3 DEF WriterStep, WriterLoop, Poll, Write, WriteFails, shared
<1>15. "main" \in Callers /\ "demux" \in Callers
  BY DEF Callers
<1>16. QED
  BY <1>6, <1>7, <1>8, <1>9, <1>10, <1>11, <1>12, <1>13, <1>14, <1>15
     DEF Next, MainStep, DemuxStep

\* A writer that can still take samples is the last session's.
LEMMA OwnItemsStep ==
  ASSUME Types, KeptInv, OwnPcm, OwnItems, [Next]_vars
  PROVE  OwnItems'
<1>1. ASSUME NEW s \in Sessions, WriterStep(s) PROVE OwnItems'
  <2>1. CASE item' = item
    BY <2>1 DEF OwnItems
  <2>2. CASE item' = [item EXCEPT ![s] = 0]
    BY <2>2 DEF OwnItems, Types
  <2>3. CASE /\ writer[s] = "poll" /\ <<"writer", s>> \notin over
             /\ pcm # <<>> /\ item' = [item EXCEPT ![s] = Head(pcm)]
    <3>1. <<"writer", s>> \in made /\ s # 0
      <4>1. writer[s] # "none"
        BY <2>3
      <4>2. s # 0
        BY AudioAssumption DEF Sessions
      <4>3. QED
        BY <4>1, <4>2 DEF KeptInv, Started
    <3>2. field["writer"] = s
      <4>1. <<"writer", s>> \notin lost \cup Unnamed
        BY DEF Types, Unnamed
      <4>2. QED
        BY <2>3, <3>1, <4>1, NamesAre DEF KeptInv, Owned
    <3>3. s = Holder
      BY <3>1, <3>2, NamesAre DEF KeptInv, Fields
    <3>4. 1 \in 1..Len(pcm) /\ Head(pcm) = pcm[1]
      BY <2>3, HeadTailProperties, EmptySeq DEF Types
    <3>5. Head(pcm) = s
      BY <3>1, <3>2, <3>3, <3>4 DEF OwnPcm
    <3>6. QED
      BY <2>3, <3>5 DEF OwnItems, Types
  <2>4. QED
    BY <1>1, <2>1, <2>2, <2>3
       DEF WriterStep, WriterLoop, Poll, Write, WriteFails, Interrupted
<1>2. CASE item' = item
  BY <1>2 DEF OwnItems
<1>3. QED
  BY <1>1, <1>2
     DEF Next, Start, Stop, MainStep, Teardown, TakeAway, Forget, ClearQueue, Stopped,
         OnStreamHeader, OnAudioFrame, OnSessionEnded, DemuxStep, NoAudio, Configure,
         CreateCodec, StartCodec, BuildTrack, PlayTrack, ClearOld, StartDrain, StartWriter,
         ConfigureFails, ConfigureFailed, VideoStarts, VideoFails, SessionEnded, DrainStep,
         DrainLoop, Dequeue, DrainFails, Offer, vars, players

\* What a track is given was decoded in its own session, though all sessions
\* share the queue: but for a stop in the middle of a configuration, and if what
\* a drain thread has copied is offered before the next session clears the queue
\* (AudioStream.kt:202-204, 251-302).
THEOREM SoundIsOwn == ASSUME QuickDrain PROVE Spec => []OwnSound
<1>1. Init => Inv /\ OwnInv
  BY InitInv
<1>2. Inv /\ OwnInv /\ [Next]_vars => Inv' /\ OwnInv'
  <2>1. SUFFICES ASSUME Inv, OwnInv, [Next]_vars PROVE Inv' /\ OwnInv'
    OBVIOUS
  <2>2. Inv'
    BY <2>1, InvStep
  <2>3. ASSUME ~crossed' PROVE OwnPcm' /\ OwnItems'
    <3>1. Types /\ KeptInv /\ OwnPcm /\ OwnItems /\ Types' /\ KeptInv'
      BY <2>1, <2>2, <2>3, CrossedStays DEF Inv, OwnInv
    <3>2. OwnPcm'
      BY <2>1, <3>1, OwnPcmStep
    <3>3. OwnItems'
      BY <2>1, <3>1, OwnItemsStep
    <3>4. QED
      BY <3>2, <3>3
  <2>4. QED
    BY <2>2, <2>3 DEF OwnInv
<1>3. OwnInv => OwnSound
  BY DEF OwnInv, OwnItems, OwnSound
<1>4. QED
  BY <1>1, <1>2, <1>3, PTL DEF Spec
=============================================================================
