------------------------ MODULE CaptureSession_proofs ------------------------
(***************************************************************************)
(* What holds of every capture session, whatever the compositor announces, *)
(* and at the end, of the output that KWin makes for a session             *)
(* (PlasmaOutput, of which this takes an instance).                        *)
(***************************************************************************)
EXTENDS CaptureSession, TLAPS

-----------------------------------------------------------------------------
(* The choice of a format.                                                  *)

LEMMA ElementType ==
  ASSUME NEW S, NEW s \in Seq(S), NEW i \in DOMAIN s
  PROVE  s[i] \in S
OBVIOUS

LEMMA AcceptableType ==
  ASSUME NEW mods \in SUBSET Modifiers
  PROVE  Acceptable(mods) \subseteq Modifiers
BY ConstantsAssumption DEF Acceptable, FirstMatch

LEMMA PickType ==
  ASSUME NEW fmts \in Seq([fourcc : Fourccs, mods : SUBSET Modifiers])
  PROVE  pick_dmabuf_format(fmts) \subseteq Fourccs \X Modifiers
<1>1. ASSUME NEW f \in Fourccs
      PROVE  FromFormat(fmts, f) \subseteq Fourccs \X Modifiers
  <2>1. ASSUME NEW i \in DOMAIN fmts
        PROVE  {f} \X Acceptable(fmts[i].mods) \subseteq Fourccs \X Modifiers
    <3>1. fmts[i] \in [fourcc : Fourccs, mods : SUBSET Modifiers]
      BY <2>1, ElementType
    <3>2. fmts[i].mods \in SUBSET Modifiers
      BY <3>1
    <3>3. QED
      BY <3>2, AcceptableType
  <2>2. QED
    BY <2>1 DEF FromFormat, FirstMatch
<1>2. QED
  BY <1>1 DEF pick_dmabuf_format, Fourccs

\* allocate_pool succeeds only with a complete set of constraints.
LEMMA AllocatedType ==
  ASSUME TypeOK, AllocationError = "", NEW choice \in pick_dmabuf_format(caps.fmts)
  PROVE  [size |-> caps.size, device |-> caps.device,
          fourcc |-> choice[1], modifier |-> choice[2]] \in BufferType
<1>1. caps.size \in Sizes /\ caps.device \in Devices
  BY DEF TypeOK, CapsType, AllocationError
<1>2. choice \in Fourccs \X Modifiers
  BY PickType DEF TypeOK, CapsType
<1>3. QED
  BY <1>1, <1>2 DEF BufferType

LEMMA NextIndexType ==
  ASSUME NEW i \in Nat
  PROVE  NextIndex(i) \in 0..(PoolSize - 1)
BY ConstantsAssumption DEF NextIndex

LEMMA WithEventType ==
  ASSUME NEW c \in CapsType, offer \in Offers, NEW k \in Kinds(offer)
  PROVE  WithEvent(c, k) \in CapsType
<1>1. offer \in OfferType
  BY ConstantsAssumption
<1>2. CASE k = "size" \/ k = "device"
  BY <1>1, <1>2 DEF WithEvent, CapsType, OfferType
<1>3. CASE k # "size" /\ k # "device"
  <2>1. k \in Fourccs /\ offer.fmts[k] \in SUBSET Modifiers
    BY <1>1, <1>3 DEF Kinds, OfferType
  <2>2. Append(c.fmts, [fourcc |-> k, mods |-> offer.fmts[k]])
          \in Seq([fourcc : Fourccs, mods : SUBSET Modifiers])
    BY <2>1 DEF CapsType
  <2>3. QED
    BY <1>3, <2>2 DEF WithEvent, CapsType
<1>4. QED
  BY <1>2, <1>3

-----------------------------------------------------------------------------
(* Type correctness.                                                        *)

LEMMA CloseType ==
  ASSUME TypeOK, NEW reason \in Reasons, Close(reason),
         UNCHANGED <<offer, announcing, pending, unread, handlers, frame>>
  PROVE  TypeOK'
<1>1. next_buffer' \in 0..(PoolSize - 1)
  BY ConstantsAssumption DEF Close
<1>2. QED
  BY <1>1 DEF TypeOK, Close, handlers

LEMMA SmallNumbers == 0 \in 0..(PoolSize - 1) /\ 0 \in 0..MaxUnread /\ 1 \in 0..MaxUnread
BY ConstantsAssumption

LEMMA RebuildType ==
  ASSUME TypeOK, Rebuild
  PROVE  TypeOK'
<1>1. CASE \E choice \in pick_dmabuf_format(caps.fmts) :
             /\ AllocationError = ""
             /\ caps.size = pool.size
             /\ IF session_stopped
                THEN Close("stopped") /\ UNCHANGED <<frame, unread, caps_consumed>>
                ELSE /\ Allocate(choice)
                     /\ RequestFrame(0)
                     /\ retrying' = TRUE
                     /\ woken' = FALSE
                     /\ UNCHANGED <<encoder, pushed, ended>>
  <2>1. CASE session_stopped
    BY <1>1, <2>1, CloseType DEF SameGeometry, Rebuild, Reasons, handlers
  <2>2. CASE ~session_stopped
    <3>1. PICK choice \in pick_dmabuf_format(caps.fmts) :
            /\ Allocate(choice) /\ RequestFrame(0) /\ AllocationError = ""
            /\ retrying' = TRUE /\ woken' = FALSE
            /\ UNCHANGED <<encoder, pushed, ended>>
      BY <1>1, <2>2
    <3>2. pool' \in BufferType
      BY <3>1, AllocatedType DEF Allocate
    <3>3. next_buffer' \in 0..(PoolSize - 1)
      BY <3>1, NextIndexType DEF RequestFrame
    <3>4. unread' \in 0..MaxUnread
      BY <3>1, SmallNumbers DEF Allocate, TypeOK
    <3>5. QED
      BY <3>1, <3>2, <3>3, <3>4 DEF TypeOK, SameGeometry, Rebuild, Allocate, RequestFrame
  <2>3. QED
    BY <2>1, <2>2
<1>2. CASE Close("geometry") /\ UNCHANGED <<frame, unread, caps_consumed>>
  BY <1>2, CloseType DEF SameGeometry, Rebuild, Reasons, handlers
<1>3. CASE AllocationFails /\ UNCHANGED frame
  <2>1. PICK reason \in {AllocationError, "allocation"} : Close(reason) /\
              (reason = AllocationError => AllocationError # "")
    BY <1>3 DEF AllocationFails
  <2>2. reason \in Reasons
    BY <2>1 DEF Reasons, AllocationError
  <2>3. QED
    BY <1>3, <2>1, <2>2, CloseType DEF SameGeometry, Rebuild, AllocationFails, handlers
<1>4. QED
  BY <1>1, <1>2, <1>3 DEF SameGeometry, Rebuild

LEMMA TypeInit == Init => TypeOK
<1> SUFFICES ASSUME Init PROVE TypeOK
  OBVIOUS
<1>1. NoCaps \in CapsType
  BY DEF NoCaps, CapsType
<1>2. QED
  BY <1>1, SmallNumbers DEF Init, TypeOK, Reasons

LEMMA ConstraintEventType ==
  ASSUME TypeOK, NEW k, ConstraintEvent(k)
  PROVE  TypeOK'
<1>1. k \in Kinds(offer)
  BY DEF ConstraintEvent, TypeOK
<1>2. Fresh \in CapsType
  BY DEF Fresh, TypeOK, CapsType, NoCaps
<1>3. caps' \in CapsType
  BY <1>1, <1>2, WithEventType DEF ConstraintEvent, TypeOK
<1>4. QED
  BY <1>3 DEF ConstraintEvent, begin_generation, Wake, TypeOK, capture

LEMMA NegotiatedType ==
  ASSUME TypeOK, Negotiated
  PROVE  TypeOK'
<1>1. CASE /\ \E choice \in pick_dmabuf_format(caps.fmts) : Allocate(choice)
           /\ encoder' = pool' /\ pc' = "idle" /\ next_buffer' = 0
           /\ UNCHANGED <<retrying, pushed, ended, woken>>
  <2>1. PICK choice \in pick_dmabuf_format(caps.fmts) : Allocate(choice)
    BY <1>1
  <2>2. pool' \in BufferType
    BY <2>1, AllocatedType DEF Allocate
  <2>3. QED
    BY <1>1, <2>1, <2>2, SmallNumbers DEF TypeOK, Negotiated, Allocate
<1>2. CASE AllocationFails
  <2>1. PICK reason \in {AllocationError, "allocation"} : Close(reason) /\
              (reason = AllocationError => AllocationError # "")
    BY <1>2 DEF AllocationFails
  <2>2. reason \in Reasons
    BY <2>1 DEF Reasons, AllocationError
  <2>3. QED
    BY <1>2, <2>1, <2>2, CloseType DEF Negotiated, AllocationFails, handlers
<1>3. QED
  BY <1>1, <1>2 DEF Negotiated

LEMMA TypeNext == TypeOK /\ [Next]_vars => TypeOK'
<1> SUFFICES ASSUME TypeOK, [Next]_vars PROVE TypeOK'
  OBVIOUS
<1>1. ASSUME NEW o \in Offers, BeginUpdate(o) PROVE TypeOK'
  BY <1>1, ConstantsAssumption DEF BeginUpdate, TypeOK, handlers, capture
<1>2. CASE Deliver
  <2>1. CASE DoneEvent
    BY <2>1 DEF DoneEvent, Wake, TypeOK, capture
  <2>2. QED
    BY <1>2, <2>1, ConstraintEventType DEF Deliver
<1>3. CASE StoppedEvent
  BY <1>3 DEF StoppedEvent, Wake, TypeOK, capture, compositor
<1>4. CASE FrameReady \/ FrameRejected \/ FrameStopped \/ FrameFailed
  BY <1>4 DEF FrameReady, FrameRejected, FrameStopped, FrameFailed, FrameEvent, Wake,
              TypeOK, capture, compositor, handlers
<1>5. CASE Negotiated
  BY <1>5, NegotiatedType
<1>6. CASE NegotiationStopped \/ RenegotiationStopped \/ RenegotiationTimedOut
  BY <1>6, CloseType DEF NegotiationStopped, RenegotiationStopped, RenegotiationTimedOut,
                         Reasons, compositor
<1>7. CASE CaptureFrame
  <2>1. CASE session_stopped
    BY <1>7, <2>1, CloseType DEF CaptureFrame, Reasons, compositor
  <2>2. CASE ~session_stopped
    <3>1. next_buffer' \in 0..(PoolSize - 1)
      BY <1>7, <2>2, NextIndexType DEF CaptureFrame, RequestFrame, TypeOK
    <3>2. QED
      BY <1>7, <2>2, <3>1 DEF CaptureFrame, RequestFrame, TypeOK, compositor, handlers
  <2>3. QED
    BY <2>1, <2>2
<1>8. CASE FrameCaptured
  BY <1>8 DEF FrameCaptured, TypeOK, compositor, handlers
<1>9. CASE CaptureFails
  BY <1>9, CloseType DEF CaptureFails, Reasons, compositor
<1>10. CASE ConstraintsChanged
  <2>1. CASE Rebuild
    BY <2>1, RebuildType
  <2>2. CASE Close("stopped") /\ UNCHANGED <<compositor, handlers, frame>>
    BY <2>2, CloseType DEF Reasons, compositor
  <2>3. QED
    BY <1>10, <2>1, <2>2 DEF ConstraintsChanged, TypeOK, compositor, handlers
<1>11. CASE Renegotiated
  BY <1>11, RebuildType DEF Renegotiated
<1>12. CASE Reconnect
  <2>1. NoCaps \in CapsType
    BY DEF NoCaps, CapsType
  <2>2. QED
    BY <1>12, <2>1, SmallNumbers DEF Reconnect, TypeOK, Reasons
<1>13. CASE UNCHANGED vars
  BY <1>13 DEF vars, compositor, handlers, capture, TypeOK
<1>14. QED
  BY <1>1, <1>2, <1>3, <1>4, <1>5, <1>6, <1>7, <1>8, <1>9, <1>10, <1>11, <1>12, <1>13
     DEF Next, ClientStep

\* The variables keep their domains, whatever constraints the compositor
\* announces and in whatever order they arrive: the round robin index names a
\* buffer of the pool, and a pool is only built from a complete set.
THEOREM TypeCorrect == Spec => []TypeOK
<1>1. QED
  BY TypeInit, TypeNext, PTL DEF Spec

-----------------------------------------------------------------------------
(* The encoder is fed frames of its own geometry only.                      *)

Running == pc \in {"idle", "capture", "renegotiate"}

\* While a session runs, the pool has the geometry the encoder was created
\* for, though renegotiate may have rebuilt it; nothing was pushed before.
GeometryInv ==
  /\ Running => pool.size = encoder.size
  /\ ~Running => pushed = None
  /\ EncoderGeometry

LEMMA CloseGeometry ==
  ASSUME NEW reason, Close(reason)
  PROVE  GeometryInv'
BY DEF Close, GeometryInv, Running, EncoderGeometry

LEMMA AllocationFailsCloses ==
  ASSUME AllocationFails
  PROVE  \E reason : Close(reason)
BY DEF AllocationFails

LEMMA RebuildGeometry ==
  ASSUME GeometryInv, Running, Rebuild
  PROVE  GeometryInv'
<1>1. CASE \E reason : Close(reason)
  BY <1>1, CloseGeometry
<1>2. CASE \E choice \in pick_dmabuf_format(caps.fmts) :
             caps.size = pool.size /\ Allocate(choice) /\ RequestFrame(0)
             /\ UNCHANGED <<encoder, pushed>>
  <2> PICK choice : caps.size = pool.size /\ Allocate(choice) /\ RequestFrame(0)
                    /\ UNCHANGED <<encoder, pushed>>
    BY <1>2
  <2>1. pool'.size = pool.size
    BY DEF Allocate
  <2>2. pc' = "capture" /\ UNCHANGED <<encoder, pushed>>
    BY DEF RequestFrame
  <2>3. QED
    BY <2>1, <2>2 DEF GeometryInv, Running, EncoderGeometry
<1>3. QED
  BY <1>1, <1>2, AllocationFailsCloses DEF SameGeometry, Rebuild

LEMMA GeometryInit == Init => GeometryInv
BY DEF Init, GeometryInv, Running, EncoderGeometry

LEMMA GeometryNext == GeometryInv /\ [Next]_vars => GeometryInv'
<1> SUFFICES ASSUME GeometryInv, [Next]_vars PROVE GeometryInv'
  OBVIOUS
<1>1. CASE UNCHANGED <<pc, pool, encoder, pushed>>
  BY <1>1 DEF GeometryInv, Running, EncoderGeometry
<1>2. CASE \E reason : Close(reason)
  BY <1>2, CloseGeometry
<1>3. CASE Negotiated
  <2>1. CASE \E reason : Close(reason)
    BY <2>1, CloseGeometry
  <2>2. CASE encoder' = pool' /\ pc' = "idle" /\ UNCHANGED pushed
    <3>1. pushed' = None
      BY <1>3, <2>2 DEF Negotiated, GeometryInv, Running
    <3>2. QED
      BY <2>2, <3>1 DEF GeometryInv, Running, EncoderGeometry
  <2>3. QED
    BY <1>3, <2>1, <2>2, AllocationFailsCloses DEF Negotiated
<1>4. CASE CaptureFrame /\ ~session_stopped
  BY <1>4 DEF CaptureFrame, RequestFrame, GeometryInv, Running, EncoderGeometry
<1>5. CASE FrameCaptured
  BY <1>5 DEF FrameCaptured, GeometryInv, Running, EncoderGeometry
<1>6. CASE (ConstraintsChanged \/ Renegotiated) /\ Rebuild
  <2>1. Running
    BY <1>6 DEF ConstraintsChanged, Renegotiated, Running
  <2>2. QED
    BY <1>6, <2>1, RebuildGeometry
<1>7. CASE pc' = "renegotiate" /\ ConstraintsChanged /\ UNCHANGED <<pool, encoder, pushed>>
  BY <1>7 DEF ConstraintsChanged, GeometryInv, Running, EncoderGeometry
<1>8. CASE Reconnect
  BY <1>8 DEF Reconnect, GeometryInv, Running, EncoderGeometry
<1>9. CASE \/ \E o \in Offers : BeginUpdate(o)
           \/ Deliver \/ StoppedEvent
           \/ FrameReady \/ FrameRejected \/ FrameStopped \/ FrameFailed
           \/ UNCHANGED vars
  BY <1>1, <1>9 DEF BeginUpdate, Deliver, ConstraintEvent, DoneEvent, StoppedEvent,
       FrameReady, FrameRejected, FrameStopped, FrameFailed, FrameEvent, vars, capture
<1>10. CASE \/ NegotiationStopped \/ RenegotiationStopped \/ RenegotiationTimedOut
            \/ CaptureFails \/ (CaptureFrame /\ session_stopped)
  BY <1>2, <1>10 DEF NegotiationStopped, RenegotiationStopped, RenegotiationTimedOut,
                     CaptureFails, CaptureFrame
<1>11. CASE ConstraintsChanged
  BY <1>2, <1>6, <1>7, <1>11 DEF ConstraintsChanged
<1>12. CASE Renegotiated
  BY <1>6, <1>12 DEF Renegotiated
<1>13. QED
  BY <1>3, <1>4, <1>5, <1>8, <1>9, <1>10, <1>11, <1>12 DEF Next, ClientStep

\* No frame of another geometry than the encoder's ever reaches it, across
\* any number of constraint changes, retries and reconnections.
THEOREM GeometryCorrect == Spec => []EncoderGeometry
<1>1. GeometryInv => EncoderGeometry
  BY DEF GeometryInv
<1>2. QED
  BY GeometryInit, GeometryNext, <1>1, PTL DEF Spec

-----------------------------------------------------------------------------
(* No constraint event is lost when updates do not overlap.                 *)

\* Unless a batch begins before the one before it was used (MaxUnread = 1),
\* it begins against consumed or empty constraints, and while it is being
\* delivered the constraints are neither consumed nor complete.
DeliveryInv ==
  /\ ~announcing => pending = {}
  /\ announcing => caps_consumed \/ ~session_done
  /\ announcing /\ pending # Kinds(offer) => ~caps_consumed /\ ~session_done
  /\ unread = 0 => caps_consumed /\ ~announcing
  /\ ConstraintsKept

\* The constraint just delivered is in caps, beside those that were.
LEMMA EventKept ==
  ASSUME TypeOK, NEW k \in pending, NEW c \in CapsType,
         caps' = WithEvent(c, k), UNCHANGED offer
  PROVE  /\ Kept(k)'
         /\ \A j \in Kinds(offer) \ {k} : c = caps /\ Kept(j) => Kept(j)'
<1>1. k \in Kinds(offer)
  BY DEF TypeOK
<1>2. CASE k = "size"
  <2>1. caps' = [c EXCEPT !.size = offer.size]
    BY <1>2 DEF WithEvent
  <2>2. QED
    BY <1>2, <2>1 DEF Kept, CapsType
<1>3. CASE k = "device"
  <2>1. caps' = [c EXCEPT !.device = offer.device]
    BY <1>3 DEF WithEvent
  <2>2. QED
    BY <1>3, <2>1 DEF Kept, CapsType
<1>4. CASE k # "size" /\ k # "device"
  <2> DEFINE e == [fourcc |-> k, mods |-> offer.fmts[k]]
  <2>1. caps' = [c EXCEPT !.fmts = Append(@, e)]
    BY <1>4 DEF WithEvent
  <2>2. /\ caps'.size = c.size /\ caps'.device = c.device
        /\ caps'.fmts = Append(c.fmts, e)
    BY <2>1 DEF CapsType
  <2>3. c.fmts \in Seq([fourcc : Fourccs, mods : SUBSET Modifiers])
    BY DEF CapsType
  <2> HIDE DEF e
  <2>4. Len(c.fmts) + 1 \in DOMAIN caps'.fmts /\ caps'.fmts[Len(c.fmts) + 1] = e
    BY <2>2, <2>3
  <2>5. \A i \in DOMAIN c.fmts : i \in DOMAIN caps'.fmts /\ caps'.fmts[i] = c.fmts[i]
    BY <2>2, <2>3
  <2>6. Kept(k)'
    BY <1>4, <2>4 DEF Kept, e
  <2>7. ASSUME NEW j \in Kinds(offer) \ {k}, c = caps, Kept(j)
        PROVE  Kept(j)'
    BY <2>2, <2>5, <2>7 DEF Kept
  <2>8. QED
    BY <2>6, <2>7
<1>5. QED
  BY <1>2, <1>3, <1>4

LEMMA DeliveryInit == Init => DeliveryInv
<1> SUFFICES ASSUME Init PROVE DeliveryInv
  OBVIOUS
<1>1. Kinds(offer) \ pending = {}
  BY DEF Init
<1>2. ConstraintsKept
  BY <1>1 DEF ConstraintsKept
<1>3. announcing /\ ~session_done /\ pending = Kinds(offer)
  BY DEF Init
<1>4. unread = 1
  BY DEF Init
<1>5. QED
  BY <1>2, <1>3, <1>4 DEF DeliveryInv

LEMMA DeliveryConstraint ==
  ASSUME TypeOK, DeliveryInv, NEW k, ConstraintEvent(k)
  PROVE  DeliveryInv'
<1>1. k \in pending /\ k \in Kinds(offer) /\ pending' = pending \ {k} /\ announcing
      /\ UNCHANGED <<offer, announcing, unread, pc>>
  BY DEF ConstraintEvent, capture, TypeOK
<1>2. ~caps_consumed' /\ ~session_done'
  BY <1>1 DEF ConstraintEvent, begin_generation, DeliveryInv
<1>3. Fresh \in CapsType
  BY DEF Fresh, TypeOK, CapsType, NoCaps
<1>4. caps' = WithEvent(Fresh, k)
  BY DEF ConstraintEvent
<1>5. Kept(k)' /\ \A j \in Kinds(offer) \ {k} : Fresh = caps /\ Kept(j) => Kept(j)'
  BY <1>1, <1>3, <1>4, EventKept
<1>6. ConstraintsKept'
  <2>1. CASE caps_consumed
    <3>1. pending = Kinds(offer)
      BY <1>1, <2>1 DEF DeliveryInv
    <3>2. QED
      BY <1>1, <1>5, <3>1 DEF ConstraintsKept
  <2>2. CASE ~caps_consumed
    <3>1. Fresh = caps
      BY <2>2 DEF Fresh
    <3>2. QED
      BY <1>1, <1>5, <3>1 DEF ConstraintsKept, DeliveryInv
  <2>3. QED
    BY <2>1, <2>2
<1>7. unread # 0
  BY <1>1, <1>2, <1>6 DEF DeliveryInv, TypeOK
<1>8. QED
  BY <1>1, <1>2, <1>6, <1>7 DEF DeliveryInv

\* Using a generation: only a complete one is used.
LEMMA DeliveryAllocate ==
  ASSUME TypeOK, DeliveryInv, session_done, NEW choice, Allocate(choice),
         UNCHANGED <<offer, announcing, pending, caps, session_done>>,
         pc # "closed"
  PROVE  DeliveryInv'
<1>1. ConstraintsKept'
  BY DEF DeliveryInv, ConstraintsKept, Kept
<1>2. caps_consumed' /\ (announcing' => pending' = Kinds(offer'))
  BY DEF DeliveryInv, Allocate, TypeOK
<1>3. unread' = 0 => ~announcing'
  <2>1. announcing => unread' = 1
    BY DEF Allocate
  <2>2. unread' = 0 => ~announcing
    BY <2>1
  <2>3. QED
    BY <2>2
<1>4. QED
  BY <1>1, <1>2, <1>3 DEF DeliveryInv

LEMMA DeliveryClose ==
  ASSUME DeliveryInv, NEW reason, Close(reason),
         UNCHANGED <<offer, announcing, pending, unread, session_done, caps_consumed>>
  PROVE  DeliveryInv'
BY DEF Close, DeliveryInv, ConstraintsKept

LEMMA DeliveryRebuild ==
  ASSUME TypeOK, DeliveryInv, session_done, pc # "closed", Rebuild
  PROVE  DeliveryInv'
<1>1. CASE (\E reason : Close(reason)) /\ UNCHANGED <<unread, caps_consumed>>
  BY <1>1, DeliveryClose DEF SameGeometry, Rebuild
<1>2. CASE \E choice : Allocate(choice)
  BY <1>2, DeliveryAllocate DEF SameGeometry, Rebuild
<1>3. QED
  BY <1>1, <1>2 DEF SameGeometry, Rebuild, AllocationFails

LEMMA DeliveryNegotiated ==
  ASSUME TypeOK, DeliveryInv, Negotiated
  PROVE  DeliveryInv'
<1>1. CASE AllocationFails
  BY <1>1, DeliveryClose DEF Negotiated, AllocationFails
<1>2. CASE \E choice : Allocate(choice)
  BY <1>2, DeliveryAllocate DEF Negotiated
<1>3. QED
  BY <1>1, <1>2 DEF Negotiated

LEMMA DeliveryNext ==
  ASSUME MaxUnread = 1, TypeOK, DeliveryInv, [Next]_vars
  PROVE  DeliveryInv'
<1>1. CASE \/ UNCHANGED <<offer, announcing, pending, unread, handlers, pc>>
           \/ /\ UNCHANGED <<offer, announcing, pending, unread>> /\ pc' # "closed"
              /\ pc # "closed" /\ UNCHANGED handlers
  BY <1>1 DEF DeliveryInv, ConstraintsKept, Kept, handlers
<1>2. CASE (\E reason : Close(reason)) /\ UNCHANGED <<compositor, handlers>>
  BY <1>2, DeliveryClose DEF compositor, handlers
<1>3. ASSUME NEW o \in Offers, BeginUpdate(o) PROVE DeliveryInv'
  <2>1. unread = 0 /\ caps_consumed /\ caps_consumed' /\ announcing' /\ unread' = 1
    BY <1>3 DEF BeginUpdate, TypeOK, DeliveryInv, handlers
  <2>2. pending' = Kinds(offer')
    BY <1>3 DEF BeginUpdate
  <2>3. ConstraintsKept'
    BY <2>2 DEF ConstraintsKept
  <2>4. QED
    BY <2>1, <2>2, <2>3 DEF DeliveryInv
<1>4. CASE Deliver
  <2>1. CASE DoneEvent
    BY <2>1 DEF DoneEvent, DeliveryInv, ConstraintsKept, Kept, capture
  <2>2. QED
    BY <1>4, <2>1, DeliveryConstraint DEF Deliver
<1>5. CASE StoppedEvent
  BY <1>5 DEF StoppedEvent, compositor, capture, DeliveryInv, ConstraintsKept, Kept
<1>6. CASE FrameReady \/ FrameRejected \/ FrameStopped \/ FrameFailed \/ UNCHANGED vars
  BY <1>1, <1>6 DEF FrameReady, FrameRejected, FrameStopped, FrameFailed, FrameEvent,
                    compositor, capture, vars
<1>7. CASE Negotiated
  BY <1>7, DeliveryNegotiated
<1>8. CASE \/ NegotiationStopped \/ RenegotiationStopped \/ RenegotiationTimedOut
           \/ CaptureFails \/ (CaptureFrame /\ session_stopped)
  BY <1>2, <1>8 DEF NegotiationStopped, RenegotiationStopped, RenegotiationTimedOut,
                    CaptureFails, CaptureFrame
<1>9. CASE FrameCaptured \/ (CaptureFrame /\ ~session_stopped)
  BY <1>1, <1>9 DEF FrameCaptured, CaptureFrame, RequestFrame, compositor
<1>10. CASE ConstraintsChanged
  <2>1. CASE session_done /\ Rebuild
    BY <1>10, <2>1, DeliveryRebuild DEF ConstraintsChanged
  <2>2. QED
    BY <1>1, <1>2, <1>10, <2>1 DEF ConstraintsChanged, compositor
<1>11. CASE Renegotiated
  BY <1>11, DeliveryRebuild DEF Renegotiated
<1>12. CASE Reconnect
  <2>1. pending' = Kinds(offer')
    BY <1>12 DEF Reconnect
  <2>2. ConstraintsKept'
    BY <2>1 DEF ConstraintsKept
  <2>3. announcing' /\ ~session_done'
    BY <1>12 DEF Reconnect
  <2>4. unread' = 1
    BY <1>12 DEF Reconnect
  <2>5. QED
    BY <2>1, <2>2, <2>3, <2>4 DEF DeliveryInv
<1>13. QED
  BY <1>3, <1>4, <1>5, <1>6, <1>7, <1>8, <1>9, <1>10, <1>11, <1>12 DEF Next, ClientStep

\* When the compositor begins no update before the one before it was used, no
\* constraint event is ever lost, whichever order a batch arrives in and
\* wherever frames and renegotiations fall among its events.  Updates that overlap do
\* lose events: TLC shows one with MaxUnread = 2.
THEOREM ConstraintsSurvive ==
  ASSUME MaxUnread = 1
  PROVE  Spec => []ConstraintsKept
<1>1. TypeOK /\ DeliveryInv /\ [Next]_vars => (TypeOK /\ DeliveryInv)'
  BY TypeNext, DeliveryNext
<1>2. DeliveryInv => ConstraintsKept
  BY DEF DeliveryInv
<1>3. QED
  BY TypeInit, DeliveryInit, <1>1, <1>2, PTL DEF Spec

-----------------------------------------------------------------------------
(* A session recovers from every change it could follow.                    *)

\* Of the batch that caps are being filled from, caps hold what was delivered and
\* nothing else.
CapsExact ==
  /\ caps.size = IF "size" \in pending THEN None ELSE offer.size
  /\ caps.device = IF "device" \in pending THEN None ELSE offer.device
  /\ \A i \in DOMAIN caps.fmts :
       /\ caps.fmts[i].fourcc \in Kinds(offer) \ pending
       /\ caps.fmts[i].mods = offer.fmts[caps.fmts[i].fourcc]
  /\ \A i, j \in DOMAIN caps.fmts : caps.fmts[i].fourcc = caps.fmts[j].fourcc => i = j

Rejected == pc = "renegotiate" \/ (pc = "capture" /\ frame = "buffer_constraints")

\* A running session's pool meets the constraints it was built for, and only a batch
\* begun since can have made it unfit.
RecoveryInv ==
  /\ ~caps_consumed => CapsExact
  /\ pc = "negotiate" => ~caps_consumed
  /\ Running => Fits(pool, builtFor)
  /\ Running /\ caps_consumed /\ ~announcing => offer = builtFor
  /\ Rejected => ~caps_consumed /\ offer # builtFor
  /\ pc # "closed" => ended = ""
  /\ RecoversTransparently

\* Only modifiers on offer are acceptable.
LEMMA AcceptableOffered ==
  ASSUME NEW mods
  PROVE  Acceptable(mods) \subseteq mods
BY DEF Acceptable, FirstMatch

\* What is picked from complete constraints is on offer.
LEMMA PickOffered ==
  ASSUME CapsExact, NEW choice \in pick_dmabuf_format(caps.fmts)
  PROVE  choice[2] \in offer.fmts[choice[1]]
<1>1. PICK f \in Fourccs : choice \in FromFormat(caps.fmts, f)
  BY DEF pick_dmabuf_format, Fourccs
<1>2. PICK i \in DOMAIN caps.fmts :
        caps.fmts[i].fourcc = f /\ choice \in {f} \X Acceptable(caps.fmts[i].mods)
  BY <1>1 DEF FromFormat, FirstMatch
<1>3. choice[1] = f /\ choice[2] \in Acceptable(caps.fmts[i].mods)
  BY <1>2
<1>4. caps.fmts[i].mods = offer.fmts[f]
  BY <1>2 DEF CapsExact
<1>5. QED
  BY <1>3, <1>4, AcceptableOffered

\* A shared format is found in complete constraints.
LEMMA SharedIsPicked ==
  ASSUME TypeOK, CapsExact, ConstraintsKept, pending = {}, pc # "closed", Shared(offer)
  PROVE  pick_dmabuf_format(caps.fmts) # {}
<1>1. PICK f \in Fourccs : Acceptable(offer.fmts[f]) # {}
  BY DEF Shared
<1>2. offer.fmts[f] # {}
  BY <1>1, AcceptableOffered
<1>3. f \in Kinds(offer) /\ f # "size" /\ f # "device"
  BY <1>2 DEF Kinds, Fourccs
<1>4. PICK i \in DOMAIN caps.fmts : caps.fmts[i] = [fourcc |-> f, mods |-> offer.fmts[f]]
  BY <1>3 DEF ConstraintsKept, Kept
<1>5. \A j \in DOMAIN caps.fmts : caps.fmts[j].fourcc = f => j = i
  BY <1>4 DEF CapsExact
<1>6. \A j \in 1..(i - 1) : ~(caps.fmts[j].fourcc = f)
  <2>1. caps.fmts \in Seq([fourcc : Fourccs, mods : SUBSET Modifiers])
    BY DEF TypeOK, CapsType
  <2>2. \A j \in 1..(i - 1) : j \in DOMAIN caps.fmts /\ j # i
    BY <2>1
  <2>3. QED
    BY <1>5, <2>2
<1>7. FromFormat(caps.fmts, f) # {}
  <2>1. PICK a : a \in Acceptable(caps.fmts[i].mods)
    BY <1>1, <1>4
  <2>2. <<f, a>> \in {f} \X Acceptable(caps.fmts[i].mods)
    BY <2>1
  <2>3. <<f, a>> \in FromFormat(caps.fmts, f)
    BY <1>4, <1>6, <2>2 DEF FromFormat, FirstMatch
  <2>4. QED
    BY <2>3
<1>8. QED
  BY <1>7 DEF pick_dmabuf_format, Fourccs

\* Complete constraints lead to a pool, unless they share no format with the encoder.
LEMMA CompleteAllocates ==
  ASSUME TypeOK, CapsExact, ConstraintsKept, pending = {}, pc # "closed"
  PROVE  AllocationError \in {"", "no-format"} /\ (AllocationError = "no-format" => ~Shared(offer))
<1>1. offer \in OfferType
  BY ConstantsAssumption DEF TypeOK
<1>2. caps.size = offer.size /\ caps.device = offer.device
  BY DEF CapsExact
<1>3. caps.size # None /\ caps.device # None
  BY <1>1, <1>2, ConstantsAssumption DEF OfferType
<1>4. QED
  BY <1>3, SharedIsPicked DEF AllocationError

LEMMA AllocatedFits ==
  ASSUME TypeOK, CapsExact, pending = {}, NEW choice, Allocate(choice)
  PROVE  Fits(pool', offer)
<1>1. choice[2] \in offer.fmts[choice[1]]
  BY PickOffered DEF Allocate
<1>2. caps.size = offer.size /\ caps.device = offer.device
  BY DEF CapsExact
<1>3. QED
  BY <1>1, <1>2 DEF Allocate, Fits

\* A generation that is not used yet is complete when session_done says so.
LEMMA DoneIsComplete ==
  ASSUME DeliveryInv, session_done, ~caps_consumed
  PROVE  ~announcing /\ pending = {}
BY DEF DeliveryInv

\* Before the pool is built anew no further batch begins.
LEMMA UnusedBlocks ==
  ASSUME MaxUnread = 1, TypeOK, DeliveryInv, NEW o, BeginUpdate(o)
  PROVE  unread = 0 /\ caps_consumed
BY DEF BeginUpdate, TypeOK, DeliveryInv

LEMMA CloseRecovery ==
  ASSUME RecoveryInv, NEW reason, Close(reason),
         UNCHANGED <<offer, announcing, pending, caps, caps_consumed>>,
         reason = "buffer_constraints" => offer # builtFor,
         reason = "no-format" => ~Shared(offer),
         reason \notin {"no-size", "no-device"}
  PROVE  RecoveryInv'
<1>1. pc' = "closed" /\ ended' = reason /\ builtFor' = builtFor
  BY DEF Close
<1>2. CapsExact => CapsExact'
  BY DEF CapsExact
<1>3. RecoversTransparently'
  BY <1>1 DEF RecoversTransparently, RetryMeetsConstraints
<1>4. QED
  BY <1>1, <1>2, <1>3 DEF RecoveryInv, Running, Rejected

LEMMA AllocationFailsRecovery ==
  ASSUME TypeOK, DeliveryInv, RecoveryInv, session_done, ~caps_consumed, pc # "closed",
         AllocationFails, UNCHANGED <<offer, announcing, pending, caps>>
  PROVE  RecoveryInv'
<1>1. ~announcing /\ pending = {} /\ CapsExact /\ ConstraintsKept
  BY DoneIsComplete DEF RecoveryInv, DeliveryInv
<1>2. PICK reason \in {AllocationError, "allocation"} : Close(reason)
  BY DEF AllocationFails
<1>3. /\ reason = "no-format" => ~Shared(offer)
      /\ reason \notin {"no-size", "no-device", "buffer_constraints"}
  BY <1>1, CompleteAllocates
<1>4. QED
  BY <1>2, <1>3, CloseRecovery DEF AllocationFails

LEMMA AllocateRecovery ==
  ASSUME TypeOK, DeliveryInv, RecoveryInv, session_done, ~caps_consumed, pc # "closed",
         NEW choice, Allocate(choice), UNCHANGED <<offer, announcing, pending, caps, ended>>,
         pc' = "idle" \/ (pc' = "capture" /\ frame' = "none")
  PROVE  RecoveryInv'
<1>1. pending = {} /\ CapsExact
  BY DoneIsComplete DEF RecoveryInv
<1>2. Fits(pool', offer) /\ builtFor' = offer /\ caps_consumed'
  BY <1>1, AllocatedFits DEF Allocate
<1>3. ended = "" /\ ended' = ""
  BY DEF RecoveryInv
<1>4. RecoversTransparently'
  BY <1>3 DEF RecoversTransparently, RetryMeetsConstraints
<1>5. QED
  BY <1>2, <1>3, <1>4 DEF RecoveryInv, Running, Rejected, Fits

LEMMA NegotiatedRecovery ==
  ASSUME TypeOK, DeliveryInv, RecoveryInv, Negotiated
  PROVE  RecoveryInv'
<1>1. pc = "negotiate" /\ session_done /\ ~caps_consumed
      /\ UNCHANGED <<offer, announcing, pending, caps>>
  BY DEF Negotiated, RecoveryInv
<1>2. CASE AllocationFails
  BY <1>1, <1>2, AllocationFailsRecovery
<1>3. CASE \E choice : Allocate(choice) /\ pc' = "idle" /\ UNCHANGED ended
  BY <1>1, <1>3, AllocateRecovery
<1>4. QED
  BY <1>2, <1>3 DEF Negotiated

LEMMA RebuildRecovery ==
  ASSUME TypeOK, DeliveryInv, RecoveryInv, session_done, Rejected, Rebuild
  PROVE  RecoveryInv'
<1>1. ~caps_consumed /\ pc # "closed" /\ UNCHANGED <<offer, announcing, pending, caps>>
  BY DEF RecoveryInv, Rejected, Rebuild
<1>2. CASE AllocationFails
  BY <1>1, <1>2, AllocationFailsRecovery
<1>3. CASE \E choice : Allocate(choice) /\ RequestFrame(0) /\ UNCHANGED ended
  BY <1>1, <1>3, AllocateRecovery DEF RequestFrame
<1>4. CASE (Close("stopped") \/ Close("geometry")) /\ UNCHANGED caps_consumed
  BY <1>1, <1>4, CloseRecovery
<1>5. QED
  BY <1>2, <1>3, <1>4 DEF Rebuild

\* An event of the batch is added to what was kept of it.
LEMMA EventExact ==
  ASSUME TypeOK, DeliveryInv, RecoveryInv, NEW k, ConstraintEvent(k)
  PROVE  CapsExact'
<1>1. /\ k \in pending /\ k \in Kinds(offer) /\ pending' = pending \ {k} /\ announcing
      /\ offer' = offer /\ caps' = WithEvent(Fresh, k)
  BY DEF ConstraintEvent, TypeOK
<1>2. /\ Fresh \in CapsType
      /\ Fresh.size = IF "size" \in pending THEN None ELSE offer.size
      /\ Fresh.device = IF "device" \in pending THEN None ELSE offer.device
      /\ \A i \in DOMAIN Fresh.fmts :
           /\ Fresh.fmts[i].fourcc \in Kinds(offer) \ pending
           /\ Fresh.fmts[i].mods = offer.fmts[Fresh.fmts[i].fourcc]
      /\ \A i, j \in DOMAIN Fresh.fmts : Fresh.fmts[i].fourcc = Fresh.fmts[j].fourcc => i = j
  <2>1. CASE caps_consumed
    <3>1. pending = Kinds(offer)
      BY <1>1, <2>1 DEF DeliveryInv
    <3>2. "size" \in pending /\ "device" \in pending
      BY <3>1 DEF Kinds
    <3>3. NoCaps \in CapsType /\ NoCaps.size = None /\ NoCaps.device = None /\ DOMAIN NoCaps.fmts = {}
      BY DEF NoCaps, CapsType
    <3>4. QED
      BY <2>1, <3>2, <3>3 DEF Fresh
  <2>2. CASE ~caps_consumed
    BY <2>2 DEF Fresh, RecoveryInv, CapsExact, TypeOK
  <2>3. QED
    BY <2>1, <2>2
<1>3. CASE k = "size" \/ k = "device"
  <2>1. /\ caps'.fmts = Fresh.fmts
        /\ caps'.size = IF k = "size" THEN offer.size ELSE Fresh.size
        /\ caps'.device = IF k = "device" THEN offer.device ELSE Fresh.device
    BY <1>1, <1>2, <1>3 DEF WithEvent, CapsType
  <2>2. QED
    BY <1>1, <1>2, <1>3, <2>1 DEF CapsExact
<1>4. CASE k # "size" /\ k # "device"
  <2> DEFINE e == [fourcc |-> k, mods |-> offer.fmts[k]]
             F == Fresh.fmts
  <2>1. /\ caps'.size = Fresh.size /\ caps'.device = Fresh.device
        /\ caps'.fmts = Append(F, e)
    BY <1>1, <1>2, <1>4 DEF WithEvent, CapsType
  <2>2. F \in Seq([fourcc : Fourccs, mods : SUBSET Modifiers])
    BY <1>2 DEF CapsType
  <2>3. e.fourcc = k /\ e.mods = offer.fmts[k]
    OBVIOUS
  <2> HIDE DEF e, F
  <2>4. /\ DOMAIN caps'.fmts = DOMAIN F \cup {Len(F) + 1} /\ Len(F) + 1 \notin DOMAIN F
        /\ caps'.fmts[Len(F) + 1] = e
        /\ \A i \in DOMAIN F : caps'.fmts[i] = F[i]
    BY <2>1, <2>2
  <2>5. \A i \in DOMAIN F : F[i].fourcc # k
    BY <1>1, <1>2 DEF F
  <2>6. \A i \in DOMAIN caps'.fmts :
          /\ caps'.fmts[i].fourcc \in Kinds(offer) \ pending'
          /\ caps'.fmts[i].mods = offer.fmts[caps'.fmts[i].fourcc]
    BY <1>1, <1>2, <2>3, <2>4 DEF F
  <2>7. \A i, j \in DOMAIN caps'.fmts : caps'.fmts[i].fourcc = caps'.fmts[j].fourcc => i = j
    BY <1>2, <2>3, <2>4, <2>5 DEF F
  <2>8. QED
    BY <1>1, <1>2, <1>4, <2>1, <2>6, <2>7 DEF CapsExact
<1>5. QED
  BY <1>3, <1>4

LEMMA EventRecovery ==
  ASSUME TypeOK, DeliveryInv, RecoveryInv, NEW k, ConstraintEvent(k)
  PROVE  RecoveryInv'
<1>1. CapsExact' /\ ~caps_consumed'
  BY EventExact DEF ConstraintEvent, begin_generation
<1>2. UNCHANGED <<offer, announcing, frame, pc, pool, ended, builtFor>>
  BY DEF ConstraintEvent, capture
<1>3. QED
  BY <1>1, <1>2 DEF RecoveryInv, Running, Rejected, Fits, RecoversTransparently,
                    RetryMeetsConstraints

LEMMA DoneRecovery ==
  ASSUME TypeOK, DeliveryInv, RecoveryInv, DoneEvent
  PROVE  RecoveryInv'
<1>1. /\ announcing /\ pending = {} /\ ~announcing'
      /\ UNCHANGED <<offer, pending, caps, caps_consumed, frame, pc, pool, ended, builtFor>>
  BY DEF DoneEvent, capture
<1>2. pending # Kinds(offer)
  BY <1>1 DEF Kinds
<1>3. ~caps_consumed
  BY <1>1, <1>2 DEF DeliveryInv
<1>4. pc # "closed"
  BY DEF DoneEvent, Dispatching
<1>5. RecoversTransparently'
  BY <1>1, <1>4 DEF RecoveryInv, RecoversTransparently, RetryMeetsConstraints
<1>6. QED
  BY <1>1, <1>3, <1>5 DEF RecoveryInv, CapsExact, Running, Rejected, Fits

LEMMA BeginRecovery ==
  ASSUME MaxUnread = 1, TypeOK, DeliveryInv, RecoveryInv, NEW o \in Offers, BeginUpdate(o)
  PROVE  RecoveryInv'
<1>1. caps_consumed /\ announcing' /\ pc # "closed"
      /\ UNCHANGED <<caps_consumed, frame, pc, pool, ended, builtFor>>
  BY UnusedBlocks DEF BeginUpdate, handlers, capture
<1>2. pc # "negotiate" /\ ~Rejected /\ ended = ""
  BY <1>1 DEF RecoveryInv
<1>3. QED
  BY <1>1, <1>2 DEF RecoveryInv, Running, Rejected, Fits, RecoversTransparently,
                    RetryMeetsConstraints

LEMMA FrameRecovery ==
  ASSUME TypeOK, DeliveryInv, RecoveryInv, NEW outcome, FrameEvent(outcome),
         outcome = "buffer_constraints" => FrameRejected
  PROVE  RecoveryInv'
<1>1. /\ pc = "capture" /\ frame' = outcome
      /\ UNCHANGED <<offer, announcing, pending, caps, caps_consumed, pc, pool, ended, builtFor>>
  BY DEF FrameEvent, compositor, handlers, capture
<1>2. ASSUME outcome = "buffer_constraints" PROVE ~caps_consumed /\ offer # builtFor
  <2>1. ~Fits(pool, offer) /\ (announcing => pending # Kinds(offer))
    BY <1>2 DEF FrameRejected
  <2>2. offer # builtFor
    BY <1>1, <2>1 DEF RecoveryInv, Running
  <2>3. QED
    BY <1>1, <2>1, <2>2 DEF RecoveryInv, DeliveryInv, Running
<1>3. QED
  BY <1>1, <1>2 DEF RecoveryInv, CapsExact, Running, Rejected, Fits, RecoversTransparently,
                    RetryMeetsConstraints

\* What leaves the constraints alone, moves between the waits of a running session.
LEMMA QuietRecovery ==
  ASSUME RecoveryInv,
         UNCHANGED <<offer, announcing, pending, caps, caps_consumed, pool, ended, builtFor>>,
         Running' => Running, pc' = "negotiate" => pc = "negotiate", pc = "closed" <=> pc' = "closed",
         Rejected' => Rejected
  PROVE  RecoveryInv'
BY DEF RecoveryInv, CapsExact, Running, Fits, RecoversTransparently, RetryMeetsConstraints

LEMMA RecoveryInit == Init => RecoveryInv
<1>1. SUFFICES ASSUME Init PROVE RecoveryInv
  OBVIOUS
<1>2. pending = Kinds(offer) /\ caps = NoCaps /\ pc = "negotiate" /\ ended = "" /\ ~caps_consumed
  BY <1>1 DEF Init
<1>3. CapsExact
  <2>1. DOMAIN caps.fmts = {} /\ caps.size = None /\ caps.device = None
    <3>1. DOMAIN NoCaps.fmts = {} /\ NoCaps.size = None /\ NoCaps.device = None
      BY DEF NoCaps
    <3>2. QED
      BY <1>2, <3>1
  <2>2. "size" \in pending /\ "device" \in pending
    BY <1>2 DEF Kinds
  <2>3. QED
    BY <2>1, <2>2 DEF CapsExact
<1>4. QED
  BY <1>2, <1>3 DEF RecoveryInv, Running, Rejected, RecoversTransparently, RetryMeetsConstraints

LEMMA RecoveryNext ==
  ASSUME MaxUnread = 1, TypeOK, DeliveryInv, RecoveryInv, [Next]_vars
  PROVE  RecoveryInv'
<1>1. ASSUME NEW o \in Offers, BeginUpdate(o) PROVE RecoveryInv'
  BY <1>1, BeginRecovery
<1>2. CASE Deliver
  BY <1>2, EventRecovery, DoneRecovery DEF Deliver
<1>3. CASE StoppedEvent \/ UNCHANGED vars
  BY <1>3, QuietRecovery DEF StoppedEvent, vars, compositor, handlers, capture, Running, Rejected
<1>4. CASE FrameReady \/ FrameRejected \/ FrameStopped \/ FrameFailed
  BY <1>4, FrameRecovery DEF FrameReady, FrameRejected, FrameStopped, FrameFailed
<1>5. CASE Negotiated
  BY <1>5, NegotiatedRecovery
<1>6. CASE \/ NegotiationStopped \/ RenegotiationStopped \/ RenegotiationTimedOut
           \/ (CaptureFrame /\ session_stopped)
  BY <1>6, CloseRecovery DEF NegotiationStopped, RenegotiationStopped, RenegotiationTimedOut,
                             CaptureFrame, compositor, handlers
<1>7. CASE CaptureFrame /\ ~session_stopped
  BY <1>7, QuietRecovery DEF CaptureFrame, RequestFrame, compositor, handlers, Running, Rejected
<1>8. CASE FrameCaptured
  BY <1>8, QuietRecovery DEF FrameCaptured, compositor, handlers, Running, Rejected
<1>9. CASE CaptureFails
  <2>1. /\ Close(frame) /\ UNCHANGED <<compositor, handlers>>
        /\ frame \in {"stopped", "other", "buffer_constraints"} /\ pc = "capture"
    BY <1>9 DEF CaptureFails
  <2>2. frame = "buffer_constraints" => offer # builtFor
    BY <2>1 DEF RecoveryInv, Rejected
  <2>3. QED
    BY <2>1, <2>2, CloseRecovery DEF compositor, handlers
<1>10. CASE ConstraintsChanged
  <2>1. Rejected
    BY <1>10 DEF ConstraintsChanged, Rejected
  <2>2. CASE session_done /\ Rebuild
    BY <2>1, <2>2, RebuildRecovery
  <2>3. CASE Close("stopped") /\ UNCHANGED <<compositor, handlers, frame>>
    BY <2>3, CloseRecovery DEF compositor, handlers
  <2>4. CASE /\ pc' = "renegotiate" /\ pc = "capture"
             /\ UNCHANGED <<compositor, handlers, pool, ended, builtFor>>
    BY <2>1, <2>4, QuietRecovery DEF compositor, handlers, Running
  <2>5. QED
    BY <1>10, <2>2, <2>3, <2>4 DEF ConstraintsChanged
<1>11. CASE Renegotiated
  BY <1>11, RebuildRecovery DEF Renegotiated, Rejected
<1>12. CASE Reconnect
  <2>1. /\ pc' = "negotiate" /\ ended' = "" /\ ~caps_consumed' /\ caps' = NoCaps
        /\ offer' = offer /\ pending' = Kinds(offer)
    BY <1>12 DEF Reconnect
  <2>2. CapsExact'
    <3>1. DOMAIN caps'.fmts = {} /\ caps'.size = None /\ caps'.device = None
      <4>1. DOMAIN NoCaps.fmts = {} /\ NoCaps.size = None /\ NoCaps.device = None
        BY DEF NoCaps
      <4>2. QED
        BY <2>1, <4>1
    <3>2. "size" \in pending' /\ "device" \in pending'
      BY <2>1 DEF Kinds
    <3>3. QED
      BY <3>1, <3>2 DEF CapsExact
  <2>3. QED
    BY <2>1, <2>2 DEF RecoveryInv, Running, Rejected, RecoversTransparently,
                      RetryMeetsConstraints
<1>13. QED
  BY <1>1, <1>2, <1>3, <1>4, <1>5, <1>6, <1>7, <1>8, <1>9, <1>10, <1>11, <1>12
     DEF Next, ClientStep

\* When no update begins before the one before it was used, capture_frame absorbs
\* every change it could: a session ends over buffer constraints only when they changed
\* once more after its pool was rebuilt, or when no format of the encoder meets them, and
\* never for a constraint it failed to note (session.rs:111-118, 550, 586-589).
THEOREM ChangesAbsorbed ==
  ASSUME MaxUnread = 1
  PROVE  Spec => []RecoversTransparently
<1>1. /\ TypeOK /\ DeliveryInv /\ RecoveryInv /\ [Next]_vars
           => (TypeOK /\ DeliveryInv /\ RecoveryInv)'
  BY TypeNext, DeliveryNext, RecoveryNext
<1>2. RecoveryInv => RecoversTransparently
  BY DEF RecoveryInv
<1>3. QED
  BY TypeInit, DeliveryInit, RecoveryInit, <1>1, <1>2, PTL DEF Spec

-----------------------------------------------------------------------------
(* The output of KWin that the other backend captures (PlasmaOutput): what *)
(* fails it was said of the stream that it asked for last.                 *)

CONSTANTS MaxWire, NoStream

VARIABLES asked, node, failed, closed, heard, wire, kwin, monitor, fault

Plasma == INSTANCE PlasmaOutput

Entries ==
  [node : Plasma!Streams \cup {NoStream}, failed : {"no", "orphaned", "refused"},
   closed : BOOLEAN]

Fates == {"none", "asked", "live", "refused", "orphaned", "closed"}

PlasmaTypes ==
  /\ wire \in Seq(Entries) /\ kwin \in [Plasma!Streams -> Fates]
  /\ failed \in {"no", "orphaned", "refused"} /\ closed \in BOOLEAN

Settling == pc \in {"settle", "resettle"}

\* One stream is asked for, and a second one only when the first was made but could
\* not be streamed.
PhaseInv ==
  /\ pc = "start" =>
       wire = <<>> /\ failed = "no" /\ closed = FALSE /\ kwin = [s \in Plasma!Streams |-> "none"]
  /\ pc \in {"settle", "enable", "find"} => asked = "virtual" /\ kwin["plain"] = "none"
  /\ pc \in {"enable", "find"} => kwin["virtual"] = "orphaned"
  /\ pc = "resettle" => asked = "plain" /\ kwin["virtual"] \in {"none", "orphaned"}

\* A failure or a close is true of the stream asked for last.
Honest(f, c) ==
  /\ f = "refused" => kwin[asked] = "refused"
  /\ f = "orphaned" => asked = "virtual" /\ kwin[asked] = "orphaned"
  /\ c => f = "orphaned" \/ kwin[asked] = "closed"

\* While an answer is awaited, that goes for what is known and for what is to be read.
HonestInv ==
  Settling => Honest(failed, closed)
              /\ \A k \in DOMAIN wire : Honest(wire[k].failed, wire[k].closed)

ErrorInv == PlasmaTypes /\ PhaseInv /\ HonestInv /\ Plasma!ErrorJustified

LEMMA EntryAppended ==
  ASSUME NEW e \in Entries, wire \in Seq(Entries), Plasma!Send(e)
  PROVE  /\ wire' \in Seq(Entries)
         /\ \A k \in DOMAIN wire' : wire'[k] = e \/ (k \in DOMAIN wire /\ wire'[k] = wire[k])
  BY DEF Plasma!Send

LEMMA SaysTyped ==
  ASSUME NEW what, NEW s \in Plasma!Streams \cup {NoStream}
  PROVE  Plasma!Says(what, s) \in Entries
  BY DEF Plasma!Says, Entries

\* KWin speaks of a stream that it has not yet refused, made or closed: nothing that
\* was said before has failed it.
LEMMA KwinSpeaks ==
  ASSUME PlasmaTypes, PhaseInv, HonestInv, Plasma!ErrorJustified,
         NEW s \in Plasma!Streams, NEW e \in Entries, NEW fate \in Fates,
         kwin[s] \in {"asked", "live"}, kwin' = [kwin EXCEPT ![s] = fate],
         Plasma!Send(e), UNCHANGED <<pc, asked, failed, closed, fault>>,
         e.failed = "refused" => fate = "refused",
         e.failed = "orphaned" => s = "virtual" /\ fate = "orphaned",
         e.closed => e.failed = "orphaned" \/ fate = "closed"
  PROVE  PlasmaTypes' /\ PhaseInv' /\ HonestInv' /\ Plasma!ErrorJustified'
<1>1. wire' \in Seq(Entries) /\ kwin' \in [Plasma!Streams -> Fates]
  BY EntryAppended DEF PlasmaTypes
<1>2. PlasmaTypes'
  BY <1>1 DEF PlasmaTypes
<1>3. s \in {"virtual", "plain"} /\ "virtual" \in Plasma!Streams /\ "plain" \in Plasma!Streams
  BY DEF Plasma!Streams
<1>4. pc # "start"
  BY DEF PhaseInv
<1>5. PhaseInv'
  BY <1>3, <1>4 DEF PhaseInv, PlasmaTypes
<1>6. ASSUME Settling PROVE asked = s
  BY <1>3, <1>6 DEF Settling, PhaseInv
<1>7. HonestInv'
  <2> SUFFICES ASSUME Settling
               PROVE  Honest(failed, closed)'
                      /\ \A k \in DOMAIN wire' : Honest(wire[k].failed, wire[k].closed)'
    BY DEF HonestInv, Settling
  <2>1. asked = s /\ kwin'[asked'] = fate /\ asked' = asked
    BY <1>6 DEF PlasmaTypes
  <2>2. failed = "no" /\ closed = FALSE
    BY <2>1 DEF HonestInv, Honest, PlasmaTypes
  <2>3. Honest(failed, closed)'
    BY <2>2 DEF Honest
  <2>4. ASSUME NEW k \in DOMAIN wire' PROVE Honest(wire[k].failed, wire[k].closed)'
    <3>1. CASE wire'[k] = e
      BY <2>1, <3>1 DEF Honest
    <3>2. CASE k \in DOMAIN wire /\ wire'[k] = wire[k]
      <4>1. wire[k] \in Entries
        BY <3>2 DEF PlasmaTypes
      <4>2. wire[k].failed = "no" /\ wire[k].closed = FALSE
        BY <2>1, <3>2, <4>1 DEF HonestInv, Honest, Entries
      <4> QED
        BY <3>2, <4>2 DEF Honest
    <3> QED
      BY <3>1, <3>2, EntryAppended DEF PlasmaTypes
  <2> QED
    BY <2>3, <2>4
<1>8. Plasma!ErrorJustified'
  BY DEF Plasma!ErrorJustified, PlasmaTypes
<1> QED
  BY <1>2, <1>5, <1>7, <1>8

LEMMA KwinAnswersHonestly ==
  ASSUME PlasmaTypes, PhaseInv, HonestInv, Plasma!ErrorJustified,
         NEW s \in Plasma!Streams, Plasma!KwinAnswers(s)
  PROVE  PlasmaTypes' /\ PhaseInv' /\ HonestInv' /\ Plasma!ErrorJustified'
<1>1. kwin[s] = "asked" /\ UNCHANGED <<pc, asked, failed, closed, fault>>
  BY DEF Plasma!KwinAnswers, Plasma!State
<1>2. CASE kwin' = [kwin EXCEPT ![s] = "live"] /\ Plasma!Send(Plasma!Says("created", s))
  <2>1. /\ Plasma!Says("created", s) \in Entries /\ "live" \in Fates
        /\ Plasma!Says("created", s).failed = "no" /\ Plasma!Says("created", s).closed = FALSE
    BY SaysTyped DEF Plasma!Says, Fates
  <2> QED
    BY <1>1, <1>2, <2>1, KwinSpeaks
<1>3. CASE kwin' = [kwin EXCEPT ![s] = "refused"] /\ Plasma!Send(Plasma!Says("refused", s))
  <2>1. /\ Plasma!Says("refused", s) \in Entries /\ "refused" \in Fates
        /\ Plasma!Says("refused", s).failed = "refused"
        /\ Plasma!Says("refused", s).closed = FALSE
    BY SaysTyped DEF Plasma!Says, Fates
  <2> QED
    BY <1>1, <1>3, <2>1, KwinSpeaks
<1>4. CASE /\ s = "virtual" /\ kwin' = [kwin EXCEPT ![s] = "orphaned"]
           /\ \E also \in BOOLEAN :
                Plasma!Send([Plasma!Says("orphaned", s) EXCEPT !.closed = also])
  <2>1. PICK also \in BOOLEAN : Plasma!Send([Plasma!Says("orphaned", s) EXCEPT !.closed = also])
    BY <1>4
  <2> DEFINE e == [Plasma!Says("orphaned", s) EXCEPT !.closed = also]
  <2>2. e \in Entries /\ e.failed = "orphaned" /\ "orphaned" \in Fates
    BY SaysTyped DEF Plasma!Says, Entries, Fates
  <2> QED
    BY <1>1, <1>4, <2>1, <2>2, KwinSpeaks
<1> QED
  BY <1>2, <1>3, <1>4 DEF Plasma!KwinAnswers

LEMMA KwinClosesHonestly ==
  ASSUME PlasmaTypes, PhaseInv, HonestInv, Plasma!ErrorJustified,
         NEW s \in Plasma!Streams, Plasma!KwinCloses(s)
  PROVE  PlasmaTypes' /\ PhaseInv' /\ HonestInv' /\ Plasma!ErrorJustified'
<1>1. /\ kwin[s] \in {"asked", "live"} /\ UNCHANGED <<pc, asked, failed, closed, fault>>
      /\ kwin' = [kwin EXCEPT ![s] = "closed"] /\ Plasma!Send(Plasma!Says("closed", s))
  BY DEF Plasma!KwinCloses, Plasma!State
<1>2. /\ Plasma!Says("closed", s) \in Entries /\ "closed" \in Fates
      /\ Plasma!Says("closed", s).failed = "no"
  BY SaysTyped DEF Plasma!Says, Fates
<1> QED
  BY <1>1, <1>2, KwinSpeaks

LEMMA KwinAdvertisesHonestly ==
  ASSUME ErrorInv, Plasma!KwinAdvertises
  PROVE  ErrorInv'
<1>1. /\ Plasma!Send(Plasma!Says("nothing", NoStream))
      /\ UNCHANGED <<pc, asked, failed, closed, fault, kwin>> /\ Settling
  BY DEF Plasma!KwinAdvertises, Plasma!State, Settling
<1>2. /\ Plasma!Says("nothing", NoStream) \in Entries
      /\ Plasma!Says("nothing", NoStream).failed = "no"
      /\ Plasma!Says("nothing", NoStream).closed = FALSE
  BY SaysTyped DEF Plasma!Says
<1>3. PlasmaTypes'
  BY <1>1, <1>2, EntryAppended DEF ErrorInv, PlasmaTypes
<1>4. HonestInv'
  <2>1. Honest(failed, closed)'
    BY <1>1 DEF ErrorInv, HonestInv, Honest
  <2>2. ASSUME NEW k \in DOMAIN wire' PROVE Honest(wire[k].failed, wire[k].closed)'
    BY <1>1, <1>2, EntryAppended DEF ErrorInv, PlasmaTypes, HonestInv, Honest
  <2> QED
    BY <2>1, <2>2 DEF HonestInv
<1> QED
  BY <1>1, <1>3, <1>4
     DEF ErrorInv, PhaseInv, Settling, Plasma!ErrorJustified

\* What is handled was read, and what was read or is known already is honest.
LEMMA DispatchHonestly == ASSUME ErrorInv, Plasma!Dispatch PROVE ErrorInv'
<1>1. PICK n \in 1..Len(wire) :
        Plasma!Handle(SubSeq(wire, 1, n)) /\ wire' = SubSeq(wire, n + 1, Len(wire))
  BY DEF Plasma!Dispatch
<1>2. UNCHANGED <<pc, asked, fault, kwin>> /\ Settling
  BY DEF Plasma!Dispatch, Settling
<1> DEFINE read == SubSeq(wire, 1, n)
<1>3. wire \in Seq(Entries) /\ failed \in {"no", "orphaned", "refused"} /\ closed \in BOOLEAN
  BY DEF ErrorInv, PlasmaTypes
<1>4. /\ read \in Seq(Entries) /\ \A k \in DOMAIN read : k \in DOMAIN wire /\ read[k] = wire[k]
      /\ wire' \in Seq(Entries)
      /\ \A k \in DOMAIN wire' : k + n \in DOMAIN wire /\ wire'[k] = wire[k + n]
  BY <1>1, <1>3
<1>5. \A k \in DOMAIN read : read[k] \in Entries /\ Honest(read[k].failed, read[k].closed)
  BY <1>2, <1>4 DEF ErrorInv, HonestInv
<1> HIDE DEF read
<1>6. /\ \/ failed' = failed /\ \A k \in DOMAIN read : read[k].failed = "no"
         \/ \E k \in DOMAIN read : failed' = read[k].failed /\ read[k].failed # "no"
      /\ closed' = (closed \/ \E k \in DOMAIN read : read[k].closed)
  BY <1>1 DEF Plasma!Handle, read
<1>7. failed' \in {"no", "orphaned", "refused"} /\ closed' \in BOOLEAN
  BY <1>3, <1>5, <1>6 DEF Entries
<1>8. failed' = "refused" => kwin[asked] = "refused"
  BY <1>2, <1>5, <1>6 DEF ErrorInv, HonestInv, Honest
<1>9. failed' = "orphaned" => asked = "virtual" /\ kwin[asked] = "orphaned"
  BY <1>2, <1>5, <1>6 DEF ErrorInv, HonestInv, Honest
<1>10. ASSUME kwin[asked] = "orphaned",
              failed = "orphaned" \/ \E k \in DOMAIN read : read[k].failed = "orphaned"
       PROVE  failed' = "orphaned"
  <2>1. failed' # "no"
    BY <1>6, <1>10
  <2>2. failed' # "refused"
    BY <1>8, <1>10
  <2> QED
    BY <1>7, <2>1, <2>2
<1>11. closed' => failed' = "orphaned" \/ kwin[asked] = "closed"
  BY <1>2, <1>5, <1>6, <1>10 DEF ErrorInv, HonestInv, Honest
<1>12. HonestInv'
  <2>1. Honest(failed, closed)'
    BY <1>2, <1>8, <1>9, <1>11 DEF Honest
  <2>2. ASSUME NEW k \in DOMAIN wire' PROVE Honest(wire[k].failed, wire[k].closed)'
    <3>1. Honest(wire[k + n].failed, wire[k + n].closed) /\ wire'[k] = wire[k + n]
      BY <1>2, <1>4 DEF ErrorInv, HonestInv
    <3> QED
      BY <1>2, <3>1 DEF Honest
  <2> QED
    BY <2>1, <2>2 DEF HonestInv
<1> QED
  BY <1>2, <1>4, <1>7, <1>12
     DEF ErrorInv, PlasmaTypes, PhaseInv, Settling, Plasma!ErrorJustified

\* The client's steps that read nothing.
LEMMA ClientHonestly ==
  ASSUME ErrorInv,
         \/ Plasma!Create \/ Plasma!Mirror \/ Plasma!NotGranted \/ Plasma!SettleTimesOut
         \/ Plasma!Hold \/ Plasma!Refused \/ Plasma!Enable \/ Plasma!EnableFails
         \/ Plasma!Recover \/ Plasma!NotFound \/ Plasma!Poll \/ Plasma!Disconnected
         \/ Plasma!Drop
  PROVE  ErrorInv'
<1> USE DEF ErrorInv, PlasmaTypes, PhaseInv, HonestInv, Settling, Plasma!ErrorJustified,
            Plasma!State
<1>1. CASE Plasma!NotGranted \/ Plasma!SettleTimesOut \/ Plasma!EnableFails
           \/ Plasma!NotFound \/ Plasma!Disconnected
  BY <1>1 DEF Plasma!NotGranted, Plasma!SettleTimesOut, Plasma!EnableFails,
              Plasma!NotFound, Plasma!Disconnected, Plasma!Fault
<1>2. CASE Plasma!Hold \/ Plasma!Poll \/ Plasma!Drop
  BY <1>2 DEF Plasma!Hold, Plasma!Poll, Plasma!Drop
<1>3. CASE Plasma!Enable
  BY <1>3 DEF Plasma!Enable
<1>4. CASE Plasma!Create \/ Plasma!Mirror
  <2>1. /\ kwin = [s \in Plasma!Streams |-> "none"] /\ wire' = <<>> /\ DOMAIN wire' = {}
        /\ failed' = "no" /\ closed' = FALSE /\ fault' = fault
        /\ "virtual" \in Plasma!Streams /\ "plain" \in Plasma!Streams
    BY <1>4 DEF Plasma!Create, Plasma!Mirror, Plasma!Streams
  <2>2. CASE Plasma!Create
    BY <2>1, <2>2 DEF Plasma!Create, Plasma!Ask, Honest, Fates
  <2>3. CASE Plasma!Mirror
    BY <2>1, <2>3 DEF Plasma!Mirror, Plasma!Ask, Honest, Fates
  <2> QED
    BY <1>4, <2>2, <2>3
<1>5. CASE Plasma!Refused
  BY <1>5 DEF Plasma!Refused, Honest
<1>6. CASE Plasma!Recover
  <2>1. /\ wire' = <<>> /\ DOMAIN wire' = {} /\ failed' = "no" /\ closed' = FALSE
        /\ "virtual" \in Plasma!Streams /\ "plain" \in Plasma!Streams
        /\ pc = "find" /\ pc' = "resettle" /\ asked' = "plain"
        /\ kwin' = [kwin EXCEPT !["plain"] = "asked"]
    BY <1>6 DEF Plasma!Recover, Plasma!Ask, Plasma!Streams
  <2>2. kwin' \in [Plasma!Streams -> Fates] /\ kwin'["virtual"] = kwin["virtual"]
    BY <2>1 DEF Fates
  <2>3. wire' \in Seq(Entries)
    BY <2>1
  <2>4. Honest(failed, closed)'
    BY <2>1 DEF Honest
  <2>5. kwin["virtual"] = "orphaned"
    BY <2>1
  <2> QED
    BY <2>1, <2>2, <2>3, <2>4, <2>5
<1> QED
  BY <1>1, <1>2, <1>3, <1>4, <1>5, <1>6

LEMMA ErrorStep ==
  ASSUME ErrorInv, [Plasma!Next]_(Plasma!vars)
  PROVE  ErrorInv'
<1>1. CASE Plasma!Client \/ Plasma!Disconnected \/ Plasma!Drop
  BY <1>1, ClientHonestly, DispatchHonestly DEF Plasma!Client
<1>2. ASSUME NEW s \in Plasma!Streams, Plasma!KwinAnswers(s) \/ Plasma!KwinCloses(s)
      PROVE  ErrorInv'
  BY <1>2, KwinAnswersHonestly, KwinClosesHonestly DEF ErrorInv
<1>3. CASE Plasma!KwinAdvertises
  BY <1>3, KwinAdvertisesHonestly
<1>4. CASE Plasma!KwinForgets \/ Plasma!Done \/ UNCHANGED Plasma!vars
  <2>1. UNCHANGED <<pc, asked, failed, closed, fault, kwin, wire>>
    BY <1>4 DEF Plasma!KwinForgets, Plasma!Done, Plasma!vars, Plasma!State
  <2> QED
    BY <2>1 DEF ErrorInv, PlasmaTypes, PhaseInv, HonestInv, Honest, Settling,
                Plasma!ErrorJustified
<1> QED
  BY <1>1, <1>2, <1>3, <1>4 DEF Plasma!Next

\* However much waits to be read and whenever it is: creating or mirroring an output
\* fails only if something but KWin's answer went wrong, or if the stream asked for last
\* was refused or closed; what KWin said of the first stream never counts against the
\* one recovered after it (plasma/mod.rs:353-381).
THEOREM ErrorsAreJustified ==
  Plasma!Spec => []Plasma!ErrorJustified
<1>1. ASSUME Plasma!Init PROVE ErrorInv
  <2>1. /\ pc = "start" /\ wire = <<>> /\ failed = "no" /\ closed = FALSE
        /\ kwin = [s \in Plasma!Streams |-> "none"]
    BY <1>1 DEF Plasma!Init
  <2>2. PlasmaTypes
    <3>1. wire \in Seq(Entries)
      BY <2>1
    <3>2. kwin \in [Plasma!Streams -> Fates]
      <4>1. "none" \in Fates
        BY DEF Fates
      <4> QED
        BY <2>1, <4>1
    <3> QED
      BY <2>1, <3>1, <3>2 DEF PlasmaTypes
  <2> QED
    BY <2>1, <2>2 DEF ErrorInv, PhaseInv, HonestInv, Settling, Plasma!ErrorJustified
<1>2. ErrorInv /\ [Plasma!Next]_(Plasma!vars) => ErrorInv'
  BY ErrorStep
<1>3. ErrorInv => Plasma!ErrorJustified
  BY DEF ErrorInv
<1> QED
  BY <1>1, <1>2, <1>3, PTL DEF Plasma!Spec
=============================================================================
