--------------------------- MODULE CaptureSession ---------------------------
(***************************************************************************)
(* The Wayland capture session of crates/capture/src/session.rs: buffer    *)
(* constraints announced by the compositor in batches, the buffer pool     *)
(* built from one such generation, the frame request that waits for its    *)
(* outcome, and the renegotiation that follows a constraints failure.      *)
(*                                                                         *)
(* The client changes its protocol state only while it dispatches events,  *)
(* so an event is delivered at the moment it is dispatched and the wire    *)
(* between the two is implicit.  One call of blocking_dispatch may process *)
(* several events before the caller looks at its flags again: while a loop *)
(* is waiting, further events may be delivered before its exit action.     *)
(***************************************************************************)
EXTENDS Naturals, Sequences

CONSTANTS
  Sizes,      \* geometries the output can have
  Devices,    \* DRM devices the compositor can ask for
  Modifiers,  \* DRM format modifiers
  Offers,     \* constraint sets the compositor may announce
  Allowed,    \* modifiers the encoder can import, in preference order
  PoolSize,   \* buffers in the pool (CaptureConfig::pool_size)
  MaxUnread,  \* batches begun since a pool was last built (environment bound)
  None        \* absence of a value

\* pick_dmabuf_format tries these two, in this order.
Fourccs == {"XR24", "AR24"}

\* A constraint set: fmts[f] = {} says that f is not offered.
OfferType == [size : Sizes, device : Devices, fmts : [Fourccs -> SUBSET Modifiers]]

ASSUME ConstantsAssumption ==
  /\ None \notin Sizes \cup Devices
  /\ Offers \subseteq OfferType
  /\ Allowed \in Seq(Modifiers)
  /\ PoolSize \in Nat \ {0}
  /\ MaxUnread \in Nat \ {0}

VARIABLES
  (* the compositor *)
  offer,       \* the constraints in force
  announcing,  \* a batch of constraint events is being sent
  pending,     \* constraint events of that batch not yet delivered
  unread,      \* batches begun since a pool was last built
  (* what the event handlers keep (State) *)
  caps, session_done, caps_consumed, session_stopped,
  frame,       \* outcome of the outstanding frame: frame_ready / frame_failed
  (* the capture session (Capture) and the encoder it feeds *)
  pc,
  retrying,    \* capture_frame is in its second try_capture_frame
  woken,       \* renegotiate has returned from a blocking_dispatch
  pool,        \* what the buffers of the pool look like
  next_buffer,
  encoder,     \* the caps the encoder was created with
  pushed,      \* the frame last handed to the encoder
  ended,       \* why the session ended
  builtFor     \* history: the constraints in force when the pool was built

compositor == <<offer, announcing, pending, unread>>
handlers == <<caps, session_done, caps_consumed, session_stopped>>
capture == <<pc, retrying, pool, next_buffer, encoder, pushed, ended, builtFor>>
vars == <<compositor, handlers, frame, woken, capture>>

-----------------------------------------------------------------------------
(* Constraint sets and the choice of a format.                             *)

\* The constraint events of a batch, done aside.
Kinds(o) == {"size", "device"} \cup {f \in Fourccs : o.fmts[f] # {}}

\* SessionCaps: format events append, so fmts is a sequence.
CapsType == [size : Sizes \cup {None}, device : Devices \cup {None},
             fmts : Seq([fourcc : Fourccs, mods : SUBSET Modifiers])]

NoCaps == [size |-> None, device |-> None, fmts |-> <<>>]

BufferType == [size : Sizes, device : Devices, fourcc : Fourccs, modifier : Modifiers]

\* Where `find` stops: the index of the first element that passes the test,
\* if there is one, as a set of at most one index.
FirstMatch(seq, Test(_)) ==
  {i \in DOMAIN seq : Test(seq[i]) /\ \A j \in 1..(i - 1) : ~Test(seq[j])}

\* The modifiers an allocation may end up with, given those offered: exactly
\* the first one the consumer accepts, or any when it accepts everything.
Acceptable(mods) ==
  IF Allowed = <<>> THEN mods
  ELSE {Allowed[i] : i \in FirstMatch(Allowed, LAMBDA m : m \in mods)}

\* What the entry found for one format allows.
FromFormat(fmts, f) ==
  UNION {{f} \X Acceptable(fmts[i].mods) : i \in FirstMatch(fmts, LAMBDA e : e.fourcc = f)}

\* pick_dmabuf_format, as the set of <<fourcc, modifier>> it may lead to.
pick_dmabuf_format(fmts) ==
  IF FromFormat(fmts, "XR24") # {} THEN FromFormat(fmts, "XR24")
  ELSE FromFormat(fmts, "AR24")

\* The compositor copies into a buffer only if it meets the constraints.
Fits(b, o) == b.size = o.size /\ b.device = o.device /\ b.modifier \in o.fmts[b.fourcc]

-----------------------------------------------------------------------------
(* The compositor.                                                         *)

Dispatching == pc \in {"negotiate", "capture", "renegotiate"}

\* An event was dispatched, which only renegotiate's deadline depends on.
Wake == woken' = (pc = "renegotiate")

\* New constraints come into force and their batch begins.
BeginUpdate(o) ==
  /\ pc # "closed" /\ ~session_stopped
  /\ ~announcing
  /\ unread < MaxUnread
  /\ o # offer
  /\ offer' = o
  /\ announcing' = TRUE
  /\ pending' = Kinds(o)
  /\ unread' = unread + 1
  /\ UNCHANGED <<handlers, frame, woken, capture>>

\* begin_generation: the first constraint event after a pool was built drops
\* the constraints that pool was built from.
begin_generation ==
  /\ caps_consumed' = FALSE
  /\ session_done' = (session_done /\ ~caps_consumed)

\* Mutants of Fresh: a reset on every constraint event, and none at all.
FreshAlways == NoCaps
FreshNever == caps

Fresh == IF caps_consumed THEN NoCaps ELSE caps

\* caps with the event of kind k of the current batch applied.
WithEvent(c, k) ==
  CASE k = "size" -> [c EXCEPT !.size = offer.size]
    [] k = "device" -> [c EXCEPT !.device = offer.device]
    [] OTHER -> [c EXCEPT !.fmts = Append(@, [fourcc |-> k, mods |-> offer.fmts[k]])]

\* buffer_size, dmabuf_device or dmabuf_format arrives, in any order.
ConstraintEvent(k) ==
  /\ Dispatching /\ announcing /\ ~session_stopped
  /\ k \in pending
  /\ begin_generation
  /\ caps' = WithEvent(Fresh, k)
  /\ pending' = pending \ {k}
  /\ Wake
  /\ UNCHANGED <<offer, announcing, unread, session_stopped, frame, capture>>

DoneEvent ==
  /\ Dispatching /\ announcing /\ ~session_stopped
  /\ pending = {}
  /\ session_done' = TRUE
  /\ announcing' = FALSE
  /\ Wake
  /\ UNCHANGED <<offer, pending, unread, caps, caps_consumed, session_stopped,
                 frame, capture>>

\* The output went away; nothing more of an unfinished batch is sent.
StoppedEvent ==
  /\ Dispatching /\ ~session_stopped
  /\ session_stopped' = TRUE
  /\ Wake
  /\ UNCHANGED <<compositor, caps, session_done, caps_consumed, frame, capture>>

FrameEvent(outcome) ==
  /\ pc = "capture" /\ frame = "none"
  /\ frame' = outcome
  /\ Wake
  /\ UNCHANGED <<compositor, handlers, capture>>

FrameReady ==
  /\ FrameEvent("ready")
  /\ ~announcing /\ ~session_stopped
  /\ Fits(pool, offer)

\* A frame is failed for constraints only once the compositor has begun to
\* announce them: buffers are matched against the latest it has sent.
FrameRejected ==
  /\ FrameEvent("buffer_constraints")
  /\ ~session_stopped
  /\ ~Fits(pool, offer)
  /\ announcing => pending # Kinds(offer)

FrameStopped == session_stopped /\ FrameEvent("stopped")

FrameFailed == FrameEvent("other")

-----------------------------------------------------------------------------
(* The pool.                                                               *)

\* Why allocate_pool gives up, or "" when it can go on to allocate.
AllocationError ==
  CASE caps.size = None -> "no-size"
    [] caps.size # None /\ pick_dmabuf_format(caps.fmts) = {} -> "no-format"
    [] caps.size # None /\ pick_dmabuf_format(caps.fmts) # {} /\ caps.device = None
         -> "no-device"
    [] OTHER -> ""

\* The capture session and the encoder are dropped.
Close(reason) ==
  /\ pc' = "closed"
  /\ ended' = reason
  /\ pool' = None
  /\ encoder' = None
  /\ pushed' = None
  /\ retrying' = FALSE
  /\ next_buffer' = 0
  /\ woken' = FALSE
  /\ UNCHANGED builtFor

\* The pool of the generation in caps: caps_consumed is set, so that the next
\* constraint event begins a new one.
Allocate(choice) ==
  /\ AllocationError = ""
  /\ choice \in pick_dmabuf_format(caps.fmts)
  /\ pool' = [size |-> caps.size, device |-> caps.device,
              fourcc |-> choice[1], modifier |-> choice[2]]
  /\ caps_consumed' = TRUE
  /\ unread' = IF announcing THEN 1 ELSE 0
  /\ builtFor' = offer

AllocationFails ==
  /\ IF AllocationError # "" THEN Close(AllocationError) ELSE Close("allocation")
  /\ UNCHANGED <<unread, caps_consumed>>

-----------------------------------------------------------------------------
(* Capture::new and the encoder that session::run builds after it.         *)

\* The negotiation loop of Capture::new has ended: build the pool, then the
\* encoder for exactly these buffers.
Negotiated ==
  /\ pc = "negotiate" /\ session_done /\ ~session_stopped
  /\ \/ /\ \E choice \in pick_dmabuf_format(caps.fmts) : Allocate(choice)
        /\ encoder' = pool'
        /\ pc' = "idle"
        /\ next_buffer' = 0
        /\ UNCHANGED <<retrying, pushed, ended, woken>>
     \/ AllocationFails
  /\ UNCHANGED <<offer, announcing, pending, caps, session_done, session_stopped, frame>>

\* Mutant of NegotiationStopped: the stop is looked at only after the loop.
NegotiationStoppedLate ==
  /\ pc = "negotiate" /\ session_stopped /\ session_done
  /\ Close("stopped")
  /\ UNCHANGED <<compositor, handlers, frame>>

NegotiationStopped ==
  /\ pc = "negotiate" /\ session_stopped
  /\ Close("stopped")
  /\ UNCHANGED <<compositor, handlers, frame>>

\* The daemon's next session: a new Capture, to which the compositor sends
\* its current constraints from the start.
Reconnect ==
  /\ pc = "closed"
  /\ pc' = "negotiate"
  /\ ended' = ""
  /\ announcing' = TRUE
  /\ pending' = Kinds(offer)
  /\ unread' = 1
  /\ caps' = NoCaps
  /\ session_done' = FALSE
  /\ caps_consumed' = FALSE
  /\ session_stopped' = FALSE
  /\ frame' = "none"
  /\ woken' = FALSE
  /\ UNCHANGED <<offer, retrying, pool, next_buffer, encoder, pushed, builtFor>>

-----------------------------------------------------------------------------
(* capture_frame.                                                          *)

NextIndex(i) == (i + 1) % PoolSize

\* try_capture_frame up to its wait: a frame is requested on buffer i.
RequestFrame(i) ==
  /\ pc' = "capture"
  /\ next_buffer' = NextIndex(i)
  /\ frame' = "none"

CaptureFrame ==
  /\ pc = "idle"
  /\ \/ /\ ~session_stopped
        /\ RequestFrame(next_buffer)
        /\ retrying' = FALSE
        /\ UNCHANGED <<pool, encoder, pushed, ended, builtFor, woken>>
     \/ /\ session_stopped
        /\ Close("stopped")
        /\ UNCHANGED frame
  /\ UNCHANGED <<compositor, handlers>>

\* The frame is ready: capture_and_push hands its buffer to the encoder.
FrameCaptured ==
  /\ pc = "capture" /\ frame = "ready"
  /\ pushed' = pool
  /\ pc' = "idle"
  /\ retrying' = FALSE
  /\ UNCHANGED <<compositor, handlers, frame, woken, pool, next_buffer, encoder,
                 ended, builtFor>>

\* Every failure other than a first constraints failure ends the session.
CaptureFails ==
  /\ pc = "capture"
  /\ \/ frame \in {"stopped", "other"}
     \/ frame = "buffer_constraints" /\ retrying
  /\ Close(frame)
  /\ UNCHANGED <<compositor, handlers, frame>>

\* Mutant of SameGeometry: renegotiate takes whatever size is announced.
AnyGeometry == TRUE

SameGeometry == caps.size = pool.size

\* renegotiate once session_done holds: rebuild the pool, give up if the
\* geometry changed, and otherwise retry the frame on its first buffer.
Rebuild ==
  /\ \/ \E choice \in pick_dmabuf_format(caps.fmts) :
          /\ AllocationError = ""
          /\ SameGeometry
          /\ IF session_stopped
             THEN Close("stopped") /\ UNCHANGED <<frame, unread, caps_consumed>>
             ELSE /\ Allocate(choice)
                  /\ RequestFrame(0)
                  /\ retrying' = TRUE
                  /\ woken' = FALSE
                  /\ UNCHANGED <<encoder, pushed, ended>>
     \/ /\ AllocationError = ""
        /\ ~SameGeometry
        /\ Close("geometry")
        /\ UNCHANGED <<frame, unread, caps_consumed>>
     \/ AllocationFails /\ UNCHANGED frame
  /\ UNCHANGED <<offer, announcing, pending, caps, session_done, session_stopped>>

\* A first constraints failure, with the loop of renegotiate entered only
\* when a new generation has begun and is not complete.
ConstraintsChanged ==
  /\ pc = "capture" /\ frame = "buffer_constraints" /\ ~retrying
  /\ \/ session_done /\ Rebuild
     \/ /\ ~session_done /\ session_stopped
        /\ Close("stopped")
        /\ UNCHANGED <<compositor, handlers, frame>>
     \/ /\ ~session_done /\ ~session_stopped
        /\ pc' = "renegotiate"
        /\ woken' = FALSE
        /\ UNCHANGED <<compositor, handlers, frame, retrying, pool, next_buffer,
                       encoder, pushed, ended, builtFor>>

Renegotiated == pc = "renegotiate" /\ session_done /\ Rebuild

\* Mutant of RenegotiationStopped: the stop is looked at only after the loop.
RenegotiationStoppedLate ==
  /\ pc = "renegotiate" /\ session_done /\ session_stopped
  /\ Close("stopped")
  /\ UNCHANGED <<compositor, handlers, frame>>

RenegotiationStopped ==
  /\ pc = "renegotiate" /\ ~session_done /\ session_stopped
  /\ Close("stopped")
  /\ UNCHANGED <<compositor, handlers, frame>>

\* The five second deadline, looked at only between two dispatches.
RenegotiationTimedOut ==
  /\ pc = "renegotiate" /\ ~session_done /\ ~session_stopped /\ woken
  /\ Close("timeout")
  /\ UNCHANGED <<compositor, handlers, frame>>

-----------------------------------------------------------------------------
Init ==
  /\ offer \in Offers
  /\ announcing = TRUE
  /\ pending = Kinds(offer)
  /\ unread = 1
  /\ caps = NoCaps
  /\ session_done = FALSE /\ caps_consumed = FALSE /\ session_stopped = FALSE
  /\ frame = "none"
  /\ woken = FALSE
  /\ pc = "negotiate"
  /\ retrying = FALSE
  /\ pool = None /\ encoder = None /\ pushed = None
  /\ next_buffer = 0
  /\ ended = ""
  /\ builtFor = offer

Deliver == (\E k \in {"size", "device"} \cup Fourccs : ConstraintEvent(k)) \/ DoneEvent

\* The steps the client's own thread takes without waiting for an event.
ClientStep ==
  \/ Negotiated \/ NegotiationStopped
  \/ CaptureFrame \/ FrameCaptured \/ CaptureFails
  \/ ConstraintsChanged \/ Renegotiated \/ RenegotiationStopped

Next ==
  \/ \E o \in Offers : BeginUpdate(o)
  \/ Deliver
  \/ StoppedEvent
  \/ FrameReady \/ FrameRejected \/ FrameStopped \/ FrameFailed
  \/ ClientStep
  \/ RenegotiationTimedOut
  \/ Reconnect

\* The capture thread keeps running, a batch once begun is completed, and a
\* stopped session fails its outstanding frame.
Fairness == WF_vars(ClientStep) /\ WF_vars(Deliver) /\ WF_vars(FrameStopped)

Spec == Init /\ [][Next]_vars /\ Fairness

-----------------------------------------------------------------------------
(* Properties.                                                             *)

Reasons == {"", "stopped", "geometry", "timeout", "no-size", "no-format",
            "no-device", "allocation", "buffer_constraints", "other"}

\* Every variable stays in its domain; in particular the round robin index
\* names a buffer of the pool, and the constraints hold no foreign value.
TypeOK ==
  /\ offer \in Offers
  /\ announcing \in BOOLEAN
  /\ pending \subseteq Kinds(offer)
  /\ unread \in 0..MaxUnread
  /\ caps \in CapsType
  /\ session_done \in BOOLEAN
  /\ caps_consumed \in BOOLEAN
  /\ session_stopped \in BOOLEAN
  /\ frame \in {"none", "ready", "buffer_constraints", "stopped", "other"}
  /\ pc \in {"negotiate", "idle", "capture", "renegotiate", "closed"}
  /\ retrying \in BOOLEAN
  /\ woken \in BOOLEAN
  /\ pool \in BufferType \cup {None}
  /\ next_buffer \in 0..(PoolSize - 1)
  /\ encoder \in BufferType \cup {None}
  /\ pushed \in BufferType \cup {None}
  /\ ended \in Reasons
  /\ builtFor \in Offers

\* caps holds what the event of kind k of the current batch announced.
Kept(k) ==
  CASE k = "size" -> caps.size = offer.size
    [] k = "device" -> caps.device = offer.device
    [] OTHER -> \E i \in DOMAIN caps.fmts :
                  caps.fmts[i] = [fourcc |-> k, mods |-> offer.fmts[k]]

\* No constraint event is lost, whichever arrives first: whatever has been
\* delivered of the current batch is in caps until the next batch begins (the
\* hazard of a reset keyed off buffer_size, session.rs:111-118).
ConstraintsKept == pc # "closed" => \A k \in Kinds(offer) \ pending : Kept(k)

\* Every frame the encoder is given has the geometry it was created for: a
\* resize ends the session instead of feeding it frames it cannot read
\* (session.rs:553-557).
EncoderGeometry == pushed # None => pushed.size = encoder.size

\* "A format or modifier change is absorbed here -- that is the common case"
\* (session.rs:550): a frame captured after a renegotiation is in the layout that
\* the encoder's caps name.
FormatAbsorbed ==
  pushed # None => pushed.fourcc = encoder.fourcc /\ pushed.modifier = encoder.modifier

\* The encoder and the compositor share a format for these constraints.
Shared(o) == \E f \in Fourccs : Acceptable(o.fmts[f]) # {}

\* The retry after a renegotiation is made with buffers that meet the
\* constraints in force when the pool was rebuilt: it fails over constraints
\* only when they changed once more (session.rs:586-589).
RetryMeetsConstraints == ended = "buffer_constraints" => offer # builtFor

\* capture_frame recovers from new constraints (session.rs:586-589): a session
\* that ends over buffer constraints either met a further change after the pool
\* was rebuilt, or constraints no format of the encoder meets.
RecoversTransparently ==
  /\ RetryMeetsConstraints
  /\ ended = "no-format" => announcing \/ ~Shared(offer)
  /\ ended \notin {"no-size", "no-device"}

\* renegotiate does not hang: it ends once the batch it waits for is complete
\* or the session is stopped.
RenegotiationEnds == (pc = "renegotiate") ~> (pc # "renegotiate")

\* A stopped session ends, whichever loop was waiting when it stopped.
StopEndsSession == session_stopped ~> (pc = "closed")
=============================================================================
