# PadPlay, modelled and checked in TLA+

PadPlay turns an Android tablet into a second monitor over USB. A daemon on
the Linux host creates a virtual output, captures it, encodes H.264 on the
GPU, and sends the frames through `adb forward` to an app that decodes and
renders them and acknowledges each rendered frame. This directory holds TLA+
models of its concurrent and stateful parts, the TLC configurations that check
them, and proofs of the results that matter for every size of the system.

Paths below are relative to the repository: `session.rs` alone means
`crates/daemon/src/session.rs`, and the capture's own file is always written
`capture/session.rs`.

## The system

| Component | State | Operations | Talks to |
|---|---|---|---|
| Daemon loop, `daemon/src/main.rs` | last device list, failure count, `shutdown` | wait for a device event, run a session, back off, reconnect the tracker | tracker, session, signals |
| Device tracker, `daemon/src/tracker.rs` | one adb server socket and how far into a message it is | connect, next_update (500 ms) | adb server |
| Virtual output, `daemon/src/output.rs` | the output, on the compositor's side | create, discover, configure, remove on drop | Hyprland, labwc, niri by command |
| Session, `daemon/src/session.rs` | RAII resources; `running`, `sent_at`, two channels, four threads | start, pacing loop, drain, audio drain, ack reader, teardown | everything below |
| Capture, `capture/src/session.rs` | constraints, generation flags, buffer pool, next buffer | negotiate, capture_frame, renegotiate | Wayland compositor |
| evdi backend, `capture/src/evdi_backend` | DRM device, mode, buffer | connect, finish, capture_frame, drop | kernel, niri |
| Encoder, `encoder/src/lib.rs` | appsrc, streaming thread, appsink, bus | push_frame, pull_packet, check_bus, stop | GStreamer |
| Audio, `audio/src/lib.rs` | PipeWire sink module, pipeline | create/drop the sink, pull_packet | PipeWire, GStreamer |
| Plasma backend, `capture/src/plasma/mod.rs` | `State` of its streams, one Wayland connection | create, mirror, recover, poll, drop | KWin; used by `plasma-probe` only |
| Probes, `*/src/bin/*_probe.rs` | none that lasts | measure one of the parts above | the part they measure |
| Transport, `transport/src` | one TCP socket; the adb forward | connect, send (5 s timeout), ack_reader, forward/remove | adb, tablet |
| Wire protocol, `protocol/src/lib.rs`, `Protocol.kt` | none | encode and decode the headers and acks | both ends |
| Tablet video, `VideoStream.kt` | server socket, client, surface, codec, free inputs, pending acks, phase | start, stop, accept loop, session, decoder callbacks, ack writer | host, MediaCodec, activity |
| Tablet audio, `AudioStream.kt` | codec, track, queues, three threads | stream header, audio frame, session end, drain, write | VideoStream, MediaCodec, AudioTrack |
| Activity, `DisplayActivity.kt`, `StatsWidget.kt` | views | surface callbacks, accept toggle | VideoStream, AudioStream |

The host is threads around shared queues and flags; the tablet is an accept
loop, a read loop, codec callbacks on their own thread, an ack writer and, for
audio, two more threads. The two sides share one socket: video and audio
frames one way, 8-byte acknowledgements the other. The acknowledgement names
its frame, but the host pairs acks with sends by their order alone.

What is hard in it, and what makes each part correct:

* **Constraint generations** (capture): events of a batch come in any order,
  several may be processed before a caller looks at its flags, and a batch may
  straddle the building of a pool. No constraint may be lost or mixed with an
  older one, the encoder must never see another geometry, a stop must end
  whichever loop is waiting.
* **Frames through four threads** (session): one queue that leaks, one that
  blocks, one that is unbounded, one socket that blocks for five seconds at
  most. Order must survive, staleness must be bounded, acks must pair with
  their own sends, and every way out must join every thread.
* **Ends of a session**: a stop, a vanished tablet, a failed pipeline, a full
  socket, each noticed by a different thread at a different place.
* **The daemon around it**: a device list that is sent only when it changes,
  read in pieces under a timeout.
* **Resources**: outputs, forwards and sinks that outlive the process if a step
  between two of them fails.
* **The tablet's restarts**: stop and start around one process-wide socket
  name, a surface that comes and goes while a session begins, audio threads of
  two sessions around one queue.
* **Time**: the loop counts ticks and the sound reads a clock; a tick may take any
  time, a sleep return late, and a resync gives up what was missed.
* **Two queues for all decoders**: free input buffers and pending acks outlive the
  decoder whose callbacks fill them and the session whose thread empties them.
* **One stream of bytes**: frames are told apart by their lengths alone, while
  writes and reads cut them anywhere.
* **An output KWin forgets**: it is made disabled and its stream refused, and the
  second stream that recovers it shares its state with the first.
* **Sizes**: a panel's size is scaled, rounded, described in an EDID, read back
  by a compositor, and sent in 16 bits to another language.

## Modules

| Module | Models | Uses |
|---|---|---|
| `CaptureSession` | `capture/session.rs`, with the compositor as its environment | |
| `VideoChannel` | what a session promises of its video path (abstract) | |
| `StreamSession` | the session from the first tick to the return of `run`, with encoder, socket and tablet | instance of `VideoChannel` |
| `PacingLoop` | the clock of that loop: ticks, sleeps, resyncs, time stamps | |
| `AudioPath` | the sound of a session on the host: `audio/src/lib.rs`, its drain thread, the loop that sends it | instance of `VideoChannel` |
| `DaemonLoop` | `main.rs` and `tracker.rs`, with the adb server | |
| `SessionResources` | what `run` sets up before its loop and takes down after it: `output.rs`, `evdi_backend/mod.rs`, `adb.rs`, the sink of `audio/src/lib.rs` | |
| `TabletVideo` | the accept loop, `start`, `stop` and `setSurface` of `VideoStream.kt` | |
| `TabletDecoder` | the decoder of `VideoStream.kt` over consecutive sessions: callbacks, queues, ack writers | |
| `TabletAudio` | `AudioStream.kt` | |
| `FrameWire` | frames through the socket: `transport/src/lib.rs`, `protocol/src/lib.rs`, the reads of `Protocol.kt`, the demultiplexing of `VideoStream.kt` | |
| `PlasmaOutput` | `plasma/mod.rs` as `plasma_probe.rs` uses it, with KWin | |
| `PictureFormat` | sizes, EDID and stream header: `adb.rs`, `edid.rs`, `protocol/src/lib.rs`, `Protocol.kt` | |
| `MC...` | the sets TLC needs, for the module of that name | |
| `..._proofs` | theorems about the module of that name | TLAPS |

`StreamSession_proofs` also holds the theorems about `AudioPath` and `PacingLoop`,
`TabletDecoder_proofs` those about `TabletVideo` and `CaptureSession_proofs` those
about `PlasmaOutput`, of which each makes an instance: `Sound`, `Clock`, `Video`
and `Plasma`. A name that both declare (`pc`, `channel`, `SinkCap`) is one
declaration there; the theorem speaks of the instance's specification alone, and
supposes of its constants what its own module assumes.

A session is composed of these by what one leaves to the next: `DaemonLoop`
runs a session as one step that ends either way; `SessionResources` is that
session up to its loop and from its loop on, `StreamSession` the loop itself,
against a tablet reduced to one session, which `TabletVideo` and `TabletAudio`
take up on the other side. Four modules look closer at what `StreamSession` and
`TabletVideo` take in one step: `PacingLoop` at the time a tick takes,
`AudioPath` at the sound, which is a count of packets in `StreamSession`,
`FrameWire` at a write and a read, which move a whole frame there, and
`TabletDecoder` at the decoder, which is a queue there and a field in
`TabletVideo`. `VideoChannel` is the promise `StreamSession` is shown to keep,
and, of sound and as far as the socket, `AudioPath`. `PlasmaOutput` stands
alone: the daemon does not use that backend.

Definitions called a *Mutant* in their comment are not used by any
specification. Each is a plausible slip in the code of the definition next to
it and makes the property named for it in `PROJECT.json` fail, which shows that
the property depends on that code.

### CaptureSession

The Wayland client changes its state only while it dispatches, so an event is
delivered at the moment it is dispatched and there is no queue in between;
`blocking_dispatch` may process several events before the caller runs on, so
further deliveries are possible before any exit action of a waiting loop. The
variables `caps`, `session_done`, `caps_consumed`, `session_stopped` are those
of `State`, `frame` stands for `frame_ready`, `frame_failed` and
`frame_failed_raw`. `pc` says where the client's thread waits: in the loop of
`Capture::new`, between frames, in `try_capture_frame`, in `renegotiate`, or
nowhere (`closed`). `encoder` is what `Encoder::new` was given and `pushed` the
last buffer `capture_and_push` handed it. The compositor (`offer`, `announcing`,
`pending`) announces a batch of events, unordered, then `done`; a frame is
failed for constraints only when its buffer does not meet the constraints in
force. `allocate_pool` is a step of whichever caller reaches it
(`Negotiated`, `Rebuild`); DMA-BUF allocation may fail and GBM may choose among
the modifiers it is given. `MaxUnread` bounds the batches begun between two
pools: 1 is a compositor that announces nothing more until the client has
caught up, 2 lets batches overlap.

### StreamSession

`pc` is the pacing loop's position: the loop condition (`check`), the capture,
the audio loop, the video loop, a video write, the joins, and the return. The
send time is queued by `TakePacket` before `SendVideo` writes; the ack thread
pops it in `ReadAck`, which may stop in the middle of an ack. The pipeline is
`raw` (appsrc, one buffer, leaks the older), `encoding` (its only streaming
thread) and `coded` (appsink, `SinkCap` buffers, blocks). `link` is `up`,
`closed` (the peer has closed; one more write still succeeds) or `reset`
(writes fail). A write to a full socket either finds room or times out. The
tablet's read loop, decoder and ack writer are `ReadAudio`, `ReadVideo`,
`OutputBuffer` and `WriteAck`; it may drop a frame when the decoder has no
input buffer or there is no surface, at most `MaxLost` times. `Disconnect` is
the cable or the app.

Frames bear their index, which stands for their pts (`index * frame_duration`).
`wire` says of each frame in the socket which stream it belongs to, and `video`
which frames those of video are; packets of sound are not told apart.
`setup` is the kind of session, chosen at the start and never changed. Where
identity is in question (`Few` of `MCStreamSession`) at most `MaxFrames` frames
are numbered, and losses and failures happen; where progress is (`Endless`) they
are alike, sound comes as well, and the loop has no bound at all.

### PacingLoop

A tick is one step that takes any time up to `MaxWork`; the time of everything
between `session_start` and the first tick is the value of `now` in `Init`. The
three outcomes at the end of a tick are the three branches of session.rs:525-531.
`recent` is a history variable, the beginnings of the last three ticks.

### AudioPath

`drain` is the audio drain thread, from the pipeline that already plays and
waits for it (`wait`) to its end; `pc` goes from the start of the sound over the
connection to the tablet, each of which may fail, through the loop to the joins.
Packets bear a number modulo `Cycle`, larger than all the places there are for
packets. `failed` is an error on the bus, which ends the drain thread alone.

### DaemonLoop

`server` and `actual` are the adb server and the list it would report; `link`,
`inbox`, `late`, `half` the tracker's socket: lists sent and not read, the text
of the last still missing, the length of the first already read. `read_exact`
under the 500 ms timeout may lose such a length (`TimedOut`); what the next
read makes of the text depends on whether it begins with hexadecimal digits
(`HexLists`). `torn` is a history variable, true from such a timeout to the
next connection. `pc` names the places of the loop; `SessionEnds` is
`session::run`, which returns with or without an error, or never.

### SessionResources

One variable per resource outside the process (`outputs`, `connector`,
`forward`, `sinks`, `app`), the user's monitors (`plugged`, `moved`), and the
Rust values whose `Drop` takes something down (`held`). `pc` walks through
`VirtualOutput::create` for the compositor chosen at the start, then through
`run`; `Fails` is an early return from any `?`, `DropGuard` drops what is held
in the reverse order of its declaration, `Crash` kills the process, which drops
nothing and closes the evdi handle. Monitors are plugged and unplugged at any
time. Taken for granted: removing a resource fails only when the server that
holds it is gone, so that there is nothing left to remove; on Hyprland the
configured name is the daemon's own; there is one forward slot, the fixed port.

### TabletVideo

Each accept loop `t` has its place (`lpc[t]`), its socket and the surface its
decoder was given; the fields of `VideoStream` are shared, and name the loop
that set them. `target[t]` is what `awaitSurface` returned, which is what
`configureCodec` is given later: the field is not read again. `stop` is two steps
(the flag, the two closes), `setSurface` three (the field, the read of the codec,
the swap), and the end of a session two (the codec's field is cleared, the decoder
is stopped and released). `handle` is the decoder the main thread has in hand
between its read and its swap; that decoder may be released meanwhile, and
`runCatching` is then what keeps the activity alive. Two loops exist when the
switch is flicked before the old loop has looked at `running`.

### TabletDecoder

`session` runs in the accept loop's thread from `Accept` to `Close`; the
callbacks of the decoder run on the main thread and are two steps, what they are
to offer (`inputCall`, `ackCall`) and the offer (`Return`), so that a session may
end, and its decoder be released, in between. Each session's ack writer `w` has a
place of its own and takes from the one queue of acknowledgements there is. An
acknowledgement names the session that rendered its frame; `rendered` and `acked`
record, per session, what was shown and what its own socket was given.
`QuickCallback` supposes that a callback returns before the next session clears
the queues.

### FrameWire

A number is a header field or a piece of payload. `rest` is what of the frame in
hand is still to be written; a write takes any part that fits the socket
(`Window`), a read any part of what there is. `scratch` is the buffer that
`session` keeps from frame to frame, with what a longer frame left in it. The
host leaves between two frames, as `transport_probe` does, or is stopped in the
middle of one by a failing write; the tablet leaves at any time, or refuses a
length. It refuses it once the whole header is read, the code after the four bytes
of the length; in neither is anything delivered. `offered`, `got` and `received`
are history variables.

### PlasmaOutput

`node`, `failed` and `closed` are the fields of `State`, which all streams of one
`create` share. `wire` is what KWin has sent and nobody has read, one entry a
flush, so that events that arrive together are handled together. KWin is
external and does what the comments and docs/06-plasma-backend.md report of it:
it grants, refuses, makes the output disabled and refuses it, closes a stream at
any time, lets globals come and go, forgets an output with its stream.

### TabletAudio

`teardown` reads a field in one step and sets it to null in the next, and runs
on the main thread (`stop`) and on the demux thread (a header, a failure, an
end); `at[who]` is how far it is. `made` and `over` say which threads, decoders
and tracks were made and which interrupted or released. The drain and the
writer thread of every session have places of their own, so that threads of an
old session meet the queue of the next; either may end by an exception of its own
while its session goes on (`failed`). A decoder or a track is made in one step and
named by its field in a later one, after `configure`, `start` or `play`, any of
which may throw: what had not been named by then is in `lost`. After a
configuration the demux thread is at `video`, where the video decoder starts
(`VideoStarts`) or the session fails and the sink is not told of its end
(`VideoFails`, place `untold`). `lost` and `crossed` are history variables; the
latter says that the switch was turned off while a session was being configured.
Left out are
`lastError`, `samplesPlayed` and `lastAudioAtMs`, and the Opus fields.

### PictureFormat

A session's sizes as a sequence of steps: `wm size` with or without an override
(or `--width`/`--height`), the resolution streamed, then either an EDID, the
mode the compositor reads in it and the mode `wlr-randr` is asked for, or a
headless output, then the 24 bytes of the header and the tablet's reading.
Bytes are numbers, and only the EDID and the header are bytes. `MulDiv` is the
code's 64-bit product and quotient, computed within TLC's 32 bits.

## Runs

| Run | Shows |
|---|---|
| `capture_session` | With `MaxUnread = 1`: no constraint is lost whichever event comes first; only buffers of the encoder's geometry are pushed; a session that ends over constraints met a second change or constraints the encoder shares no format with; renegotiation ends; a stop ends the session. |
| `stream_session` | The session implements `VideoChannel`: frames reach the screen in order, none twice. Every ack is paired with its own send until the tablet has dropped a frame, and never with a later send at all (`AcksPaired`), wherever a read cuts an ack. The backlog stays within `SinkCap + 3`. On evdi, with any number of frames, a stop ends the session and so does a disconnect. |
| `audio_path` | Sound is sent in the order it was captured and no packet twice, whatever a full queue drops; on evdi a packet that has reached the loop is sent before the session ends. |
| `daemon_loop` | Until a timeout cuts a list in two, the list in hand is the server's whenever there is nothing to read; a device that stays ready is served again and again; a connection left half way through a list is found out; a signal ends the daemon. |
| `resources` | Nothing is left of a session that returned on labwc and niri, whatever failed; on every compositor a session that has streamed takes down its own and the output and the rule that a killed daemon left, while null sinks stay, one at most for each kill; a user's output is never removed, and its layout is put back; while a session streams, the port leads to its own tablet and frames are read through a good mapping (`StreamsOwn`). |
| `tablet_video` | The picture follows the surface; a stop is an end, whatever the host does; it listens again after any session and any flick of the switch; the field `setSurface` reads never names a decoder that is being released. |
| `tablet_decoder` | What a session acknowledges is a prefix of what it rendered; each input buffer of the running decoder is in one place; whatever is rendered is acknowledged unless the session ends first, however long an older ack writer lives. |
| `tablet_audio` | A track plays its own session; nothing outlives a session whose end was told but what a throw lost before a field named it, and no teardown ends a thread of a session that is on; every thread ends once the switch is off. |
| `frame_wire` | However writes and reads cut the stream and wherever it breaks off, the decoders get whole frames, in order, byte by byte; a stream that ends between two frames arrived as counted. |
| `picture_format` | The resolution is even, within cap and panel, and has its ratio; the EDID gives the height, the multiple of eight next below the width and syncs inside their blanking (`EdidReads`), its sum is 0 and its clock gives the refresh rate within a hundredth and 460 us of blanking (`EdidTimes`); the tablet reads what was written, or refuses. |
| `plasma_output` | From the moment it waits for KWin's answer (`settle`) `create` ends, whatever KWin answers and when, and fails only for a reason that concerns the stream asked for last. `mirror` is covered as far as it shares `settle`. |
| `capture_layout` | *Violation.* After a change of modifier alone the pool is rebuilt in the new layout, and the encoder reads its frames in the old one. |

### Further disagreements

Met while modelling. The first table's configurations stand beside the others
and can be run by hand (`tlc -config X.cfg M`); each finds a counterexample.

| Configuration | Module | What the code does otherwise than it says |
|---|---|---|
| `StreamIdle.cfg` | `MCStreamSession` | On an idle Wayland output `capture_frame` does not return, and a stop is not honoured, though session.rs:193 says so. |
| `AudioBacklog.cfg` | `AudioPath` | While the loop waits in such a capture, the drain thread empties the bounded queue into an unbounded channel; audio/src/lib.rs:169-175 says that the backlog of a stalled consumer is bounded by the former. |
| `PacingSkew.cfg` | `PacingLoop` | Video is stamped by ticks and sound by the clock; what precedes the first tick and every resync part the two for good, though session.rs:329-330 calls them directly comparable. |
| `DaemonMisread.cfg` | `MCDaemonLoop` | After a timeout between a length and its text, where the text reads as a length, the update is swallowed and never repeated. |
| `ResourcesPhantom.cfg` | `MCSessionResources` | On Hyprland a command that fails after the output was made leaves it there. |
| `ResourcesNiri.cfg` | `MCSessionResources` | When the list of outputs cannot be read before the evdi device is made (output.rs:370), or a monitor is plugged in meanwhile, a monitor of the user's is taken for the evdi output and given its mode and place. |
| `PictureMode.cfg` | `MCPictureFormat` | A width that is no multiple of eight (1340x800, `--max-width 1366`) has an EDID of another mode, which positioning then asks for in vain. |
| `PlasmaPoll.cfg` | `PlasmaOutput` | `poll` handles what was read and reads nothing, so that a stream closed by KWin is held for ever, though plasma/mod.rs:468-469 says that this is how it is noticed. |
| `TabletSurface.cfg` | `TabletVideo` | A surface that comes anywhere between the return of `awaitSurface` (VideoStream.kt:190, 208) and the publication of the decoder (213) is not given to it, though VideoStream.kt:109 calls `setSurface` safe at any time. |
| `TabletRestart.cfg` | `TabletVideo` | `start()` before the loop of the last `stop()` has looked at `running` makes a second accept loop; the two set each other's fields to null, and the next stop ends only one of them, though VideoStream.kt:66-68 says that it survives restarts. |

Others are described by a guard or a constant:

* Two batches of constraints that complete before the pool is rebuilt merge
  into one list, of which `find` takes the older entry; a batch split by
  `allocate_pool` loses its first part. `MaxUnread = 2` makes
  `RecoversTransparently` and `ConstraintsKept` fail.
* A frame the tablet drops leaves its send time queued, so that every later
  round trip is measured from an earlier send; `AcksPaired` says when the
  pairing is exact.
* An error on the pipeline's bus ends the drain thread only; the pacing loop
  goes on and sends nothing (`failed ~> pc = "done"` fails in `StreamSession`
  where the pipeline may fail). Sound that fails is silent likewise.
* A buffer of the pool is used again after three captures, whether the encoder
  still reads it or not: an encoder more than two frames behind reads a picture
  that is being overwritten. Nothing in the code holds a buffer back, and what
  the GPU reads is not visible to it.
* The EDID of a picture wider than 4095 pixels (a wide panel with `--native`) loses
  the upper bits of its width without an error; `WidthsFit` of
  `PictureFormat_proofs` is the premise that there is none.
* The app is not stopped at the end of a session, though docs/05-daemon.md:49
  says so.
* With `QuickCallback = FALSE` an acknowledgement, or an input buffer, of a
  released decoder reaches the queues of the next session: `AcksOwn` and
  `BuffersKept` fail.
* A killed daemon's monitor and forward need not be removed by hand, as
  docs/05-daemon.md:51-53 and docs/REVERT.md:182-188 have it: the next session that
  streams takes down both (`Healed`, for output.rs:394 and adb.rs:75-78). What
  nobody takes down is its null sink, for which neither audio/src/lib.rs:336 nor
  anything else looks: one stays for each kill, of which the docs say nothing.
* A session that fails between its header and its decoder
  (VideoStream.kt:206-212) does not tell the audio sink that it has ended, though
  AudioStream.kt:36-37 makes that the sink's call: its audio decoder, track and
  threads stay until the next header or stop (`VideoFails`).
* A throw of `configure`, `start` or `play` in AudioStream.kt:194-202 leaves a
  decoder or a track that no field names and nobody releases (`lost` in
  `TabletAudio`); so does one of `configure` or `start` in VideoStream.kt:275-310.
* An audio writer that fails leaves its drain thread running, which goes on filling
  `pendingPcm`, a queue without a bound, until the session ends (`MaxPcm` bounds it
  in `TabletAudio`).
* `stop()` of the audio while a session is being configured may leave a decoder
  and a drain thread to which no field leads; in the next session it feeds the
  shared queue (`crossed` in `TabletAudio`).

### Bounds

*CaptureSession*: six constraint sets cover a linear, a tiled and a two-modifier
XR24 offer, a resize, a device change that also changes the fourcc, and an offer
the encoder cannot use; a pool of three is the daemon's own. Sessions restart
for ever. *StreamSession*: all queues have length one, the sink of four buffers
too: each queue can then be empty, full, and blocking its producer, which is all
the code distinguishes. Sound, which affects neither order nor acks, is left out
where frames are numbered. Three frames are one being dropped, one on its way and
one behind it. `MaxAcks` bounds the tablet's ack queue and the return direction
of the socket; in the code the former is unbounded. *DaemonLoop*: two devices in
five lists (none, one not ready, one ready, the other, one of each); two lists
unread, so that a second follows one half read; the sleep stops growing at the
third failure here, at the sixth in the code. *SessionResources*: two monitors,
two connectors, two tablets and two kills, which is a left-over, and a second on
top of it. *TabletVideo*: two loops, the old and the new one; two surfaces,
since only the last matters. *TabletAudio*: two sessions, one frame in a decoder
and one buffer of samples, which are an old one and a new one; the switch is
turned on once. With `MaxStarts = 2` the invariants hold as well (4.7 million
states). *PictureFormat*: five panels, an override by any other, three caps,
three rates. *AudioPath*: an appsink of two packets, which can be empty, full and
in between, and two packets in the channel, so that one can be overtaken;
`MaxChannel` stands for a loop that is never further behind, which on Wayland is
not so (`AudioBacklog.cfg`). *PacingLoop.cfg*: an interval of two, ticks of up to
more than four intervals, sleeps more than two too long. *TabletDecoder*: two
sessions, the old and the new one, two frames and two input buffers in each, so
that a frame waits behind another and one finds no buffer. *FrameWire*: payloads
of nothing, below, near and beyond the limit of three, a socket that holds three
pieces and so no whole frame with a payload of two, three frames, so that a short
one follows a long one and is followed. *PlasmaOutput*: four unread flushes, two
of which are kept for an answer and a close.

### Fairness and environment

*CaptureSession*: the client's thread, a begun batch, and the failure of a
stopped session's frame are weakly fair; no frame need ever become ready.

*StreamSession*: every thread's own steps are weakly fair, since they wait for
nothing but a timeout (100 ms in `pull_packet`, 500 ms in the ack reader, 5 s
in a write). Only evdi's capture is fair (`evdi_timeout` bounds it, and the
buffer is pushed changed or not); Wayland's is not, as its compositor promises
no damage. The exit of the audio loop is strongly fair: packets are 20 ms
apart, so the loop finds the channel empty again and again. The encoder is
fair until it fails. Nothing is assumed of the tablet.

*DaemonLoop*: only the loop is fair. Its reads of the tracker end by their timeout;
that the commands it waits for (`adb`) return by themselves is taken for granted, as
the code sets them no limit. Sessions need not end, so `StopEnds` supposes that they
do. Nothing is assumed of the adb server.

*TabletVideo*: its threads are fair, a connected host's header included, because
the daemon writes it before anything else (transport/src/lib.rs:21), and closing
the server socket wakes its `accept`. The host need not send frames, the user
need not act. The wait for a surface ends by its own deadline. `SlowSurface` leaves
out the surfaces that come between the return of `awaitSurface` and the publication
of the decoder.

*TabletAudio*: its threads are fair; a session whose stream was stopped ends,
which is `TabletVideo`'s `StopEnds`. `QuickDrain` supposes that a drain thread
offers the samples it has copied before the next session clears the queue
(otherwise one buffer of the old session is heard).

*AudioPath*: both threads are fair, a write ending by its timeout if not before;
the capture on evdi only. *TabletDecoder*: the accept loop's thread, the main
thread, each ack writer and the decoder are fair; the host need not send.
*PlasmaOutput*: the client runs and, as plasma/mod.rs:244 says, KWin always
answers a request; nothing else is assumed of it.

`picture_format`, `resources`, `frame_wire`, and `PacingLoop`: safety only.

## Proofs

* `CaptureSession_proofs!TypeCorrect`, `Spec => []TypeOK`: one lemma for what
  `Allocate`, `Close` and `Rebuild` leave behind, one for the choice of a
  format, then one step per action.
* `CaptureSession_proofs!GeometryCorrect`, `Spec => []EncoderGeometry`: the
  invariant is strengthened with *the pool and the encoder have one geometry
  while the session runs*, since a frame is pushed from the pool and never
  compared with the encoder. It holds with overlapping batches as well.
* `CaptureSession_proofs!ConstraintsSurvive`, `Spec => []ConstraintsKept` under
  `MaxUnread = 1`: the invariant ties the flags to the batches, `caps_consumed`
  being true exactly when nothing of a new batch has been delivered. The
  assumption is needed, as said above.
* `CaptureSession_proofs!ChangesAbsorbed`, `Spec => []RecoversTransparently`,
  under the same assumption: of a batch the client's constraints hold what was
  delivered and nothing else (`CapsExact`), the pool meets the constraints it was
  built for, and only a batch begun since can make a frame fail over them
  (`RecoveryInv`). A failure therefore finds the flags of a change that is
  complete or on its way, which is what `renegotiate` waits for.
* `StreamSession_proofs!BacklogCorrect`, `Spec => []BacklogBounded`: while the
  loop is between the end of its sends and its next capture the bound is one
  lower, because the channel was empty there and only the pipeline's own
  places, `1 + 1 + SinkCap`, can hold frames.
* `StreamSession_proofs!ChannelImplemented`, `Spec => ShownInOrder`: the
  refinement of `VideoChannel`, step by step. Each step captures a frame behind
  the others, shows the oldest, loses one run of neighbours (the frame in appsrc,
  all that is in a socket that breaks, one frame the tablet drops), or leaves the
  sequence as it is. It needs that the wire has as many tags of video as there are
  frames of video in it (`FlowInv`).
* `StreamSession_proofs!AcksArePaired`, `Spec => AcksPaired`: the frames whose ack
  is still to come, from the ack thread's half-filled buffer through the socket
  and the tablet to the wire, are matched by position with the send times, each
  with its own or an earlier one's, and with its own if there are as many of one
  as of the other (`PairInv`). A loss moves later frames to earlier send times and
  never the reverse, because send times and all frames behind them are in the
  order captured (`OrderOf`).
* `DaemonLoop_proofs!TypeCorrect` and `ListsKept`, `Spec => []ListCurrent`: the
  invariant says that the last list unread, or the list in hand when there is
  none, is the server's own, through a connection being made, a list half read
  and a server that dies; it is needed because `ListCurrent` speaks of an empty
  inbox only.
* `StreamSession_proofs!BurstsNever`, `Clock!Spec => []Clock!NoBurst`, and
  `RateKeepsCap`, `Clock!Spec => []Clock!RateCapped`, about `PacingLoop`: the
  invariant relates the last three ticks to when the one at hand was due, because
  `next_tick` may lag behind the clock by two intervals and then only the ticks
  before it say that there was no burst. They suppose an interval of one at least;
  no bound of the configuration matters. `PacingLoop` has no run of its own:
  `PacingLoop.cfg` checks the same two properties by hand in a few seconds.
* `StreamSession_proofs!SoundImplemented`, `Sound!Spec => Sound!AudioInOrder`:
  `AudioPath` implements `VideoChannel`, for every size of the queue and bound on
  the backlog. What is in flight is the channel followed by the queue, so that
  handing a packet from one thread's queue to the other's changes nothing; a full
  queue that drops its oldest loses one packet from the middle of it, the end of a
  session what is in either.
* `TabletDecoder_proofs!AcksAreOwn`, `Spec => []AcksOwn` if `QuickCallback`: what
  is acknowledged, in the hands of the session's writer, in the queue and in the
  callback, is in this order a prefix of what was rendered (`PrefixInv`,
  `LineInv`). It needs that an older writer has nothing in hand that is not its
  own (`HandInv`, `OthersInv`), which in turn rests on where the queue is emptied
  and the old writer interrupted (`PlaceInv`).
* `TabletDecoder_proofs!BuffersAreKept`, `Spec => []BuffersKept` if
  `QuickCallback`: each buffer is once in the free queue, in a frame queued to the
  decoder, in a callback or in the decoder (`KeptInv`); a decoder that does not
  run has none, so that the next one finds none of another's.
* `TabletDecoder_proofs!CodecsLive`, `Video!Spec => []Video!CodecLive`, about
  `TabletVideo`: the property needs only types besides itself, because the first
  step of each of a session's ways out clears the field, and only the next one stops
  the decoder; it holds for any number of loops at once. It is about the field: a
  call of `setSurface` that had read it before may still reach that decoder.
  `SurfacesFollowed`, `Video!Spec => Video!SurfaceFollowed` if `SlowSurface`: a
  decoder that is started and not yet published, or named by the field, renders to
  the surface there is (`RenderingInv`), which is preserved by every step before and
  after which there is one loop, and where the target of a decoder not yet published
  is the surface there was when `awaitSurface` returned, which by the assumption is
  the surface still.
* `FrameWire_proofs!FramesAreWhole` and `BytesAreExact`, `Spec => []FramesWhole`
  and `Spec => []ByteExact`: there is a sequence of offsets at which frames begin
  such that all that was ever offered is laid out by it (`Layout`), and the host's
  place (`Host`), the tablet's (`Tablet`) and what is between them (`Flows`) are
  places in that one stream; while the link is up nothing is missing between what
  the tablet has read and what the host has yet to write. That is needed because
  the two sides agree on nothing but lengths they read themselves.
* `SessionResources_proofs!TypeCorrect`, `NothingIsLeft`, `LeftoversHealed`,
  `MonitorsSurvive`: `HeldInv` says which guards are held at each place of `pc`
  and that every sink has one but those of a killed daemon, of which there is at most
  one a kill, `OutputInv` that the daemon's outputs are those
  its guards name and that they are none of the user's, `RuleInv` that a forward
  has a guard unless a daemon was killed. One step per action.
* `SessionResources_proofs!LayoutIsRestored` and `StreamsItsOwn`,
  `Spec => []LayoutRestored` and `Spec => []StreamsOwn`: nothing is recorded before
  there is a session, nor but on Hyprland, and nothing moves a recorded monitor
  once the output has its guard (`LayoutInv`); a registered buffer comes and goes
  with that guard and nothing sets a mode in between (`BufferInv`); a forward that
  has its guard leads to the session's own tablet (`PortInv`).
* `CaptureSession_proofs!ErrorsAreJustified`,
  `Plasma!Spec => []Plasma!ErrorJustified`, about `PlasmaOutput`: `State` is shared
  by two streams, so that the invariant says of every event still unread, and not
  only of what was read, that a failure or a close in it is true of the stream asked
  for last while an answer is awaited (`HonestInv`); it holds because the second
  stream is asked for only after the first was refused, after which KWin says
  nothing more of it (`PhaseInv`).
* `PictureFormat_proofs!PicturesFit`, `Spec => []PictureFits`: the rounding of
  `stream_resolution` in terms of multiples, `n - p < (n \div p) * p <= n`, since no
  prover knows quotients of two variables.
* `PictureFormat_proofs!EdidsRead`, `Spec => []EdidReads` if `WidthsFit`: each of the
  blocks of the EDID has its length, so that the descriptor is the bytes 55 to 72;
  numbers of 12 bits come back from their low bytes and the byte of their upper
  bits; and the lines of blanking have 12 bits because a line lasts more than 112 ns
  at every size and rate there is (`LinesFew`). `EightsMatch` adds that the finding
  of `PictureMode.cfg` has one cause only: `EdidMatches` holds wherever the width is a
  multiple of eight.
* `PictureFormat_proofs!HeadersAgree`, `Spec => []TabletAgrees`: each field is read
  where it was written, as the bytes before it keep their places when more are
  added (`HeaderBytes`), and two bytes make the number they were taken from. Both
  need that sizes have 16 bits, which is the assumption on what `wm size` reports.
* `TabletAudio_proofs!NothingIsKept`, `Spec => []NoneKept`: what was made is in its
  field, was taken away, is being configured and not yet named, or was lost by a
  throw (`Owned`, `Lost`, `Unnamed`); the fields are those of the last session until
  its successor has begun to make its own (`Holder`), a teardown has emptied the
  fields it has passed (`Torn`), on both threads at once, and a configuration fills
  them one after another (`Fields`). `SoundIsOwn`, `Spec => []OwnSound` if
  `QuickDrain`, adds that from the clearing of the queue on, only the last session's
  drain thread can reach it, because the decoders of the others were released
  (`OwnPcm`). Both suppose nothing of a history in which a stop fell into a
  configuration, as the properties do.

They rest on the assumptions of each module's constants, and on the five that
are named above: `MaxUnread = 1`, `QuickCallback`, `QuickDrain`, `SlowSurface` and
`WidthsFit`, each of which is needed (*Further disagreements* says what happens
without).

Model-checked only:

* whatever has to happen in the end (`RenegotiationEnds`, `StopEndsSession`,
  `StopHonoured`, `DisconnectEnds`, `ServedAgain`, `StopEnds`, `Resyncs`, `Listens`,
  `ThreadsEnd`, `AudioFlows`, `CreateEnds`, `RenderedAcked`): liveness under
  fairness, and so `ENABLED`, is beyond the provers;
* `EdidTimes`: the sum of the bytes is a fold, of which nothing can be proved
  without induction over data; and the refresh rate is near the one wanted only for
  pictures of the sizes there are, not for every one the types allow (a picture of
  two lines is mostly blanking).

The type invariants are proved and not run.

## Not modelled

Listed with their reasons in `PROJECT.json`: output discovery, GBM and memfd
allocation, argument parsing, views and drawing, packaging, and of the probes
what is one pass of measurement over the same libraries. Of the Plasma backend
the pixels are absent: it yields a PipeWire node that nothing in the repository
reads. Of the encoder, its elements and their properties are configuration.

## Plan

1. Composition: `TabletVideo` with `TabletDecoder` in place of its field and
   `TabletAudio` as its sink, so that whether the sink is told of an end
   (`VideoFails`) follows from where the session fails; an abstract receiver they
   implement.
2. `FramePool`: reuse of pool buffers against the encoder that still reads
   them, with a theorem for every pool size.
3. An abstract daemon (a ready device has sessions, a stop ends them), which
   `DaemonLoop` implements.
