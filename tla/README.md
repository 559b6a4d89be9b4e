# Formal models of libmezia

TLA+ models of libmezia, a C library for real-time Opus audio and H.264 video
over one bidirectional UDP socket. The modules follow the C sources function by
function; TLC checks them on small instances and TLAPS proves the most important
results for every value of the constants. Paths below are relative to the
repository; `PROJECT.json` maps every definition to the lines it stands for.

## 1. The system

### 1.1 Threads

Three threads of the application and one of the library meet in a `mezia_ctx_t`:

| thread | calls | owns |
|---|---|---|
| capture | `mezia_send_audio` every 20 ms | encoder, bitrate controller, audio sender state |
| rendering | `mezia_playout_audio` every 20 ms | decoder, `consecutive_plc` |
| camera / encoder | `mezia_send_h264` | video sender state |
| receive worker (`receive_loop`) | `media_packet` and all below it | video receiver state |
| application | create, start, stop, destroy | life cycle |

Shared are the jitter buffer and the report interval (under `jitter_lock`), the
pending feedback (under `feedback_lock`, but see 3.1), the peer's `running` flag
(atomic) and `socket_fd` (not protected).

### 1.2 Components

**Audio jitter buffer and playout** (`audio/jitter.c`, `audio.c`). State: eight
slots, cursor (`expected_seq`, `expected_timestamp`), `count`, `started`,
`initialized`, first arrival. Operations: insert (worker), ready / copy / advance
(playout). Hard: order modulo 2^16, slot reuse, FEC that looks one packet ahead,
resets in mid-stream, decoding after the lock is released. Correct when each
packet is in its slot and window, none is displaced, what is played belongs to
its instant, buffering ends also after a reset, latency and concealment are
bounded.

**Receiver report tracking** (`audio.c`). State: base and highest number, a mask
of 64, the interval's start and SSRC. Operations: track (worker), take (capture
or rendering thread). Hard: reordering and duplicates at the border of an
interval, packets beyond the mask, another sender. Correct when the loss
reported is the loss of the interval.

**Sender feedback and adaptation** (`audio.c`, `opus.c`). State: the pending
report, number and time of the last, `stale_backoff_applied`, what codec,
statistics and encoder are set to. Operations: submit (worker),
`apply_pending_feedback` (capture thread). Hard: reports late, repeated and out
of order; a report overwritten before use; reads outside the lock; a control
that fails after another took effect; silence, its end, and silence again.

**Bitrate controller** (`bitrate_controller.c`). State: bitrate, smoothed loss,
run of clean reports. Operation: update. Pure integer arithmetic with rounding.
Correct when it stays in range, loss never raises the rate, the rate rises only
after three clean reports, and repeated reports drive it to its limits.

**UDP peer** (`p2p/p2p.c`). State: `running`, `socket_fd`, the thread.
Operations: create, start (socket, bind, thread, each may fail), stop, destroy,
the receive loop, send. Hard: stop against the worker, against itself from the
worker's callback and against senders; descriptors reused by the process.

**Video RTP** (`video/video.c`). State: `next_seq` of the sender; expected
number, reassembly buffer and discontinuity of the receiver. Operations:
packetize, receive. Hard: loss, repetition and reordering inside and between
NALs of one timestamp. Correct when every NAL delivered is a NAL that was sent,
whole, in order and once, and every one that arrived complete is delivered.

**Media engine** (`media/media.c`). State: a running flag of its own beside the
peer's. Operations: start, stop, destroy, send; dispatch by payload type; reports
taken and sent by two threads. Hard: stop from a callback, which clears this flag
and is then refused by the peer; two reports that overtake each other. Correct
when the flags agree but for that callback, and destroy leaves nothing behind.

**Session** (`session/session.c`) negotiates payload types from two **SDP**
descriptions (`sdp/sdp.c`) and starts an engine. Correct when a failed start
leaves no engine and ends that exchanged descriptions hear each other.

**Android bridge** (`platform/android/`). State: the engine, two audio streams
and a playout thread, four devices of the camera, an encoder, a decoder.
Operations: start (each step may fail), stop, destroy, change of camera; the
callbacks of microphone, loudspeaker and camera, and the receive worker, which
creates the decoder. Hard: what a failure must undo, and in which order things
are stopped while callbacks run. Correct when nothing is used after it is
deleted, nothing open is forgotten, and senders are quiet before the engine stops.

**Platform common** (`platform/common/`): a ring of samples between devices and
frames, correct when it is a bounded queue; an Annex-B splitter. **RTCP**
(`rtcp/rtcp.c`), the **RTP** and **feedback** formats (`transport/`) are codecs,
correct when what one end writes the other reads. The **iOS bridge** is the
Android bridge over other system services. **Bindings and examples**, and eight
one-line **placeholders**, hold no logic.

### 1.3 How they interact

```
capture ─ mezia_send_audio ─ apply_pending_feedback ─ controller ─ opus
             │ packetize ─ mezon_peer_send ─────────────┐
             └ take_receiver_report ─ peer_send         │  UDP
camera ─ mezia_send_h264 ─ packetize_nal ─ peer_send ───┤
worker ─ receive_loop ─ media_packet ┬ submit_receiver_report (feedback_lock)
                                     ├ audio_receive: track + insert (jitter_lock)
                                     └ video_receive ─ on_nal
rendering ─ mezia_playout_audio ┬ ready/copy/advance (jitter_lock), decode, on_audio
                                └ take_receiver_report (jitter_lock) ─ peer_send
on Android (rings under audio_lock):
microphone ─ capture_cb ─ capture_ring ─ drain_capture ─ mezia_send_audio
on_audio ─ playback_ring ─ playback_cb ─ loudspeaker
on_image ─ encoder_push_image ─ drain_encoder ─ mezia_send_h264
on_nal (worker) ─ configure_decoder, feed_nal ─ decoder
```

## 2. Modules

| module | models | main correspondence |
|---|---|---|
| `SeqArith` | 16-bit serial numbers | `mezon_seq_before`, `(uint16_t)(a - b)`, `++` |
| `AudioJitter` | `jitter.c`, locked part of `mezon_audio_playout` | `Insert` = `mezon_audio_jitter_insert` (its branches: `Refused`, `ResetTo`, `Store`); `Fetch` = ready, copy, FEC copy, advance in one locked section |
| `PlayoutBuffer` | abstract: what the jitter buffer promises | a set of frames ordered by time, a cursor, phases idle / buffering / playing |
| `AudioLink` | sender, network and playout | extends `AudioJitter`; `Capture` = `mezon_audio_packetize` and send, `Deliver` = receive, `Lock` and `Decode` = the two halves of `mezon_audio_playout` |
| `AudioReport` | report interval | `Track`, `Take` |
| `BitrateController` | controller arithmetic | `Update` = one call of update |
| `AudioFeedback` | reports at the sender | extends `BitrateController`; worker: `Arrive`, `Submit`; capture thread: `TakePending`, `ReadClock`, the unlocked tests `TestHave`, `TestGuard`, `TestAge`, and `Apply` |
| `UdpPeer` | life cycle, worker, senders, descriptors | `StartCall` to `CreateThread` = start, `StopCall` to `ClearSocket` = stop, `Check` to `CallbackReturns` = `receive_loop`, `SendCall` to `Sendto` = send |
| `MediaEngine` | life cycle of the engine | extends `UdpPeer`: every step of the peer is one of its actions, called by `AskPeerToStart`, `AskPeerToStop`, `DestroyPeer`, `CheckPeer` and `StopFromCallback` |
| `ReportSending` | reports on their way | extends `AudioReport`; `TakeDue`, `SendReport` = the two halves of `maybe_send_audio_feedback`, `Deliver` = submission at the other end |
| `VideoRtp` | packetize, network, reassembly | `SendNal`, `Process` with one disjunct per branch of `mezon_video_receive`; packets carry the `index` at which they were made, which the code never sees |
| `NalChannel` | abstract: what sender, network and receiver promise | NALs may be lost, never repeated or reordered |
| `Session` | descriptions, negotiation, start and close of two ends | `Parse` = `mezia_sdp_parse`; `CreateMedia` and `StartMedia` = `mezia_session_start`; `Dispatch` = `media_packet` |
| `AndroidBridge` | the Android bridge | `Start` to `Run` = start, `Stop` to `Return` = stop and destroy, `ChangeCamera` = set_camera; `Capture`, `Playout`, `Image` and `Worker` = the threads |
| `DeviceAudio` | sample rings and the callbacks that use them | `RingWrite`, `RingFront` and `AfterRead` = `audio_ring.h`; one action per callback |
| `SampleQueue` | abstract: what the ring promises | a bounded queue, silence when empty |
| `Rtcp` | RTCP writers and parser | `WriteSr`, `WriteRr`, `WriteNack`, `WritePli`, `ParseRtcp`; `ParseNackFci` visits bit after bit, as the two loops of `parse_nack_fci` do |
| `MCRtcp` | one end writes, the other reads | `Say` and `Done`: what is said, the buffer it is written to and the datagram it arrives in |
| `MC*` | instances for TLC, with history variables | |
| `*Proofs` | theorems and proofs | |

`AudioJitter` refines `PlayoutBuffer`, `VideoRtp` refines `NalChannel` and
`DeviceAudio` refines `SampleQueue`, each by an `INSTANCE ... WITH` mapping
checked as a property. `MediaEngine` implements `UdpPeer` with the same
variables, which is proved. `AndroidBridge` takes of the engine what
`MediaEngine` shows: start makes a worker or fails, stop returns without one.

Atomicity follows the locks. What runs under `jitter_lock` or `feedback_lock` is
one step; a step ends where a lock is released, a shared field is read without
one, or a system call is made. State that one thread owns changes with the step
that uses it.

Data is abstracted to what the properties tell apart: a payload is its number,
a NAL its length and its place in the stream, a PCM frame the count of its
capture; an RTCP packet is a sequence of 32-bit words, and a bit mask a set.
RTP timestamps of audio are not wrapped: the code compares them only
after it added the same offset to both sides. Time is in ticks of 20 ms, or in
units of the interval a module is about.

An operator `X_Mistake` just before an operator `X` is `X` with a plausible
mistake. No specification uses it; the sensitivity checks listed under
`mutants` put it in the place of `X` and TLC then has to find the property
violated. So each property is known to depend on the code it is about.

## 3. Runs

Passing runs:

| run | instance | shows |
|---|---|---|
| `jitter` | 60 / 120 ms, nine packets from 65533, also misaligned, empty and of a sender that jumped | types, slots and counter (`JitterInv`), latency; buffering, also after a reset, ends in time (`RebufferingBounded`); `PlayoutBuffer` is implemented |
| `link` | 40 / 60 ms, five captures with pauses, eleven ticks | the stream is never refused as malformed; frames are played in order of capture; concealment ends after six; a sender once overtaken stays so |
| `report` | arrivals around the wrap, at place 63 and beyond, another SSRC; two threads and a network | mask, span and counts agree; a report's loss is the interval's; the remote sender acts on the latest that reached it |
| `bitrate` | 16 to 48 kbit/s from 24.5, reports around every threshold | reaction to loss, hysteresis, convergence to both limits |
| `feedback` | numbers around the wrap, timeout 1, one control failing | each report consumed is newer than the one before; back-off only after silence, once, and again after the next; codec, statistics and encoder agree |
| `engine` | two descriptors, a sender stopped before the engine and one that is not, callbacks that stop | the flags agree; calls return and destroy leaves nothing; a worker always has its socket; start leaves all or nothing; the first sender sends through no descriptor of someone else |
| `video` | eight entries across the wrap, payload 5, NALs of 3 to 11 bytes, limit 8 | delivered NALs are whole and fragments well formed (`VideoInv`); `NalChannel` is implemented; what arrived complete is delivered; gaps are flagged |
| `session` | two ends, one for audio only; descriptions that agree, differ, lack types, map two codecs or do not parse | no engine is left over; ends that exchanged descriptions hear each other |
| `android` | three decoders, any configuration, every step failing that can, any number of restarts | senders are quiet before the engine stops; encoder and decoder are sound; a failed start releases all but the camera; devices are lost only by a retry |
| `codecs` | rings of two frames with blocks of 1 to 3 samples, one restart; requests around the wrap, cut datagrams, foreign requests of up to 85 numbers | the ring is a queue; captured samples are sent once and in order, over the restart too; a request means to its reader what its writer meant; no word is read that is not there |

Violations, each a statement of the documentation that the code does not keep:

| run | statement | what happens |
|---|---|---|
| `jitter_contract` | README: after startup buffering one callback per tick | a packet beyond the window resets the buffer, and buffering begins again |
| `feedback_timeout` | README: feedback timeout 3000 ms | a report submitted between the guard `now_ns < last_feedback_time_ns` and the subtraction makes the age wrap; the sender backs off with fresh feedback |

### 3.1 What some of the properties say

`BufferRefinement` leaves open when the abstract buffer starts again, since the
code may reset it with any packet beyond the window. That a reset does not silence
a call for good is `RebufferingBounded`: playing begins when the target has passed
since the packet that began the buffering, though no other comes. A reset by a
sender that jumped may also put the cursor where it has been, as the numbers go
round; nothing is claimed against that.

`OvertakenForever` is a fact about the design, not a fault: the cursor moves with
the rendering clock, a late packet never moves it back, and a sender that captures
at most one frame per tick cannot catch up. A sender that pauses longer than the
buffer holds is therefore not heard again until its numbers leave the late half
of the number space.

`BackoffAfterSilence` holds with one exception it names: a report that arrives
during the call. `feedback_timeout` shows that the exception is real. The tests
after the lock are made in the order of the source, each a step, and the first that
fails is the last that is made: in the trace the guard passes with the time of the
report before, a report newer than `now_ns` is submitted, and the subtraction reads
its time. The field is not atomic, so this is a data race; a compiler may read it
once for both tests, and then the guard and the subtraction agree.

`ReportsInOrder` is about every consumption, also one that finds the report of the
one before still pending.

`GapBeforeIsFlagged` says which NALs carry the discontinuity flag: those whose
first packet follows a gap. A loss inside a NAL drops that NAL and the next one,
if it follows directly, is not flagged.

`FlagsAgree` has an exception in its statement: after a callback called
`mezia_stop` the engine says it is stopped while the peer runs. The next
`mezia_stop` of the application then does nothing; `CallsReturn` says that
`mezia_destroy` nevertheless ends the worker and closes the socket, since the
peer goes by its own flag. Start and destroy are called by the application
thread only: a destroy from a callback would free the peer under its worker.

`LatestCounts`: reports are numbered when the interval is closed, not when they
are sent. So a report that was overtaken by the next is refused by the remote
sender, and not the newer one.

`IncreaseAfterThreeClean` leaves rounding aside. The README says that the sender
"increases by 2 kbit/s only after three clean reports"; `clamp_round` is applied
to an unchanged bitrate too, so that an initial bitrate or a minimum that is no
multiple of 1000 goes up by at most 500 bit/s with a report of any kind that is
not lossy, and three clean reports may add up to 2500. In a range of whole kbit/s
the property says exactly what the README does.

`InSight`, `InTransit`, `LossesFit` and `UnitsFit` are the limits of 16-bit
numbers. Serial arithmetic presumes that no packet comes when half the circle has
passed it: `InTransit` builds this into the network of `VideoRtp`, and
`ArrivesInSight` says it of a call: a packet that *enters the buffer* is, at that
moment, within half the circle of the cursor (`InSight`). Old packets stay in the
modelled network for good and may come and be refused at any time; so calls of any
length satisfy it whose network delays nothing by eleven minutes and whose sender
is not as far behind. A sender that is, looks ahead of the cursor again and is
heard. `NeverMalformed` asks `InSight` of the one packet it speaks of. 65536 packets lost in a row look like none (`LossesFit`), and
an access unit of 65536 packets has two with the same number (`UnitsFit`;
`mezia_send_h264` sets no limit, but such a unit is beyond 70 MB).

`DecoderSound` speaks of the time outside a stop. During one, the worker may be
using the decoder that `mezia_android_decoder_stop` deletes, because the worker
is joined later: that use is real, and no property excludes it. The property says
that it leaves nothing wrong behind: the next session never sees a deleted decoder.

`StartedOrReleased` and `LostOnlyByRetry` share an exception: a camera that fails
after some of its devices are open keeps them, since `mezia_platform_start`
undoes everything but the camera. `mezia_platform_stop` closes them; starting
again without it overwrites the fields that still point to them.
`StartedOrReleased` does not speak of the decoder, which the worker makes and which
may survive a stop (3.2), nor of the camera of a running bridge, which a failed
change of camera leaves without one.

`CaptureContinuous`: nothing captured is lost or repeated, over a restart too.
The rings are emptied at creation only, so a rest of less than a frame from
before the stop begins the first frame after the start: samples are numbered on
over the restart, and the property would not hold of a ring that the start empties.
Calls of `mezia_send_audio` are told apart (`calls`), so a frame sent twice is seen
though `sent` does not change.

`SendsOnOwnSocket` needs the discipline of the bridges under `platform/`, which
stop capture before the peer. Without it the check of `running` in
`mezon_peer_send` protects nothing, which is why it is about the senders in
`Quiesced`: what it adds for those is a start that fails, which closes the socket
too. The discipline (`Quiet`, `EngineQuiet`) is that of `mezia_platform_stop`, and
`QuietBeforeStop` shows of the Android bridge that it keeps it. Of a sender that a
stop overtakes nothing is claimed.

`EndsHear` has a premise: for each kind the two descriptions name the same type,
or one of them none. Each end takes the other's type, for sending and receiving
alike, so ends whose descriptions differ send what the other drops. And it is
about what the sessions hold, not about what they were last given successfully:
a description that fails to parse has already replaced the one before, and
`have_remote` stays set, so `start` uses the part before the failing line. Media
of type 98 is excepted: without adaptation `mezia_create` accepts it, but
`media_packet` gives it to the parser of reports (the README leaves it to the
application to keep the types apart).

### 3.2 Observations

Met while modelling, and left as the models show them:

- The last `rtpmap` of a section wins, whatever its codec (`MapCodec`): where
  retransmission is mapped after H.264, H.264 is sent under its type. Two ends
  with that description still hear each other.
- A decoder created by the worker between `decoder_stop` and the end of the
  engine survives the stop; the next start uses it, and destroy, which stops once
  more before it, does not delete it if it was created during that last stop.
- `mezia_platform_set_camera` of a running bridge without video opens a camera.
- A maximum bitrate up to 499 bit/s above a multiple of 1000 is not kept: at a
  maximum of 24300 a report without loss rounds 24300 to 24000 (and says
  "decreased"), and the third clean one returns to 24300. `CleanConverges` holds of
  the maxima that rounding does not take below themselves (`MaxIsReached`).
- A clean report of 100 packets or more may hold a loss of 1 percent, and the
  smoothing then stops at 3 percent. The module that makes the reports never counts
  more than 64 packets.

### 3.3 Bounds

Sequence numbers keep their 16 bits everywhere, and every stream starts just
below the wrap. `MAX_TIME` and `MAX_CAPTURES` bound clocks and streams; the
jitter stream is one longer than the slots, so that a full turn of the array
occurs, and has two jumps so that both halves of the number space are met. The
reports are chosen around the thresholds of the controller (2, 5, 10 percent and
twenty packets). Two descriptors are enough for one to be reused by someone else
while the peer or a sender still has its number; two senders for one to be
inside `sendto` while another begins. The video payload of 5 bytes gives
fragments of 3, so that NALs of one, two and three fragments, an exact fit, one
byte beyond the payload and one beyond the receiver's limit all occur.

`android` needs no bound but the number of decoders: one is deleted by a stop,
one created while a stop is under way, one after the restart. A ring of two
frames of two samples and blocks of up to three meet every alignment of the
ring's indices, its being full and empty, and a frame that fits in part; captured
samples are numbered modulo 8, more than the ring and a block hold together, so
two samples are never confused, before a restart and after it. `DeviceAssumption` says that a device's block
leaves room for the rest of a frame, as the 960 samples that `open_stream` asks
for do: `capture_cb` ignores how much the ring took.
Up to four of six numbers (next to each other, at the reach of the mask and one
beyond, in any order) make the requests; five foreign words make up to 85 numbers
where 64 fit.

### 3.4 Fairness

`WF(Capture)` in `AudioFeedback`: the application calls `mezia_send_audio` every
20 ms (README, "Audio contract"), and each call runs to its end. `FairEngineSpec`:
threads that can run do, so a call once made goes on (`Calls` and the peer's part
of start and stop), `recvfrom` returns because of its timeout of 100 ms and the
shutdown, and callbacks return (`Worker`). That a call is made is not assumed, and
no fairness is assumed of the network, of peers, or of senders. Where
`CleanConverges` speaks of reports that keep coming, the assumption is its
antecedent.

Deadlock is checked in every run that may not stop: `session` may, when both
ends are closed, and `android`, when the bridge is destroyed.

## 4. Proofs

| module | proved for every value of the constants |
|---|---|
| `SeqArithProofs` | fewer than eight ahead of the cursor, different numbers are in different slots, across the wrap; a 16-bit number and the count it stands for (`Numbered`) move together |
| `AudioJitterProofs` | every safety property of `AudioJitter` and its refinement of `PlayoutBuffer`; of `AudioLink`: a call is a use of the jitter buffer, `NeverMalformed`, `ConcealmentBounded`, `PlayedInOrder`, `OvertakenForever` |
| `AudioFeedbackProofs` | of the controller: range, `LossNeverRaises`, `HeavyLossDescends`, `IncreaseAfterThreeClean`, `CleanConverges`; of the feedback: type, `EncoderAsReported`, `BackoffAfterSilence`, `OneBackoffPerSilence`, `ReportsInOrder` |
| `AudioReportProofs` | `ReportInv`, `LossIsReal`, `LatestCounts` |
| `MediaEngineProofs` | of the peer: type, `WorkerHasSocket`, `AllOrNothing`, `SendsOnOwnSocket`; the engine implements the peer; `FlagsAgree`; the peer's invariants under the engine |
| `VideoRtpProofs` | the refinement of `NalChannel`; `VideoInv`, `GapBeforeIsFlagged`, `DeliveredIfComplete` |
| `SessionProofs` | what is read from the peer: `SessionTypeOK` and `EndsHear` of the descriptions, `RequestSurvives` and `ReadsWhatItHolds` of RTCP |
| `AndroidBridgeProofs` | every property of `AndroidBridge`; of `DeviceAudio`: the refinement of `SampleQueue`, `CaptureContinuous` |

Assumptions: those the modules name (`JitterAssumption` and its like). They state
what the constructors of the code enforce. Some theorems have a premise about the
behaviour besides: `[]UnitsFit` for `VideoInv`, `[]LossesFit` for what is flagged
and delivered, `ArrivesInSight` for what is heard in a call (see 3.1), `[]HalfGiven`
(at most 32768 intervals were reported) for `LatestCounts`, `MaxIsReached` and
`ShortReports` (fewer than 100 packets) for `CleanConverges`, see 3.2. Of the counts
in a report `BitrateAssumption` asks that its loss is computed without wrapping 32
bits (`MAX_EXPECTED`, 42 million packets); larger counts are outside the model.
`ReportsInOrder` asks that the numbers of the reports lie within half a circle, from
any first one on, over the wrap or not. At the default interval of a second that is
nine hours of a call. In the first 32768 ticks of a call, nearly eleven minutes,
`InSight` is itself proved of every packet, whatever the network does (`LinkInSight`);
after that `ArrivesInSight` says that what the buffer takes is not that late.

The jitter buffer's invariant is `JitterInv`: types, `SlotsInWindow`,
`CountIsOccupancy` and `IdleIsEmpty`. `SlotsInWindow` alone is not inductive:
that storing needs no check for a different packet in the slot rests on
`NoCollision`, and that a reset or the first packet starts from an empty array
on `IdleIsEmpty`. Insertion divides into reset and store, playout into normal,
FEC and nothing; each has its lemma. The latency bound then follows because the
occupied slots are mapped one to one into distances below the maximum.
`PlaysRightFrame` needs one fact more, that what is in a slot was usable. The
refinement maps slots to the set of their frames; the step lemma uses that the
cursor's slot, and no other, holds the frame of the cursor's time.

For a call, `LineInv` says that the cursor, wherever a reset put it, is on the
sender's time line: its number and its time name the same capture. A packet in
sight then has the distance in numbers that it has in time, which is what the
jitter buffer asks of it. `PaceInv` (neither end runs faster than the ticks) gives
`InSight` for the first half of the circle. Past that, a packet that enters the
buffer is not behind the cursor if it is in sight, and only what enters the buffer
is ever played or stored; so the premise is needed of those packets alone. `LinkIsJitter` maps a call to the
buffer's specification, so the buffer's invariant is used, not proved again.
`PlcInv` ties the concealments that are heard to `consecutive_plc`; `HeardInv` says
that what was heard last is behind the cursor, also while a frame is being decoded
outside the lock; `WaitsBehind` that a buffer that waits to play has its cursor
before the sender's.

Of the video receiver's state the numbers say too little: it knows the next
number, not how many packets that is. The proofs count: `e` is the count of
packets up to the last one taken, `expected_seq` is the number of `e`, and
nothing is taken below `e` (`OrderInv`), so nothing is delivered twice or out of
order. `SenderInv` says what each packet is by itself and beside the next one.
`BufferInv` says that what is put together begins a NAL and ends with packet
`e - 1`, or that a whole circle of numbers was lost since; then the timestamp
shows it, if access units are shorter than that, and so what is delivered is
whole. `HistoryInv` is the converse, for `DeliveredIfComplete`: as long as every
gap is seen, what is put together is *all* that was taken of its NAL, and it is
there whenever packet `e - 1` is a fragment whose predecessors were all taken.

`EndsHear` rests on `EngineAsNegotiated`: descriptions cannot be set while an
engine exists, so its types are what they negotiate. What parsing keeps is found
by induction over the lines of a description. The library's induction theorems
take the predicate as an operator, which the provers cannot instantiate; but that
every set of naturals has a least element they can use, and `SetInduction` follows
from it for a predicate that is the set of numbers it holds of.

The same induction goes over the bits of a request for lost packets. The places
where a number may stand (a word, and an offset in it) are put in a line by
`Index`; after *n* of them the parser has the first numbers that the places below
*n* ask for (`ReadTo`): the one at `Rank` *r* among them is in position *r* + 1, as
far as 64 places go. `ReadsWhatItHolds` follows for any number of words. For
`RequestSurvives`, one word has at most 17 places, so none is left out; a number is
in the mask by its distance from the first, and the numbers at 0 to 16 are all
different, so as many are read as were asked for, over the wrap or not.
`DatagramCarries` is what both rest on: a datagram that is long enough holds the
words of its packet, and the parser refuses any other.

The playback ring's refinement needs `RingOK`: `count` samples from the read
index on, modulo the capacity, are what was written and not read. The capture
side is about several ends at once: the last sample sent, the ring, and the
microphone's next sample are one chain (`Chain(Line)`), each the successor of the
one before.

The controller's argument is arithmetic: division rounds down, and a loss of any
size multiplies by less than one before rounding to the nearest 1000, so the
result cannot exceed a rate that is a multiple of it or the clamp. For the
increase, the reports counted towards it are no more than the clean ones that the
history counts (`RunInv`). `CleanConverges` is the one liveness property within
reach, since the reports that keep coming are its antecedent and not a fairness
of the specification: `Climbed(k)` (at least *k* increases above the lowest
bitrate, and the expected loss *k* below the highest) is kept by every clean report
and becomes `Climbed(k + 1)` with the third; sixteen increases and seventeen steps
of the smoothing are all there can be, so the chain of seventeen ranks is written
out, and temporal logic closes it.

The report's invariant is that base and highest are in the mask, the mask is
within the span and the span below 64; the step lemma on an arrival is serial
arithmetic on three numbers fewer than 64 apart. `LossIsReal` needs the history
besides: bit *d* of the mask is set exactly if the *d*-th number after the base
arrived (`MaskIsArrived`); the numbers that are missing are then mapped one to one
onto the bits that are not set. `LatestCounts` speaks of every report that a thread
holds, that is under way or that arrived: each has a number given out when its
interval was closed, and no two the same (`KnownInv`), so the order in which the
threads send them does not matter; below half the circle the remote comparison is
that of the counts.

The peer's invariant adds to its properties what a call of start or stop has done
before each of its steps (`Progress`): the descriptor is the peer's from
`OpenSocket` to `Close`, and the worker is gone before `Close`. `AllOrNothing` is
the case of no call in progress. A sender stopped first is active only between
the calls (`Discipline`), where the socket does not change.

Every step of the engine is a step of the peer or leaves it alone, so
`EngineSpec => PeerSpec`, and what is proved of the peer holds under the engine
without a second proof. `FlagsAgree` needs what is true during a call: which of
the peer's flags a call has found, and that a refused callback is the only way
for the two to part.

The bridge's invariant has a part for the application's thread (`CallInv`: what
each step of start has got and each step of stop has left), for the user of the
devices (`UserInv`, `CameraInv`) and for what exists once a call is over
(`PresentInv`, `GoneInv`). `DecoderInv` is apart: only between the deletion of the
decoder and the clearing of its field does the field name a deleted one, and a
worker that uses one is gone before the bridge starts again. Assumed of the
system: closing a stream or an image reader waits for its callback, a stream's
callbacks come one at a time, and a new decoder does not get the address of a
deleted one that is still referred to.

For the feedback, `GuardHolds` says that while no report waits, the guard that the
capture thread has passed still holds; so the subtraction of a back-off without a
waiting report does not wrap. `OneBackoffPerSilence` is proved under the
premise that no report counts 90 of 100 packets, as the back-off does: the
property tells the two apart by their counts. For `ReportsInOrder`, the report
consumed last is no further from the first number than the one accepted last, and
less far while one is waiting (`OrderInv`); of streams that go round more than half
the circle it does not hold, since the order of numbers is circular.

Only model-checked: liveness under fairness (`SilenceBacksOff`, `CallsReturn`),
which is out of the prover's reach. Every other property of a passing run is the
statement of a theorem, some under the premises named above.

## 5. Plan

Done: 1 `AudioJitter` with `PlayoutBuffer`, `SeqArith` and proofs;
2 `BitrateController` and proofs; 3 `AudioReport` and proofs; 4 `AudioFeedback`
and proofs; 5 `AudioLink`; 6 `UdpPeer` and proofs; 7 `VideoRtp` with
`NalChannel`; 8 `Session`; 9 `MediaEngine` over `UdpPeer` and proofs;
10 `ReportSending`; 11 `AndroidBridge` and proofs; 12 `DeviceAudio` with
`SampleQueue`; 13 `Rtcp`.

14 `VideoRtp`: refinement and invariants proved; 15 `AudioLink` proved over
`AudioJitter`; 16 `Session` proved; 17 `DeviceAudio`: refinement and capture proved;
18 `ReportSending` and the order of reports proved; 19 `Rtcp` proved.

Next: a loop of `ReportSending` and `AudioFeedback` in which the bitrate follows
the real loss.

## 6. Not modelled, and why

libopus, MediaCodec, VideoToolbox and the kernel's UDP: external; they appear as
calls that may fail. The iOS bridge: which of its callbacks the system's queues
order is not in the repository. Of the Android bridge: the JNI layer, the render
target and the encoder's bitrate, which are single assignments and conversions.
The RTP and feedback packet bytes: fixed layouts without state. Statistics:
counters no decision depends on, incremented by several threads without a lock in
places (a lost increment is possible and is listed as a hazard). Address
resolution and socket options: they decide whether start fails, which is a choice
in the model. Pixel copies and Annex-B splitting: pure data. Windows branches of
`p2p.c`: the same control as the POSIX ones. Bindings and examples: callers
without state of their own. Placeholders: no code.
