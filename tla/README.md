# uvgRTP in TLA+

uvgRTP is a C++ library that sends and receives media over RTP. It fragments
media frames into RTP packets and puts them together again (H.264, H.265,
H.266, V3C, or a generic format), keeps RTCP statistics and reports, negotiates
keys with ZRTP and encrypts with SRTP. This directory models the parts of it
that keep state and interact, checks them with TLC and proves theorems about
them with TLAPS.

Paths in `PROJECT.json` start with `src/`, the repository's root; the library's
own code is `src/src/`, its public headers `src/include/uvgrtp/`.

## 1. Inventory

| component | state | operations | used by / uses |
|---|---|---|---|
| `context` | CNAME, list of sessions | create/destroy session | owns `session` |
| `session` | `streams_`, one `zrtp_` shared by its streams, addresses | create/destroy stream | `socketfactory`, `media_stream`, `zrtp` |
| `socketfactory` | ports in use, sockets, `reception_flow` per socket, `rtcp_reader` per port | create/install/clear | `media_stream`, `rtcp` |
| `media_stream` | remote SSRC, `rtp_`, `rtcp_`, `srtp_`, `media_`, `reception_flow_`, `initialized_` | init, start_zrtp, push/pull frame, configure, destructor | everything below |
| `reception_flow` | ring buffer and its two positions, `packet_handlers_`, `hooks_`, `frames_`, `should_stop_`, `active_`; two threads and a condition variable | start, stop, pull_frame, install/remove handlers and hooks | calls rtp, srtp, rtcp, zrtp, media handlers |
| `rtp` | sequence number, timestamps, payload type | fill_header, update_sequence, packet_handler | frame_queue, reception_flow |
| `frame_queue` | active transaction: headers, chunks, out-of-order fragments | init/enqueue/flush/deinit transaction | formats, socket |
| `formats/media` | fragmented frames by timestamp | push_media_frame, packet_handler | frame_queue, reception_flow |
| `formats/h26x` and h264/h265/h266/v3c | access units by timestamp, `fragments_`, dropped timestamps, finished frames, discard-until-intra flag | push_media_frame, packet_handler, garbage collection, frame_getter | frame_queue, reception_flow |
| `rtcp` | participants and their statistics, sender statistics, report timer thread, hooks and last-received reports with a mutex each | add_participant, packet handlers, generate_report, get_*, BYE, SSRC collision | rtcp_reader, media_stream |
| `rtcp_reader` | map SSRC -> rtcp, reader thread | start, stop, register, clear | socketfactory, rtcp |
| `zrtp` | session crypto state, role, first message of each type, `dh_finished_`, the busy flag | init_dhm, init_msm, packet_handler, lock, key derivation | media_stream, reception_flow |
| `zrtp_receiver` | | no caller is left: `zrtp::packet_handler` took its place | |
| `srtp`/`srtcp` | keys, contexts, rollover counter, replay list | encrypt, decrypt, handlers | reception_flow, rtcp |
| `holepuncher` | last send time, thread | start, stop | media_stream |
| `socket`, `poll`, `crypto`, `clock`, `hostname`, `random`, `memory`, `wrapper_c`, `mingw_inet` | | system calls, arithmetic | all |

### What is hard

* **Threads.** The receiver and the processor of a flow share a ring buffer,
  two atomic positions and a condition variable without a predicate. Any
  application thread may start and stop the flow, pull frames, install and
  remove handlers. RTCP has a report thread, a reader thread and application
  getters that take several mutexes. ZRTP negotiations of several streams share
  one object and a hand-made lock.
* **The network.** Packets are lost, duplicated, reordered. Reassembly works
  from sequence numbers that wrap; ZRTP retransmits on timeouts.
* **Time.** Garbage collection of incomplete frames, report intervals, poll and
  negotiation timeouts.
* **Boundaries.** Ring full, sequence numbers at 65535, participant limit,
  remembered dropped timestamps.

### What makes each part correct

* `reception_flow`: packets are handled once, in order and none is lost while
  the ring is not overrun; stop() leaves no thread and no frame, and returns;
  what arrives is processed; a blocked pull is released.
* `h26x`, `media`: a delivered frame consists of exactly the fragments of one
  NAL unit (frame), in order, each once; complete NAL units are delivered
  whatever the arrival order; memory of abandoned frames is released.
* `zrtp`: one negotiation at a time per session; both sides derive the same
  keys with opposite roles; a finished initiator implies a responder that has
  the keys; the negotiation ends.
* `rtcp`: no deadlock between report getters and packet handlers; the
  participant count equals the participants; sequence accounting (RFC 3550 A.1)
  agrees with what was received.
* lifecycle: no port, socket, flow or thread outlives its last stream, and none
  is destroyed while another stream uses it.

## 2. Plan

In the order of importance.

| module | what | composes / implements | status |
|---|---|---|---|
| `ReceptionFlow` | threads, ring buffer, start/stop, frame queue | implements `PacketPipe` | modelled, checked, safety proved |
| `H26xReassembly` | depacketization of NAL units | extends `MediaNetwork` | modelled, checked, proved |
| `GenericReassembly` | depacketization of generic frames | extends `MediaNetwork` | modelled, checked, proved |
| `ZrtpHandshake` | negotiation between two endpoints | | modelled, checked, safety proved |
| `SecureReception` | SRTP of both ends, dispatch by SSRC, handlers that come and go, `pull_frame` | implements `SecureChannel` | modelled, checked, proved with the refinement |
| `RtcpPackets`, `RtcpSession` | the `rtcp` object, its packets, its four threads and six mutexes | the first holds the packets, the second the session | modelled, checked, safety proved |
| `StartCodes`, `MediaSender` | from `push_frame()` to the wire | the first cuts frames into NAL units, the second sends them | modelled, checked, proved |
| `StreamSetup` | streams, socket factory, readers, the shared ZRTP object | | modelled, checked, proved |

Abstract specifications: `PacketPipe` for the ring of the flow, `SecureChannel`
for a protected stream from one end to the other, `ReferenceUnits` in
`StartCodes` for the search for start codes.

Every invariant and action property of the passing runs is proved (section 7 says what
cannot be). Left to model: section 8.

## 3. Modules and code

### ReceptionFlow, PacketPipe

`ReceptionFlow` is `reception_flow.cc`: `receiver()` and `process_packet()` (the
processor) as threads with program counters `rpc` and `ppc`, `start()` and
`stop()` called by any thread of `Callers`, `pull_frame()` by `Pullers`. The
variables carry the names of the fields. An action is what a thread does between
two accesses to something another thread uses, so `RecvPacket` (recvfrom() fills
the slot), `RecvStoreSize` (its `read` is stored) and `RecvPublish` (the write
index is advanced) are three actions, as are taking a slot, dispatching it and
clearing it. `should_stop_` is a plain `bool` that the threads read without
synchronization: each read is an action of its own and sees the last write.

`handled`, `pulled` and `overrun` are history: `overrun` becomes true when a
packet is received into a slot that is not processed yet, which nothing in the
code prevents. `PacketPipe` says what the flow promises until then: packets are
handled one by one, in the order of arrival.

Left out: `wait_mtx_`, which only the processor locks; datagrams of length zero;
changing the buffer size while threads run.

### MediaNetwork, H26xReassembly, GenericReassembly

`MediaNetwork` numbers the packets a sender sends (a position in `Stream`) and
decides which arrive, in which order, and which arrive twice. A trial of
`Trials` is a stream, its first sequence number, how many packets one may be
overtaken by and how long it lasts. `SeqMod` stands for 2^16; each trial starts
close to it, so that sequence numbers wrap within the stream.

`H26xReassembly` is `h26x::packet_handler` with everything it calls:
`is_duplicate_frame`, `drop_access_unit`, `garbage_collect_lost_frames`, the walk over
the received sequence numbers and `reconstruction`. Each of the branches of the handler
is a disjunct of `packet_handler(p)`: a duplicate, a packet of a dropped access unit, a
whole NAL unit or aggregation packet, a fragment that is known, one that completes
nothing, one that completes a NAL unit. A payload is the packet's position; a NAL unit
delivered is the sequence of its pieces. `seen_order_` is a set here: what the handler
takes from the front of the queue is exactly what is older than `KeepTrack`.
`StreamAssumption` is what `push_media_frame` sends: a packet has whole NAL units
(`Whole`), or is one of the packets that follow each other and carry one
(`InFragments`); and there are not so many that two have the same number. `interleaved`
is history: the access units in which a fragment came after one of a later NAL unit.
There the code can lose, confuse and free fragments (section 6), and only there, which
the properties say by leaving these access units out.

`GenericReassembly` is `media::packet_handler`, with keys of 17 bits for the
packets after a wrap. `disturbed` is history: the timestamps for which the first
packet did not come first or a packet came twice, for which the code promises
nothing (section 6). `FramesAssumption` is what `push_media_frame` sends: the packets
of a frame follow each other, the last one has the marker, and there are not so many
that two have the same number.

### ZrtpHandshake

Two endpoints, each with one `zrtp` object, negotiate a sequence of modes
(`dh`, `msm`), one stream after the other, as `session::create_stream()` with
automatic negotiation does. `phase` is the loop the session's thread is in:
`hello` (begin_session), `agree`/`commit` (init_session), `dh1`, `dh2`, `conf1`
(responder_finalize_session), `conf2` (initiator_finalize_session). An iteration
of a loop that finds the message it waits for is an action of `Proceed`, one that
finds its interval elapsed an action of `Timer`; the iterations in between do
nothing. `got` is `hello_`, `commit_`, ...: `packet_handler` keeps the first
message of each type until `resetSession`.

Hashes and keys are not computed. The total hash of a negotiation is the record
of the negotiations whose Hello, Commit and DHPart messages went into it, and two
keys are equal exactly if these records are. The keys of Confirm messages are kept
by a multistream negotiation, because the code derives them only in
`generate_shared_secrets_dh`; so is the hash chain (`Chain`).
`larger` decides which of two Commits has the larger hvi. `results`, `ackLost` and
`mixed` are history; `mixed` has, for each endpoint, the negotiations in which it has
stored a message that the peer sent in an earlier one, which `packet_handler` cannot
tell apart. One such negotiation does no harm but the early end that `InitiatorIsLast`
names; after two in a row (`MixedAgain`) the code promises nothing, and neither do the
properties (section 6). The first negotiation is never mixed, so of two, as in
the run, the second is never `MixedAgain`.

Left out: another ZRTP version, errors of sendto(), Error messages (ignored by
the code), the Commit of an endpoint that wins the contention (stored and never
used).

### RtcpPackets, RtcpSession

`RtcpPackets` is the writing and the reading of compound packets. A packet is not
octets: a `Writer` is a buffer of a size computed beforehand, and what is put
into it, with where it starts; `Put` notices when it does not fit. So the sizes
that `get_sdes_packet_size`, `size_of_apps` and the others compute, the number of
words in a header and what a reader makes of them are all there and can disagree:
an item of type 0, for instance, is for the reader the end of a chunk. A loop over items,
chunks or packets (`PutAll`, `read_items`, `read_chunks`, `read_compound`) is a function of
the number of its turns, with one turn an operator of its own (`NextItem`, `NextChunk`,
`NextOfCompound`).

`RtcpSession` is the `rtcp` object and the four threads that work on it, each
with a program counter in `pc` and what it works on in `arg`: the processor of
the reception flow (`recv_packet_handler_common`, `update_participant_seq`,
`update_session_statistics`), the RTCP reader (`handle_incoming_packet` and the
handlers of sender and receiver reports, SDES, BYE and APP), the runner
(`rtcp_runner`: timeouts, `generate_report`) and the application (getters,
`send_sdes_packet`, `send_app_packet`, hooks, `stop`). `lock` says who holds each
of the six mutexes, and a step ends where a thread needs the next one. The ghosts
are `source`, what a source has really sent and how it arrived, `owed`, the
sources whose packets were counted since they were last reported, and
`gone`/`crash`, which participant was removed while a thread that had looked it up
was about to use it. `strays` is history as well: the sources whose silence the
reader has counted without knowing them (`rtcp.cc:1207`), which the runner times out all
the same. A getter that holds `participants_mutex_` is no safer than the others: the
runner removes participants without it (`rtcp.cc:2116`).

What the peers send is any compound packet whose reading `Readable` covers
(`ScenariosAssumption`): reports of a source, a BYE, and what the reader refuses.

`RtpSeqMod`, `MaxDropout`, `MaxMisorder` and `MaxParticipants` stand for 2^16,
3000, 100 and MAX_SUPPORTED_PARTICIPANTS. Time is counted in report intervals.

### SecureReception, SecureChannel

From the SRTP context of a sender (`Send`: `srtp::send_packet_handler`, `encrypt`) over
a network to the frames that the application pulls. The processor of the receiver finds
the handlers of an SSRC (`proc`), then runs them one step each, without
`handlers_mutex_`: `rtp`, `srtp` (authentication, replay list, rollover counter,
decryption), `rtcp_common`, `media`, then the getter, which fetches what the media
handler has `ready`. `sets` holds the handlers by SSRC; other threads install those of
the stream one by one (as ZRTP does when it has the keys) and remove those of another
peer (`Other`). `hooks`, `frames` and `ready` are the ways to the application: a hook,
the queue, or a media handler whose frames are fetched. With a single hook on a flow
every frame goes to it, whoever sent it, as the code has it (`reception_flow.cc:382`). A
packet carries the index and the rollover counter it was encrypted and authenticated
with; a decryption is right if the receiver's are the same. A packet of the other peer
(`ReceiveForeign`) has any sequence number and any timestamp the stream may see: on a
stream that is alone and does not authenticate, its number 65535 counts as a rollover
(`srtp.cc:116`).

`DeliveredAsSent` says that a frame received is one of the peer, as it was sent, which
SRTP did not refuse. The exceptions are read from what the handlers did with the packet
(`srtp` of a frame), not from what the stream has enabled:

* `absent`: ciphertext that came while ZRTP had not installed the SRTP handler yet;
* `refused`, on a stream with RTCP: the statistics replaced the verdict of SRTP
  (`reception_flow.cc:607`), although `srtp.cc:81`
  logs "Replayed packet received, discarding!";
* `untimely`: decrypted when the wraps of the sequence number had been lost, doubled,
  overtaken or counted for another peer's packet, or with timestamp 0 before any wrap
  (`Timely`);
* a packet of another peer, where the stream or its hook is alone on the socket.

`CrashOnlyWhileHandlersChange` has no exception for a stream that is alone: it allows a
crash while ZRTP installs handlers, or when the other stream of a shared socket was
there and has left. `SecureChannel` is what an application is promised by authentication
with replay protection: nothing but what was sent, as it was sent, none of it twice. The
stream that is shown to be one (`Secured`) authenticates, keeps a replay list, has
neither RTCP nor ZRTP nor timestamps from 0, and not the only hook of a shared socket:
with each of these the exceptions above occur.

### StartCodes, MediaSender

`StartCodes` is the search for start codes as the code does it, word by word with a
prefetch, and the definition of the NAL units it is meant to find. A loop of the code is
a function of the number of its turns, of which there are at most as many as steps fit
the frame; `Turn` is one of them, and a search that has ended stays as it is.
`MediaSender` is `push_media_frame()` of all formats: a frame is a sequence of octets,
of which only zeros and ones matter, in every alignment to the words of the search.
Units are bundled, sent as they are or fragmented; `active` is the transaction of the
frame queue, filled by `enqueue_message` and sent by `flush_queue`, which numbers,
stamps and encrypts each packet and may fail after any of them. Where sendmmsg() is
given several packets (RCE_SYSTEM_CALL_CLUSTERING, `Cluster` of them in a call), it may
send fewer, and the rest of that call is lost without an error (`SendFallsShort`,
`socket.cc:687`). With RTP_NO_H26X_SCL a frame of any H.26x format is one unit
(`whole`), as it always is in `atlas`. An octet on the wire is its position in the
frame. Small is smaller than it is in the code (`PayloadSize` octets fit a packet).
`h265` stands for H.266 as well, whose packets have the same form, and `atlas` for V3C.

### StreamSetup

`session::create_stream()` and `destroy_stream()`, each stream in a thread of its
own, with the socket factory, the RTCP readers, the flows and the ZRTP object
underneath. A stream lives several lives, each with a configuration: its port,
SRTP with keys of the user or from ZRTP (`dh`, `msm`), RTCP of its own or none, and
the step at which it fails, if it does. `at` is the step the thread is at; every
step that takes a mutex of its own is an action. The flags of the ZRTP object
(`dh_finished_`, the busy flag, its socket) are here, its messages in
`ZrtpHandshake`.

A flow keeps the rce_flags of the stream that started it (`flags`), and which of the
later ones need others (`unserved`): `process_packet()` asks these flags before it calls
the SRTP and RTCP handlers, or tells RTCP from RTP. The reader's start is four steps:
`ReaderStart` reads `active_`, `ReaderLaunch` makes the thread, `ReaderMark` sets
`active_`, and in between the thread may find it unset and end (`ReaderLeaves`, noted in
`left`). Its stop() is one step; a `ReaderMark` can fall into it only where calls
overlap on a port.

A configuration is one of `Configs`, the lives of a stream any sequence of them. Two
assumptions are about the application: streams and ports are numbers
(`SetupAssumption`), and at most one life of one stream is in Diffie-Hellman mode
(`OneDhAssumption`; "Currently, ZRTP only works reliably with one stream performing
DH", `docs/README.md`).

`disturbed` is history: the ports on which calls overlapped (a stream that comes, sets
its keys or goes, `Create`, `AddSrtpCtx`, `Destroy`, while one on the same port goes or
comes), on which a stream failed, whose socket a ZRTP object keeps, or where two streams
of a flow receive from the same SSRC (`GetFlow`, `SetRemoteSsrc`). There `Heard` and
`NothingLeft` promise nothing, because the code does not (section 6). On the other ports
`Heard` makes two exceptions, for the two defects that need no disturbance: an
`unserved` stream is not promised that its handlers are called, and a reader that has
`left` not that it reads. `intruded` is history too: a stream has unlocked ZRTP for
another one, and from there `NegotiatesAlone` promises nothing.

## 4. Runs

| run | shows | instance |
|---|---|---|
| `flow` | packets are handled once, in order, none lost until the ring is overrun; stop leaves no thread and no frame; the flow implements `PacketPipe`; a stop that does not hit the processor between its test and its wait completes and releases a blocked pull; an awake processor drains the ring | 2 slots, 3 packets, two callers, one puller |
| `flow_stop_hangs` | counterexample: stop() can hang | 2 slots, 1 packet |
| `h26x` | NAL units are whole, delivered once, as soon as complete; no fragment leaks or dangles; freed fragments are read only where NAL units interleave; nothing that needs a lost reference is delivered | three trials: one fragmented NAL unit per access unit, a packet may overtake three others; two of them per access unit in order, with dependency enforcement and garbage collection; three per access unit that interleave. One loss, one duplicate |
| `h26x_crash` | counterexample: freed fragments are read | a packet overtakes two |
| `generic` | frames whose first packet comes first are whole, returned once, at once, and nothing else is held | 3 + 1 + 4 packets, one may overtake three others, one lost, one duplicated, 8 packets in a cycle of 9 numbers |
| `zrtp_handshake` | keys agree, the responder is ready before the initiator, every call returns but one that repeats an old Confirm2 for ever, lost messages but acknowledgements are repaired | one DH negotiation without giving up and one loss; DH followed by multistream, and DH followed by DH, with three tries (two for Hello) |
| `rtcp` | only a getter against a handler can deadlock; a null participant is used only after another thread removed it; a report covers every source heard in its period; the losses it tells are true | eight scenarios, below |
| `rtcp_protected` | counterexample: no report is sent under SRTP | one source, three packets |
| `secure` | no keystream is used twice; what is delivered is what was sent; the receiver implements `SecureChannel`; a handler meets a missing frame only while handlers change | ten scenarios: plain; encrypted; the same with timestamps from 0; authenticated with replay protection; the same with a null cipher; two streams on a socket, of which one leaves; ZRTP under traffic, with statistics and on a shared socket; a single hook on a shared socket; a protected stream beside one that leaves. The packets 1 to 4 in a cycle of 4 numbers, 2 in flight, 4 received, one of the other peer |
| `sender` | what reaches the wire is the units of the frame, whole, in order, well-formed, stamped alike and with the index of their number, unless a flush failed or fell short | every alignment of start codes, every format and feature, 10 octets a packet, two packets to a clustered call, cycles of 4 numbers |
| `sender_lost` | counterexample: RTP_OK for a frame of which a flush failed | one push of an H.264 frame |
| `setup` | who is up is heard, unless the flow has other flags or the reader left at once; who is gone leaves no port, socket, flow, reader or thread; negotiations do not overlap | three streams on ports 10 to 16, five sockets, ten scenarios |

The scenarios of `rtcp`: packets lost, late and doubled around the wrap; all
threads at once with a source that says BYE and one that falls silent; a source that
says BYE after the runner has removed it, and one that is asked for then; reports with
all that an application may add; hooks and packets that are refused; an object that was
never started; stop() at any step; a full table.

Why the bounds are enough.

* Ring: with two slots every relation of the two indices occurs (empty, one, full,
  wrapped) and three packets overrun it; the theorems of section 7 lift the safety
  results to every size.
* Reassembly: a NAL unit of three fragments has a start, a middle and an end; one loss
  and one duplicate in all positions, combined with overtaking by up to three, produce
  every order of fragments in the window; two access units make old and new meet. An
  access unit of three fragmented NAL units and one that is not has every way to
  interleave that the search tells apart; the theorems of section 7 lift the results to
  any number.
* Handshake: each endpoint gives up after three sends instead of ten (two instead
  of twenty for Hello). Three are needed: the last send gives up at once, so with
  two a message is never repeated by an endpoint that goes on. Messages in flight
  are a set, received in any order or never: an endpoint that gives up cannot tell a
  late message from a lost one. Retries without a limit (`patient`) are combined with
  one explicit loss. What is in flight to an endpoint that begins the next negotiation
  is lost: a message of an earlier one still arrives when its sender, not done yet,
  repeats it. The endpoints are alike, so the one whose first Commit is larger is
  endpoint 1.
* RTCP: with eight sequence numbers a jump within the dropout, one beyond it, a
  packet within the misorder and one outside of it are all possible and distinct.
  Two sources fill a table of two and let one go while the other stays.
* SRTP: the packets 1, 2, 3, 4 have the sequence numbers 1, 2, 3, 0 of a cycle of four.
  The first two come before packet 65535 (here 3), so that a stream that authenticates
  delivers, before its wrap is refused; two in flight reorder, also across the wrap; of
  four received one can be a replay, and one packet of the other peer can take the
  number 3. The theorems of section 7 lift all that the run checks to every cycle, every
  number of packets and every choice of features.
* Sending: frames are joined from four pieces out of start codes of three and four
  octets, zeros that belong to none, and payloads shorter and longer than a packet, so
  that start codes occur in every alignment to a word of four; further frames put units
  that fit a bundle, a packet and neither in several orders. Three pushes wrap the
  sequence number, in one frame and between two.
* Setup: three streams are needed for two that share a port and a third that
  takes a socket, or a negotiation, from them.

All runs but `flow` allow the system to stop, because the trial, the handshake or the
scenario ends or the program crashes. In `rtcp` the deadlock of a getter and a handler
is one such end: the invariant says it is the only circle there is.

## 5. Fairness

`ReceptionFlow`: weak fairness of the receiver, the processor and the started
calls of each application thread: the operating system runs every thread that can
run. Nothing is assumed of the network (`Arrive`), of the application (it need not
call), or of spurious wakeups.

`ZrtpHandshake`: weak fairness of `Proceed` (the session's thread runs), of
`Timer` (time passes) and of `Useful`, the arrival of a message of a type the
receiver does not have yet: what is sent again and again and not lost arrives.
Loss is explicit and bounded.

`RtcpSession`: weak fairness of the processor, the reader and, while the program
has not crashed, the runner. It is used only by the counterexample `rtcp_protected`, so that
it is the code and not a thread that does not run which sends no report.

The other modules have no liveness: what they do, they do when a packet arrives or
an application calls.

## 6. What the checks found

Each of these is a run with a counterexample, listed under `findings` in
`PROJECT.json`:

* `reception_flow.cc:505`: the processor tests `should_stop_` and then waits
  without a predicate. A stop() in between notifies nobody and hangs in join().
* `h26x.cc:818`: the walk continues after a reconstruction and reads fragments
  that were freed.
* `rtcp_packets.cc:21`: under SRTP a report has room for an index and a tag of
  14 octets, its size is no multiple of four, and the header is refused: no report is
  ever sent.
* `h26x.cc:414`: the result of a later flush replaces the error of an earlier one, and the
  push returns RTP_OK for a frame of which a part was not sent (`sender_lost`).

What follows are properties of the code that the models show, that the
preconditions of the properties name, and that have no run of their own.

Reception flow

* `reception_flow.cc:465`, `:644`: nothing keeps the receiver from overrunning the
  processor. After that, packets are skipped and others processed again, which
  the comment at 644 excludes.
* A processor notified just before it waits leaves the packets of that burst in
  the ring until the next packet arrives (`AwakeProcessorDrains` is about a
  processor that is awake).
* `zrtp.cc:979`: `packet_handler` keeps pointers into the ring, whose slots are
  written again while the session's thread parses them.

Reassembly

* `media.cc`: a duplicate counts as a packet, so a frame can be returned with a
  packet missing; when the first packet is lost the frame is returned without
  it; a packet with the marker that comes first is returned as a frame; a first
  packet that comes late is sorted behind the others (`media.cc:130`, against the
  comment at 143).
* `h26x.cc:589`: with dependency enforcement, garbage collection of access units that
  were complete sets the flag that discards inter frames, though nothing was lost.
* `h26x.cc:857`: with packets 1, 3, 2, 4 of two NAL units of one access unit the
  fragments of the first remain in `fragments_` although nothing will use them.
  `h26x.cc:781`: a lost fragment keeps complete NAL units after it waiting, until
  garbage collection drops the access unit with them.
* `h26x.cc:1001`: a NAL unit that was complete behind another of its access unit is put
  together when the last fragment of that one comes, and gets the NAL header of that
  fragment, although `h26x.hh:115` says that the handler "merges all fragments into a
  complete NAL unit". The two headers are the same for slices of a picture, not for a
  slice and a large SEI. `WholeNalUnits` without `interleaved` is violated by this.

ZRTP

* `zrtp.cc:438`, `zrtp.cc:667`: HelloACK and Conf2ACK are not repeated once their
  sender has moved on. When the last one is lost the peer repeats its message
  until it gives up (the precondition `ackLost` in `LossIsRepaired`).
* `zrtp.cc:656`: a Confirm2 made with other keys, repeated by an initiator that has not
  seen the Conf2ACK of the negotiation before, stops the responder of a second
  Diffie-Hellman negotiation for good: the `continue` goes back to the test that found
  it, without the timer or the counter that end the other loops, although `zrtp.hh:53`
  promises RTP_TIMEOUT. `AlwaysReturns` names this state (`SpinsOnConfirm2`) as the only
  one in which an endpoint stays, and the run reaches it.
* In multistream mode the Confirm keys and the hash chain are the previous
  negotiation's. A Confirm2 that the initiator repeats because the Conf2ACK is slow,
  when the responder has begun the multistream negotiation, is accepted there: the
  responder is done before the initiator has a key, and the initiator, never
  answered, gives up. `InitiatorIsLast` leaves out such a responder (`mixed`).
* With a third negotiation the same mixture makes keys differ: the responder has ended
  the second early, begins the third, and stores the Commit of the second that the
  initiator, still there, repeats. Both complete the third, with different keys. With a
  fourth, the initiator can then get a DHPart1 in a multistream negotiation and parse
  a Confirm1 that it does not have, a null pointer. `KeysAgree` and `NeverCrashes` leave
  out these negotiations (`MixedAgain`); the proofs say there are no others.

RTCP

* `rtcp.cc:703` against `rtcp.cc:1425`: a getter locks `participants_mutex_` and then
  the mutex of the report, a handler the other way round. `OnlyGettersDeadlock` says
  this is the only circle of waiting threads.
* Participants are looked up without their mutex in the handlers and in the timeouts
  of the runner: one that is removed between the test and the use is dereferenced as null
  (`CrashOnlyAfterRemoval`). A getter that holds the mutex may meet that too, because the
  runner removes without it (`rtcp.cc:2116`). The processor and the reader may both add
  a source.
* `rtcp.cc:1207`: the silence of a source is counted before it is known that there is
  one. A BYE that is read after the runner has removed its source leaves a count behind, and
  the runner dereferences null when that times out.
* `rtcp.cc:373`: `set_sdes_items()` looks for items of type 0 only up to the CNAME. One
  that stands behind it is sent, the reader takes it for the end of the chunk, and what
  follows for the chunk of another source, although `rtcp_packets.cc:34` says that there
  is only one. So `ReportsCoverPeriod` speaks of the first chunk.
* A table that was full stays full although participants have left.
* The first packets of a source on probation are dropped, not held back.
* A report whose APP part cannot be built loses its blocks, and what they would
  have told is not told later. An APP hook that is removed remains noted as
  installed, and the note is read twice while a report is built. A session that
  changes from receiver to sender between the size and the writing of a report
  sends none.
* Feedback packets (types 205 and 206) are refused.

SRTP and dispatch

* `srtp.cc:102`: the sender authenticates packet 65535 with a rollover counter that is
  already incremented. A receiver that authenticates refuses it, so never counts the
  rollover, and refuses every packet that follows.
* Where nothing is authenticated, the receiver counts the rollover when it sees packet
  65535: if that one is lost or doubled its counter is wrong from there on. So it is
  when a packet of another peer has that number and the stream is alone on the socket
  (`srtp.cc:116`).
* A receiver starts with `rts` 0: a stream whose timestamps start with 0 gets
  the wrong index for a late packet.
* A packet of the last frame before a wrap that comes late is told by the timestamp of the
  packet 65535 that was decrypted last. When two of these came in the wrong order the
  packet gets the wrong index, so `DeliveredAsSent` asks that the wrap of its frame is the
  last one seen (`Timely`); its proof needs that.
* `reception_flow.cc:382`: the only hook of a flow gets every frame, also those of other
  streams on the socket, although `reception_flow.hh:75` says "SSRC is what separates one
  stream from another".
* `reception_flow.cc:607`: with RTCP the verdict of the statistics replaces that of
  SRTP, and a packet that was refused as a replay goes on to the media handler.
* While ZRTP installs its handlers, ciphertext may be delivered as media and the
  `srtp` handler may meet a frame that is not there yet.
* `reception_flow.cc:540`: the processor works with a pointer to handlers that another
  thread may remove.
* With RCE_RTCP_MUX, an RTP packet whose timestamp equals the SSRC of a peer is
  dispatched as RTCP; with one set of handlers RTCP is treated as RTP.
* `pull_frame(ssrc)` looks only at the first frame: one of another SSRC that nobody
  pulls keeps all others waiting.

Sending

* `frame_queue.cc:226` writes headers into an array of 5000 without the test that
  `frame_queue.hh:112` promises (RTP_MEMORY_ERROR).
* With SRTP, a packet in one buffer is encrypted in the application's memory.
* `frame_queue.cc:350-367`: paced packets after one that failed are not sent and not
  encrypted, but their numbers are used: a wrap among them is not counted by SRTP.
* `OkMeansSent`, what `media_stream.hh:132` promises, fails in three ways: a failed
  flush is forgotten (`h26x.cc:414`, the run `sender_lost`); a unit that is the only one
  of its bundle is not sent, the error of `finalize_aggregation_pkt()` being overwritten
  (`h26x.cc:383`); and the partial results of sendmmsg() are ignored (`socket.cc:687`).
  `SentAsGiven` leaves out the first and the last, and states the second: all but that
  unit arrives.
* The marker is set on the last packet of each NAL unit that is sent on its own, not only
  of the access unit.
* A NAL unit of two octets at the end of an H.265 or H.266 frame is not found by the
  search, which needs four. A frame without a NAL unit leaves its transaction behind.

Streams of a session

* `socketfactory.cc:91`, `session.hh:44`: after a stream with ZRTP has ended, or one
  has failed, a new stream on the same port gets a socket that is not bound and
  hears nothing, without an error.
* A stream that fails after it has started RTCP leaves it running in the reader for
  ever: the two hold each other.
* `media_stream.cc:524`: a stream whose RTCP port is the RTP port of another crashes.
* `rtcp_reader.cc:42`: two threads that create streams with RTCP on one port both start
  the reader's thread, which terminates the program. start() sets `active_` after it
  makes the thread, which may see it unset (`rtcp_reader.cc:68`) and end at once. Then
  `active_` keeps every later start() from making another, and the RTCP of that port is
  not read until all its streams are gone (`left` in the run `setup`).
* `reception_flow.cc:135`: the rce_flags of the first stream of a flow stay with its
  thread. A stream that comes to the port with SRTP or RTCP when the first one has
  neither gets its handlers installed and never called: its media is delivered
  encrypted, its statistics stay empty (`unserved` in the run `setup`).
* A destroy that overlaps a create on one port can leave the new stream a flow that is
  stopped.
* `add_srtp_ctx()` without RCE_SRTP_KMNGMNT_USER, called on a stream that runs, tears
  the stream down and leaves its media handler installed.
* `media_stream.cc:309`: every stream that fails, ends or gives up waiting clears the
  busy flag of the shared ZRTP object, also while another negotiates, and so does any
  stream that is created after it without ZRTP.
* `media_stream.cc:445`: `dh_has_finished()` and `unlock_zrtp()` are two steps. The DH
  stream can clear the flag that a multistream stream has set in between, and two
  negotiations overlap although the comment at 420 excludes it.
* `session.cc` switches on authentication for replay protection after the stream
  took its flags, so the stream itself does not have it.
* RCE_HOLEPUNCH_KEEPALIVE without a remote address dereferences null.

## 7. What is proved

Each component's theorems are in a module of their own, `...Proofs`. All are of the form
`Spec => []Inv` or `Spec => Abstract` for every value of the constants; the
assumptions are those the component's module declares, named there, and TLC evaluates
them on every run. The proofs have the same shape everywhere: an inductive
invariant, one lemma per action or per part of the invariant that an action
disturbs, one for the step, and the theorem.

### `ReceptionFlowProofs`

For every ring size, every number of packets and all sets of application threads (at
least one slot, `NoThread` is not a caller).

* `TypeCorrect`: `TypeOK` is an invariant. In particular ring indices stay in the
  ring although both start at -1. Inductive as it stands.
* `StopLeavesNothing`: `StopQuiesces`. The strengthening `LifecycleInv` says which
  threads exist at each step of start() and stop(), and that a caller in one of
  these steps holds `active_mutex_`.
* `RingLosesNothing`, `RingKeepsOrder`, `FlowImplementsPipe`: the accounting of
  packets (`NothingLost`), their order (`HandledInOrder`, which the refinement
  implies on the instance), and that the flow implements `PacketPipe`, all from
  `RingInv`: as long as the ring is not overrun the packets taken are those handled,
  the one in the processor's hands, those in the slots between the two indices and
  the one in the receiver's hands, and the slots hold consecutive packets.
* `FramesKeepOrder`: `DeliveryInOrder`, what was pulled and what waits in the queue is
  in the order of arrival, from the same invariant and one about the queue.

### `SecureReceptionProofs`

For every length of the cycle of sequence numbers, every first number, every frame
length and misorder that fit the cycle (`ConstantsAssumption`) and every choice of
features in which only SRTP encrypts and authenticates (`ScenariosAssumption`).

* `SecureTypes`: `TypeOK`.
* `KeystreamIsUsedOnce`: every packet is encrypted with the index of its number, so no
  two with the same. `PacketsInv`: the rollover counter of the sender is the number of
  cycles completed, `next` divided by `SeqBound`. The lemmas `Division`,
  `DivisionUnique` and `NextCycle` say how quotient and remainder go on.
* `HandlersMeetTheirFrame`: `CrashOnlyWhileHandlersChange`, so a stream that is alone
  and has its keys from the user never crashes its processor. `HandlersInv`: handlers
  are installed once, in an order in which the `rtp` handler comes before those that
  read its frame.
* `FramesArriveAsSent`: `DeliveredAsSent`. `ReceiverInv` ties the receiver's counter to
  the wraps it has seen; of a packet that is `Timely` they are those before it, which is
  the sender's counter when it was sent, whatever numbers the other peer's packets have.
  `DeliveryInv` follows the payload and what SRTP did with it through the handlers, the
  queue and the getters.
* `SecuredStreamIsChannel`: a stream with authentication and a replay list implements
  `SecureChannel`. `SecuredInv`: everything let through is in the replay list, and then
  in one place only. It also says what section 6 does: such a receiver never leaves the
  first cycle. It delivers the packets before the one numbered 65535, and nothing from
  there on.

### `RtcpSessionProofs`

For all peers, bounds and sizes of the table, and everything the peers may send that
`Readable` describes and the application may call.

* `SessionTypes`: `TypeOK`, with what each thread has in its hands at each step.
* `OneDeadlock`: `OnlyGettersDeadlock`. `Mutual` derives who holds which mutex from where
  the threads are; of all sets of threads only one getter and the reader can then wait
  in a circle.
* `CrashesExplained`: `CrashOnlyAfterRemoval`. `Ended` is the order in which stop() and
  the destructor wait for the threads, `Lookups` that a thread which goes on to use a
  source finds it or has one of the three excuses. The third, `strays`, was found by
  this proof.
* `LossesAreTrue`: `LossIsTrue`. `Counting` relates `max_seq`, `cycles` and `bad_seq` of
  a participant to the numbers its source has sent, through every branch of
  RFC 3550 A.1, for every modulus larger than the dropout and the misorder together.
* `ReportsAreComplete`: `ReportsCoverPeriod`, for any number of sources, items, APP
  packets and lengths. It takes two steps. The packets: `Begun` describes a buffer after
  its report and `Described` the items of a session, among which the CNAME comes before
  any item of type 0. `SentIsRead` then says that when every `construct_*` succeeded,
  `read_compound` finds the packets that were written and nothing else: the fields lie
  one behind the other (`PutAll` and the sums of their sizes), the number of words in
  each header leads to the next (`Marks`), and the buffer ends where the last packet
  does because the sizes that were computed beforehand are those that were written. The
  item of type 0 does not matter: it ends the first chunk too early, not the packet.
  What a loop computes is derived from its turns by an induction over their number
  (`Induction`, `OneSolution`), as in `MediaSenderProofs`. The session: `Accounted` says
  that the sources owed a block are those that the table marks as heard, at every step
  of the threads that count, remove or report; `ReportBlocks` makes a block for each
  (`BlocksReady`). `QueueOK` says that the items to be sent are `Described`, `Ready`
  that between the blocks and the sending the rest of the buffer has the size of what
  will follow, although the application may queue packets meanwhile: it takes
  `packet_mutex_` to do so, and only the hooks escape it, which `switched` excludes.

### `GenericReassemblyProofs`

For every trial that satisfies `FramesAssumption`: any number of frames of any size, loss,
doubling and overtaking, the cycle of sequence numbers of any length.

* `ReassembledWhole` (`WholeFrames`), `ReassembledAtOnce` (`CompleteIsDelivered`) and
  `HoldsWhatItMust` (`HeldIsIncomplete`), all from one invariant. `AssemblyInv`: of a frame
  that is not disturbed the entry holds exactly the packets that came, each at the key of
  its distance from the first, counted once, until it is complete, and then a
  frame of them all in order. `ApartInv`: a packet that came once is in one place.

### `H26xReassemblyProofs`

For every trial that satisfies `StreamAssumption`: any number of access units, NAL units
and fragments, loss, doubling and overtaking, dependency enforcement or not, the cycle
of sequence numbers of any length.

* `HandlerTypes` (`TypeOK`), `NalUnitsAreWhole` (`WholeNalUnits`), `NalUnitsComeOnce`
  (`DeliveredOnce`), `CompleteIsReturned` (`CompleteIsDelivered`),
  `HoldsWhatItReleases` (`HeldIsIncomplete`), `CrashesInterleave`
  (`CrashOnlyInterleaved`), and the action property `InterWaitsForIntra`
  (`InterNeedsReferences`), all from one invariant, `H26xInv`.
* Its center is `Sound`, on the sets of an access unit and `fragments_` together: what
  waits for reconstruction is held and has come (`UnitsOK`, `HeldOK`), what is held
  waits (`NoLeak`), and what has come and neither waits nor was dropped is in a NAL unit
  returned, whose other fragments do not wait either (`Used`). `Blocked`: a complete NAL
  unit that waits stands behind an earlier one which the search for a start meets first.
* The walk over the numbers received is forward in the stream although it goes around
  the cycle (`WalkIsForward`, `DistanceAround`). From the start that the search finds to
  the first end is therefore exactly one NAL unit, the one of the packet that has come
  unless NAL units interleave.
* `Spent`, for once-only delivery: of a NAL unit returned within `KeepTrack` a packet is
  remembered that waits no longer, so the NAL unit cannot be complete again.

### `StreamSetupProofs`

For any finite set of streams, any ports and sockets, and any lives of which at most one is
in Diffie-Hellman mode.

* `SetupTypes`: `TypeOK`; the strengthening `TypeInv` says what a thread has at each step.
* `OneAtATime`: `NegotiatesAlone`. `NegotiationInv`: until somebody has unlocked ZRTP
  for another stream, the busy flag is set exactly while one negotiates; before the
  Diffie-Hellman stream has finished nobody else does.
* `UpIsHeard`: `Heard`. `SetupInv(b)` is about a function `b`, the port that each socket
  was made for: a socket is bound to that port or to none, whoever points to it
  (`Belongs`). At an undisturbed port, `Rtp` and `Rtcp` say what a stream can rely on at
  each of its steps; `HeldInv` that a socket somebody keeps is the one entered for its
  port, so that the next stream gets it too; `OverlapInv` that who still holds another
  one is about to go. A stream stops its flow when it finds no handler there: `OwnerInv`
  gives every handler an owner, `RemoteInv` makes the SSRCs of a flow different, and so
  no handler means no other stream. `FlagsInv`: on an undisturbed port a stream that is
  up is `unserved` or its flow has its flags. No step but `StartFlow` touches them
  (`FlagsStay`), it only does on a flow that has stopped, and a step of one stream
  leaves the others where they are (`NextLeaves`). `RunsInv`: a registered reader that
  is marked has its thread, which may have left. The proof found two things that the
  precondition had to name: streams with the same SSRC, set in either order, and
  `add_srtp_ctx()` while another stream of the port ends.
* `NothingStays`: `NothingLeft`. `UseInv`, while nothing is disturbed: every port that
  is entered, every socket, running flow, handler and reader has a stream that uses it
  and has not given it up yet.

### `ZrtpHandshakeProofs`

For every sequence of Diffie-Hellman and multistream negotiations that starts with the
former, any number of retries and any loss (`ScenariosAssumption`, `TriesAssumption`).

* `HandshakeTypes` (`TypeOK`), `KeysAreEqual` (`KeysAgree`), `InitiatorCompletesLast`
  (`InitiatorIsLast`), `AnswersAreParsed` (`NeverCrashes`), all from one invariant:
  `Local`, what an endpoint has in each loop; `Truthful`, what a message of a
  negotiation says of its sender, as long as it is in flight or stored; `Fresh`, of
  which messages an older one can arrive; `AllAgreed`, how two endpoints stand in each
  negotiation. The argument is that while one endpoint is ahead the other has only its
  Confirm2 left to send, so an endpoint that begins a negotiation can find nothing else
  that is old; a Confirm2 accepted there leaves its peer alone in that negotiation, and
  the harm comes with the next.

### `MediaSenderProofs`

For every set of frames of octets, every payload size above 4, every modulus of the
sequence numbers, every first number and every scenario of failing sends
(`SenderAssumption`, `ScenariosAssumption`).

* `PacketsAreWellFormed`: `WellFormedPackets`. `SizeInv`: what waits in the transaction
  or was sent fits, and so does the bundle that is still to be sent. `AggregateIs` and
  `BundledIs`: the units at the front were all chosen, so their sizes add up to less
  than a packet takes. `PiecesFit`: no piece is longer than it may be. `TimeInv`: a
  transaction that is filled has the timestamp of the frame, also when a unit begins a
  new one.
* `IndexFollowsNumber`: `IndexIsNumber`. `CountInv`: the packets that wait have the last
  numbers that were taken, and the rollover counter is the quotient of the first of them
  by the modulus, because `EncryptAll` counts every wrap of a transaction, whatever is
  sent of it (`OneMore`, `WrapsOfFirst`).
* `FramesArriveAsGiven`: `SentAsGiven`, that a receiver makes of the packets on the wire
  the units of the frame as `ReferenceUnits` defines them. It takes three steps. The
  search: `Goes` and `Seen` say what one turn of `find_h26x_start_code()` knows of the
  word before it; `FindsNext` concludes from them, by induction over the turns, that a
  search returns the next start code, or none if what is left holds none before its last
  three octets. `AllCodesIs` and `CodesInOrder` chain the searches. Either all start
  codes were found (`AllFound`) or the one at the very end was missed, whose unit would
  be too short (`OneMissed`): `UnitsAreReference`. The pieces: `PiecesMeet` and
  `CarryPieces` say that the fragments of a unit, put together, are the unit, whether
  its header is carried in them or taken off. The session: `DeliveryInv` says that
  unless a send failed or fell short, what a receiver makes of the packets that were
  sent and of those that wait, followed by the units still to be sent, is `Due`, the
  units of the frame but for a bundle of one. Such a send voids it until the next
  `push_frame()`. `DueHasArrived` reads `SentAsGiven` from it when nothing waits.
* Sums, the greedy choice and the search are recursive functions. What they compute is
  derived from their definitions by an induction over a set of numbers (`Induction`,
  from the least number that is not in it): a function with a first value and a step
  exists (`Recursion`), is the only one (`OneSolution`) and so has the type of its
  values.

### What is only model-checked

* All liveness (`AlwaysReturns`, `LossIsRepaired`, `AwakeProcessorDrains`, ...):
  fairness and ENABLED are outside the prover's reach.

## 8. What is not modelled

* `holepuncher`: a thread that sends a datagram when nothing was sent for a while.
* `crypto`, and SRTCP's use of it: hashes, keys and ciphertexts are in the models what
  they are computed from; of SRTCP only the room it takes.
* `zrtp_receiver`: nobody calls it any more.
* Utilities (`clock`, `frame`, `hostname`, `random`, `memory`, the C interface):
  no state that interacts.
* Jitter, round trip time and the bandwidth of RTCP: arithmetic that no decision
  of the code reads.
* `pull_frame()` with a timeout, `configure_ctx()` but for the remote SSRC, buffer sizes:
  assignments, or waiting for less long.
* The thread of the RTCP reader ending after an error of poll().
* Multicast addresses, port 0 and IPv6: other calls of the system with the same
  state.
* ZRTP's versions and Error messages.
* The older NAL unit headers on reception, and V3C: `H26xReassembly` with another
  header.
* Formatting of headers, padding and extensions.
