--------------------------- MODULE SecureReception ---------------------------
(***************************************************************************)
(* From the SRTP context of a sender, over the network, to the frames an   *)
(* application receives: srtp::send_packet_handler(), the dispatch of      *)
(* reception_flow::process_packet() with its rtp, srtp, rtcp_common and    *)
(* media handlers, return_frame() and pull_frame().  The processor keeps a *)
(* pointer to the handlers of a stream and reads them one by one without   *)
(* handlers_mutex_, while another thread installs or removes handlers: a   *)
(* step of the processor is one handler.                                   *)
(***************************************************************************)
EXTENDS Integers, Sequences, FiniteSets, SequencesExt

CONSTANTS Mine, Other,      \* SSRCs of the protected stream and of another peer
          SeqBound,         \* 2^16
          First,            \* the sequence number the peer starts with, at random
          MaxOff,           \* MAX_OFF
          FrameLength,      \* packets with the same timestamp
          MaxPackets, MaxInFlight, MaxReceived, MaxForeign,     \* bounds
          Scenarios

\* What is enabled on the streams of a socket.
Features == [srtp : BOOLEAN, cipher : BOOLEAN, auth : BOOLEAN, replay : BOOLEAN,
             rtcp : BOOLEAN, zrtp : BOOLEAN, multiplexed : BOOLEAN, leaves : BOOLEAN,
             getter : BOOLEAN, hooks : SUBSET {Mine, Other}, ts : Nat]

ASSUME ConstantsAssumption ==
    /\ Mine # Other
    /\ SeqBound \in Nat \ {0} /\ First \in 0 .. SeqBound - 1 /\ MaxOff \in 1 .. SeqBound - 1
    /\ FrameLength \in 1 .. SeqBound - MaxOff + 1
    /\ {MaxPackets, MaxInFlight, MaxReceived, MaxForeign} \subseteq Nat /\ First <= MaxPackets

\* Only SRTP encrypts and authenticates.
ASSUME ScenariosAssumption ==
    /\ Scenarios \subseteq Features
    /\ \A s \in Scenarios : s.cipher \/ s.auth => s.srtp

VARIABLES
    next,       \* number of the next packet of the peer
    local,      \* roc of the sender
    net,        \* packets on their way, to be received any number of times
    foreign,    \* packets that the other peer may still send
    remote,     \* roc, rts and replay_list_ of the receiver
    sets,       \* packet_handlers_: the handlers installed, by SSRC
    todo,       \* the handlers that the stream Mine still installs, in order
    hooks,      \* SSRCs with a receive hook
    proc,       \* the packet in the hands of the processor
    ready,      \* frames that wait in the H.26x media handlers for the getters, by SSRC
    frames,     \* frames_
    got,        \* what the application received through the stream Mine
    tops,       \* packets with the highest sequence number that were decrypted, -1 for
                \* one of the other peer
    scenario

receiver == <<remote, tops>>
streams  == <<sets, todo, hooks>>
output   == <<ready, frames, got>>
vars     == <<next, local, net, foreign, receiver, streams, proc, output, scenario>>

NoPacket == [at |-> "idle"]
Crashed  == [at |-> "crashed"]

-----------------------------------------------------------------------------
(* The sender.                                                             *)

SequenceOf(n) == n % SeqBound
Top == SeqBound - 1

\* Timestamps start anywhere, and may start at 0 like rts.
Timestamp(n) == scenario.ts + ((n - First) \div FrameLength)

PacketIndex(roc, seq) == roc * SeqBound + seq

\* Mutant: the rollover counter of the sender stays.
RolloverMissed(roc, seq) == roc

\* encrypt() counts the rollover before the packet is authenticated.
Rollover(roc, seq) == IF scenario.cipher /\ seq = Top THEN roc + 1 ELSE roc

Protect(n) ==
    [kind |-> "rtp", ssrc |-> Mine, n |-> n, seq |-> SequenceOf(n), ts |-> Timestamp(n),
     index |-> IF scenario.cipher THEN PacketIndex(local, SequenceOf(n)) ELSE -1,
     tag |-> Rollover(local, SequenceOf(n))]

Send ==
    /\ next < MaxPackets /\ Cardinality(net) < MaxInFlight
    /\ net' = net \cup {Protect(next)}
    /\ local' = Rollover(local, SequenceOf(next))
    /\ next' = next + 1
    /\ UNCHANGED <<foreign, receiver, streams, proc, output, scenario>>

\* The packet is received for the last time, or was lost.
Vanish(p) ==
    /\ net' = net \ {p}
    /\ UNCHANGED <<next, local, foreign, receiver, streams, proc, output, scenario>>

-----------------------------------------------------------------------------
(* Handlers come and go.                                                   *)

All == {"rtp", "media", "getter"}
       \cup (IF scenario.srtp THEN {"srtp"} ELSE {})
       \cup (IF scenario.rtcp THEN {"rtcp_common"} ELSE {})

Optional(h) == IF h \in All THEN <<h>> ELSE <<>>

\* Mutant: the SRTP handler is installed before the rtp handler.
SrtpFirst ==
    <<"zrtp", "media", "getter">> \o Optional("srtp") \o <<"rtp">> \o Optional("rtcp_common")

\* init(), create_media() and, when ZRTP is done, install_packet_handlers().
InstallOrder ==
    <<"zrtp", "media", "getter", "rtp">> \o Optional("rtcp_common") \o Optional("srtp")

install_handler ==
    /\ todo # <<>>
    /\ sets' = [sets EXCEPT ![Mine] = @ \cup {Head(todo)}]
    /\ todo' = Tail(todo)
    /\ UNCHANGED <<next, local, net, foreign, receiver, hooks, proc, output, scenario>>

\* Mutant: the flow is cleared of all its streams.
ClearFlow ==
    /\ scenario.leaves /\ Other \in DOMAIN sets
    /\ sets' = <<>> /\ hooks' = {}
    /\ UNCHANGED <<next, local, net, foreign, receiver, todo, proc, output, scenario>>

\* The other stream is destroyed.
clear_stream_from_flow ==
    /\ scenario.leaves /\ Other \in DOMAIN sets
    /\ sets' = [s \in DOMAIN sets \ {Other} |-> sets[s]]
    /\ hooks' = hooks \ {Other}
    /\ ready' = [ready EXCEPT ![Other] = <<>>]
    /\ UNCHANGED <<next, local, net, foreign, receiver, todo, proc, frames, got, scenario>>

-----------------------------------------------------------------------------
(* process_packet() for one packet.                                        *)

\* Mutant: every packet goes to the stream with the largest SSRC.
ViaLast(ssrc) == {CHOOSE s \in DOMAIN sets : \A t \in DOMAIN sets : s >= t}

\* With a single set of handlers all packets are given to it.
Via(ssrc) == IF Cardinality(DOMAIN sets) = 1 THEN DOMAIN sets ELSE {ssrc} \cap DOMAIN sets

At(step) == proc.at = step /\ proc.via \in DOMAIN sets
Installed(h) == h \in sets[proc.via]

\* What the payload of a packet is on its way: encrypted, with a tag, or both.
OnWire(p) == IF p.ssrc = Mine /\ (scenario.cipher \/ scenario.auth) THEN "protected" ELSE "plain"

Dispatch(p) ==
    /\ proc.at = "idle"
    /\ \E s \in Via(p.ssrc) :
          proc' = [at |-> "rtp", packet |-> p, via |-> s, verdict |-> "modified",
                   frame |-> FALSE, payload |-> OnWire(p), srtp |-> "none"]
    /\ UNCHANGED <<next, local, net, receiver, streams, output, scenario>>

Receive(p) ==
    /\ Len(got) + Len(frames) + Len(ready[Mine]) + Len(tops) < MaxReceived
    /\ Dispatch(p) /\ UNCHANGED foreign

\* The other peer has SRTP with other keys or none, and numbers and stamps as it likes.
Foreign(n, seq, ts) == [kind |-> "rtp", ssrc |-> Other, n |-> n, seq |-> seq, ts |-> ts,
                        index |-> -1, tag |-> 0]

ForeignTimestamps == {Timestamp(n) : n \in First .. MaxPackets}

ReceiveForeign ==
    /\ foreign > 0 /\ foreign' = foreign - 1
    /\ \E seq \in 0 .. Top, ts \in ForeignTimestamps : Dispatch(Foreign(foreign, seq, ts))

\* Without the rtp handler there is no frame, and the packet goes on all the same.
rtp_handler ==
    /\ At("rtp")
    /\ proc' = [proc EXCEPT !.at = "srtp", !.frame = Installed("rtp")]
    /\ UNCHANGED <<next, local, net, foreign, receiver, streams, output, scenario>>

\* The handlers are freed while the processor goes through them.
DanglingHandlers ==
    /\ proc.at \notin {"idle", "crashed"} /\ proc.via \notin DOMAIN sets
    /\ proc' = Crashed
    /\ UNCHANGED <<next, local, net, foreign, receiver, streams, output, scenario>>

Skip(at) ==
    /\ proc' = [proc EXCEPT !.at = at]
    /\ UNCHANGED <<next, local, net, foreign, receiver, streams, output, scenario>>

\* A handler that expects a frame gets none: the rtp handler was missing when it was
\* looked for, and this one has been installed since.
NullFrame ==
    /\ \/ At("srtp") /\ scenario.srtp /\ Installed("srtp")
       \/ At("stats") /\ Installed("rtcp_common")
    /\ ~proc.frame
    /\ proc' = Crashed
    /\ UNCHANGED <<next, local, net, foreign, receiver, streams, output, scenario>>

\* A packet goes on without SRTP when its handler is not installed.
SkipSrtp ==
    /\ At("srtp") /\ (~scenario.srtp \/ ~Installed("srtp"))
    /\ proc' = [proc EXCEPT !.at = "stats", !.srtp = IF scenario.srtp THEN "absent" ELSE @]
    /\ UNCHANGED <<next, local, net, foreign, receiver, streams, output, scenario>>

Refuse ==
    /\ proc' = [proc EXCEPT !.at = "stats", !.verdict = "error", !.srtp = "refused"]
    /\ UNCHANGED receiver

\* A packet of the frame in which the sequence number wrapped, from before the wrap.
Index(p) ==
    IF p.ts = remote.rts /\ p.seq >= SeqBound - MaxOff
    THEN PacketIndex(remote.roc - 1, p.seq)
    ELSE PacketIndex(remote.roc, p.seq)

\* The wraps before packet p have been seen, each once, and no others; or, last, only
\* that of its own frame, which it is one of the last MaxOff packets before.  And rts is
\* not taken for the timestamp of a frame before any wrap.
Timely(p) ==
    LET before == {m \in First .. p.n - 1 : SequenceOf(m) = Top}
        once   == Len(tops) = Cardinality(ToSet(tops))
        ahead  == ToSet(tops) \ before
    IN  /\ tops = <<>> => p.ts # 0
        /\ once /\ before \subseteq ToSet(tops)
        /\ \/ ahead = {}
           \/ /\ p.seq >= SeqBound - MaxOff /\ p.seq # Top
              /\ LET t == tops[Len(tops)]
                 IN  ahead = {t} /\ t # -1 /\ Timestamp(t) = p.ts /\ t - p.n < MaxOff

Decrypt(p) ==
    /\ remote' = [remote EXCEPT !.roc = IF p.seq = Top THEN @ + 1 ELSE @,
                                !.rts = IF p.seq = Top THEN p.ts ELSE @,
                                !.seen = IF scenario.replay THEN @ \cup {<<p.n, p.tag>>} ELSE @]
    /\ tops' = IF p.seq = Top THEN Append(tops, IF p.ssrc = Mine THEN p.n ELSE -1) ELSE tops
    /\ proc' = [proc EXCEPT !.at = "stats", !.verdict = "modified",
                            !.srtp = IF Timely(p) THEN "done" ELSE "untimely",
                            !.payload = IF p.ssrc = Mine /\ p.index = Index(p)
                                        THEN "plain" ELSE "garbled"]

\* With a null cipher there is nothing to do but to take the tag off.
Pass(p) ==
    /\ remote' = [remote EXCEPT !.seen = IF scenario.replay THEN @ \cup {<<p.n, p.tag>>} ELSE @]
    /\ proc' = [proc EXCEPT !.at = "stats", !.verdict = "not_handled", !.srtp = "done",
                            !.payload = "plain"]
    /\ UNCHANGED tops

\* Mutant: no look at the replay list.
AuthenticOrReplayed(p) == p.ssrc = Mine /\ p.tag = remote.roc

\* Digests are as good as the packets.
is_replayed_packet(p) == scenario.replay /\ <<p.n, p.tag>> \in remote.seen

\* The tag is made with the rollover counter.
Authentic(p) == p.ssrc = Mine /\ p.tag = remote.roc /\ ~is_replayed_packet(p)

srtp_handler ==
    LET p == proc.packet IN
    /\ At("srtp") /\ scenario.srtp /\ Installed("srtp") /\ proc.frame
    /\ IF scenario.auth /\ ~Authentic(p) THEN Refuse
       ELSE IF scenario.cipher THEN Decrypt(p) ELSE Pass(p)
    /\ UNCHANGED <<next, local, net, foreign, streams, output, scenario>>

SkipStatistics == At("stats") /\ ~Installed("rtcp_common") /\ Skip("media")

\* recv_packet_handler_common() replaces the verdict of the handlers before it: by
\* "ok" for a source on probation, an error for a jump, else "not_handled".
rtcp_common_handler ==
    /\ At("stats") /\ Installed("rtcp_common") /\ proc.frame
    /\ \E v \in {"ok", "error", "not_handled"} :
          proc' = [proc EXCEPT !.at = "media", !.verdict = v]
    /\ UNCHANGED <<next, local, net, foreign, receiver, streams, output, scenario>>

Frame == [ssrc |-> proc.packet.ssrc, n |-> proc.packet.n, payload |-> proc.payload,
          srtp |-> proc.srtp, via |-> proc.via]

Accepted == proc.verdict \in {"modified", "not_handled"} /\ Installed("media") /\ proc.frame

SkipMedia ==
    /\ At("media") /\ ~Accepted
    /\ proc' = NoPacket
    /\ UNCHANGED <<next, local, net, foreign, receiver, streams, output, scenario>>

\* return_frame(): a hook takes the frame, if it is the only one also that of another
\* stream, or frames_ keeps it.
HookOf(f) == IF Cardinality(hooks) = 1 THEN hooks ELSE {f.ssrc} \cap hooks

return_frame(f) ==
    /\ got' = IF Mine \in HookOf(f) THEN Append(got, f) ELSE got
    /\ frames' = IF HookOf(f) = {} THEN Append(frames, f) ELSE frames

\* A frame in a packet of its own is ready at once; an H.26x handler keeps the frame,
\* and the getter, once it is installed, is asked for all it has.
media_handler ==
    /\ At("media") /\ Accepted
    /\ IF scenario.getter
       THEN /\ ready' = [ready EXCEPT ![proc.via] = Append(@, Frame)]
            /\ proc' = [proc EXCEPT !.at = "getter"] /\ UNCHANGED <<frames, got>>
       ELSE return_frame(Frame) /\ proc' = NoPacket /\ UNCHANGED ready
    /\ UNCHANGED <<next, local, net, foreign, receiver, streams, scenario>>

Fetched == Installed("getter") /\ ready[proc.via] # <<>>

getter ==
    /\ At("getter") /\ Fetched
    /\ return_frame(Head(ready[proc.via]))
    /\ ready' = [ready EXCEPT ![proc.via] = Tail(@)]
    /\ UNCHANGED <<next, local, net, foreign, receiver, streams, proc, scenario>>

NothingFetched ==
    /\ At("getter") /\ ~Fetched
    /\ proc' = NoPacket
    /\ UNCHANGED <<next, local, net, foreign, receiver, streams, output, scenario>>

\* pull_frame(remote_ssrc) takes the first frame of the queue if it is of the stream,
\* whose application waits behind the frames of others.
pull_frame(s) ==
    /\ s \in DOMAIN sets /\ frames # <<>>
    /\ scenario.multiplexed => Head(frames).ssrc = s
    /\ got' = IF s = Mine THEN Append(got, Head(frames)) ELSE got
    /\ frames' = Tail(frames)
    /\ UNCHANGED <<next, local, net, foreign, receiver, streams, proc, ready, scenario>>

-----------------------------------------------------------------------------

Init ==
    /\ scenario \in Scenarios
    /\ next = First /\ local = 0 /\ net = {} /\ foreign = MaxForeign
    /\ remote = [roc |-> 0, rts |-> 0, seen |-> {}] /\ tops = <<>>
    /\ sets = [s \in {Mine} \cup (IF scenario.multiplexed THEN {Other} ELSE {}) |->
                  IF s = Mine /\ scenario.zrtp THEN {} ELSE All \ (IF s = Mine THEN {} ELSE {"srtp"})]
    /\ todo = IF scenario.zrtp THEN InstallOrder ELSE <<>>
    /\ hooks = scenario.hooks
    /\ proc = NoPacket /\ ready = [s \in {Mine, Other} |-> <<>>] /\ frames = <<>> /\ got = <<>>

Next ==
    \/ Send
    \/ \E p \in net : Vanish(p)
    \/ \E p \in net : Receive(p)
    \/ ReceiveForeign
    \/ install_handler \/ clear_stream_from_flow
    \/ rtp_handler \/ SkipSrtp \/ srtp_handler \/ SkipStatistics \/ rtcp_common_handler
    \/ NullFrame \/ DanglingHandlers \/ SkipMedia \/ media_handler
    \/ getter \/ NothingFetched
    \/ \E s \in {Mine, Other} : pull_frame(s)

Spec == Init /\ [][Next]_vars

-----------------------------------------------------------------------------
(* Properties.                                                             *)

Handlers == {"rtp", "srtp", "rtcp_common", "media", "getter", "zrtp"}
Payloads == {"plain", "protected", "garbled"}
\* What the SRTP handler did with a packet: nothing because the flow has no SRTP or the
\* handler is not installed, it refused it, or let it through, with the wraps of the
\* sequence number as Timely says or not.
Srtp == {"none", "absent", "refused", "done", "untimely"}
Packets  == [kind : {"rtp"}, ssrc : {Mine, Other}, n : Nat, seq : 0 .. Top, ts : Nat,
             index : Nat \cup {-1}, tag : Nat]
Frames   == [ssrc : {Mine, Other}, n : Nat, payload : Payloads, srtp : Srtp,
             via : {Mine, Other}]
Work     == [at : {"rtp", "srtp", "stats", "media", "getter"}, packet : Packets,
             via : {Mine, Other}, verdict : {"modified", "not_handled", "ok", "error"},
             frame : BOOLEAN, payload : Payloads, srtp : Srtp]

\* The variables keep to their types.
TypeOK ==
    /\ scenario \in Scenarios
    /\ next \in First .. MaxPackets /\ local \in Nat /\ net \subseteq Packets
    /\ foreign \in 0 .. MaxForeign
    /\ remote \in [roc : Nat, rts : Nat, seen : SUBSET (Nat \X Nat)]
    /\ tops \in Seq(Nat \cup {-1})
    /\ sets \in [{Mine} -> SUBSET Handlers] \cup [{Mine, Other} -> SUBSET Handlers]
    /\ todo \in Seq(Handlers) /\ hooks \subseteq {Mine, Other}
    /\ proc \in Work \cup {NoPacket, Crashed}
    /\ ready \in [{Mine, Other} -> Seq(Frames)] /\ frames \in Seq(Frames) /\ got \in Seq(Frames)

\* The processor breaks down only when the handlers of a stream change under its hands:
\* one that needs a frame was installed after the rtp handler was missing, or a stream
\* that shared the socket has left with the handlers in use (reception_flow.cc:540).
CrashOnlyWhileHandlersChange ==
    proc.at = "crashed" => \/ scenario.zrtp /\ "rtp" \in sets[Mine]
                           \/ scenario.multiplexed /\ Other \notin DOMAIN sets

\* The packets of a sender are encrypted with the index of their number: over every
\* wrap of the sequence number no part of the key stream is used twice (srtp.cc:29-36).
KeystreamUsedOnce ==
    scenario.cipher => \A p \in net : p.index = p.n /\ p.n < next

\* What an application receives through a stream is a frame of its peer as it was sent
\* and as SRTP lets it through, but for four cases.  The packet passed while ZRTP had not
\* installed the SRTP handler yet (reception_flow.cc:599).  SRTP refused it, for its tag
\* or as a replay, and the statistics of RTCP replaced that verdict (:607).  It was
\* decrypted when the wraps of the sequence number had been lost, doubled, overtaken or
\* counted for a packet of another peer, or rts was its own timestamp 0 (srtp.cc:95-119).
\* The stream or its hook is alone on the socket and gets what others send (:382, 540).
DeliveredAsSent ==
    \A i \in DOMAIN got : LET f == got[i] IN
        \/ f.ssrc = Mine /\ f.payload = "plain" /\ f.srtp # "refused"
        \/ f.ssrc = Mine /\ f.payload = "protected" /\ f.srtp = "absent" /\ scenario.zrtp
        \/ f.ssrc = Mine /\ f.srtp = "refused" /\ scenario.rtcp
        \/ f.ssrc = Mine /\ f.payload = "garbled" /\ f.srtp = "untimely"
        \/ f.ssrc = Other /\ ~(scenario.multiplexed /\ Other \in DOMAIN sets /\ hooks # {Mine})

\* A stream that authenticates, keeps a replay list and leaves the verdict to the SRTP
\* handler: without RTCP, with its handlers in place from the start, with other
\* timestamps than 0, and without the only hook on a shared socket.
Secured ==
    /\ scenario.auth /\ scenario.replay /\ ~scenario.rtcp /\ ~scenario.zrtp /\ scenario.ts > 0
    /\ scenario.multiplexed => scenario.hooks # {Mine}

\* As the abstract channel sees a frame; -1 is nothing that was sent.
Message(f) == IF f.ssrc = Mine /\ f.payload = "plain" THEN f.n - First ELSE -1

Channel == INSTANCE SecureChannel WITH
    sent <- IF Secured THEN next - First ELSE 0,
    got  <- IF Secured THEN [i \in DOMAIN got |-> Message(got[i])] ELSE <<>>

\* Such a stream is a secure channel: whatever the network loses, doubles and reorders,
\* its application receives what the peer sent, and nothing twice (srtp.cc:67-84).
ChannelSpec == Channel!Spec
=============================================================================
