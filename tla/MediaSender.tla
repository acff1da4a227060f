----------------------------- MODULE MediaSender -----------------------------
(***************************************************************************)
(* From push_frame() to the network: media::push_media_frame() and that of *)
(* h26x (single NAL units, aggregation packets, fragmentation units), the  *)
(* transaction of the frame queue, and socket::sendto() with the handlers  *)
(* that count and encrypt a packet.  A push is one thread's; sending may   *)
(* fail after any packet.  An octet is sent as its position in the frame.  *)
(***************************************************************************)
EXTENDS StartCodes

CONSTANTS PayloadSize,      \* the payload that fits a packet
          SeqBound,         \* 2^16
          First,            \* the first sequence number, at random
          Cluster,          \* packets of one sendmmsg() with clustering: 1024
          Scenarios,        \* format, features and frames of a stream
          MaxTick           \* bound: readings of the clock

ASSUME SenderAssumption ==
    /\ PayloadSize \in Nat /\ PayloadSize > 4
    /\ SeqBound \in Nat \ {0} /\ First \in 0 .. SeqBound - 1 /\ MaxTick \in Nat
    /\ Cluster \in Nat \ {0}

ASSUME ScenariosAssumption ==
    \A s \in Scenarios :
        /\ s.frames \subseteq Seq(0 .. 255) /\ s.stamps \subseteq Int /\ s.pushes \in Nat
        /\ {s.fragment, s.srtp, s.paced, s.clustered} \subseteq BOOLEAN

VARIABLES
    step,       \* where push_media_frame() is
    frame,      \* the frame that is pushed: its octets, flags and timestamp
    units,      \* the NAL units that are still to be sent
    bundle,     \* aggr_pkt_info_.nalus
    active,     \* the transaction: its timestamp and packets
    next,       \* number of the next packet: seq_ and how often it has wrapped
    roc,        \* rollover counter of the SRTP context
    rtp_ts,     \* rtp_ts_
    tick,       \* the clock
    wire,       \* packets of the current frame that were sent
    ret,        \* what the push has returned, or will unless it goes on
    left,       \* frames that the application still pushes
    failed,     \* packets were not sent, in this push or ever
    scenario

queue == <<active, next, rtp_ts, tick>>
push  == <<step, frame, units, bundle>>
vars  == <<push, queue, roc, wire, ret, left, failed, scenario>>

H26x == {"h264", "h265", "atlas"}       \* "h265" stands for H.266 as well
NoTransaction == [ts |-> -1, packets |-> <<>>]

-----------------------------------------------------------------------------
(* The frame queue.                                                        *)

\* fill_header(): the timestamp of the application, that of the packet before, or a new
\* one from the clock.
NewTimestamp(old) ==
    IF frame'.ts # -1 THEN frame'.ts ELSE IF old THEN rtp_ts ELSE tick + 1

\* A live transaction is released and replaced.
init_transaction(old) ==
    /\ active' = [ts |-> NewTimestamp(old), packets |-> <<>>]
    /\ rtp_ts' = NewTimestamp(old)
    /\ tick' = IF old \/ frame'.ts # -1 THEN tick ELSE tick + 1

\* A packet has no index before it is encrypted.
update_rtp_header(payload, n) ==
    [kind |-> payload.kind, head |-> payload.head, parts |-> payload.parts,
     n |-> n, ts |-> active.ts, index |-> -1]

\* The number is taken, whatever becomes of the packet.
enqueue_finalize(packets) ==
    /\ active' = [active EXCEPT !.packets = @ \o packets]
    /\ next' = next + Len(packets)

enqueue_message(payloads) ==
    enqueue_finalize([i \in DOMAIN payloads |-> update_rtp_header(payloads[i], next + i - 1)])

deinit_transaction == active' = NoTransaction

Header(kind, head, parts) == [kind |-> kind, head |-> head, parts |-> parts]
Part(from, to) == [from |-> from, to |-> to]
Size(parts) ==
    LET sum[n \in 0 .. Len(parts)] ==
            IF n = 0 THEN 0 ELSE sum[n - 1] + parts[n].to - parts[n].from
    IN  sum[Len(parts)]

-----------------------------------------------------------------------------
(* The formats.                                                            *)

CodeRange == IF scenario.format = "h264" THEN 1 ELSE 4           \* get_start_code_range()
NalHeader == IF scenario.format = "h264" THEN 1 ELSE 2
FuHeader == 1

\* Pieces of at most size octets of the range from .. to - 1; the last has at least one.
Pieces(from, to, size) ==
    LET count == (to - from + size - 1) \div size
    IN  [i \in 1 .. count |-> Part(from + (i - 1) * size, Min({from + i * size, to}))]

\* Mutant: the payload of a fragment leaves no room for its headers.
FullFus(u) ==
    LET pieces == Pieces(u.from + NalHeader, u.to, PayloadSize)
    IN  [i \in DOMAIN pieces |->
            Header(IF i = 1 THEN "start" ELSE IF i = Len(pieces) THEN "end" ELSE "middle",
                   NalHeader + FuHeader, <<pieces[i]>>)]

\* fu_division(): the header of the NAL unit is in the headers of the fragments.
divide_frame_to_fus(u) ==
    LET pieces == Pieces(u.from + NalHeader, u.to, PayloadSize - NalHeader - FuHeader)
    IN  [i \in DOMAIN pieces |->
            Header(IF i = 1 THEN "start" ELSE IF i = Len(pieces) THEN "end" ELSE "middle",
                   NalHeader + FuHeader, <<pieces[i]>>)]

Payloads(u) ==
    IF u.to - u.from <= PayloadSize THEN <<Header("single", 0, <<u>>)>>
    ELSE divide_frame_to_fus(u)

\* Units that fit one aggregation packet, greedily, with two octets of size each.
Aggregate(us) ==
    LET taken[n \in 0 .. Len(us)] ==
            IF n = 0 THEN [size |-> 0, chosen |-> {}]
            ELSE LET size == taken[n - 1].size + us[n].to - us[n].from + 2
                 IN  IF size <= PayloadSize - NalHeader
                     THEN [size |-> size, chosen |-> taken[n - 1].chosen \cup {n}]
                     ELSE taken[n - 1]
    IN  taken[Len(us)]

Aggregating(us, separate) == Cardinality(Aggregate(us).chosen) >= 2 /\ ~separate

\* The units at the front that go into the packet.
Bundled(us, separate) ==
    LET chosen == Aggregate(us).chosen
        front  == {i \in DOMAIN us : 1 .. i \subseteq chosen}
    IN  IF Aggregating(us, separate) THEN Cardinality(front) ELSE 0

-----------------------------------------------------------------------------
(* push_frame().                                                           *)

Return(r) == step' = "idle" /\ ret' = r

\* A generic frame goes into one packet, or into fragments with RCE_FRAGMENT_GENERIC.
GenericPayloads(d) ==
    IF ~scenario.fragment \/ Len(d) <= PayloadSize
    THEN <<Header("single", 0, <<Part(0, Len(d))>>)>>
    ELSE LET pieces == Pieces(0, Len(d), PayloadSize)
         IN  [i \in DOMAIN pieces |-> Header("fragment", 0, <<pieces[i]>>)]

Ready == step = "idle" /\ left > 0 /\ tick < MaxTick

Push(d, separate, whole, ts) ==
    /\ Ready
    /\ left' = left - 1
    /\ frame' = [octets |-> d, separate |-> separate, whole |-> whole, ts |-> ts]
    /\ wire' = <<>> /\ failed' = [failed EXCEPT !.now = FALSE]
    /\ init_transaction(FALSE)
    /\ UNCHANGED <<next, roc, scenario>>

PushGeneric(d, ts) ==
    /\ scenario.format = "generic"
    /\ Push(d, FALSE, FALSE, ts)
    /\ step' = "enqueue" /\ ret' = "ok"
    /\ units' = <<>> /\ bundle' = <<>>

\* Whole: RTP_NO_H26X_SCL; separate: RTP_H26X_DO_NOT_AGGR.  A frame without a start code
\* is not sent; its transaction stays until the next one.
PushH26x(d, separate, whole, ts) ==
    LET us == IF whole \/ scenario.format = "atlas" THEN <<Part(0, Len(d))>>
              ELSE scl(d, CodeRange)
    IN  /\ scenario.format \in H26x
        /\ Push(d, separate, whole, ts)
        /\ IF us = <<>>
           THEN Return("invalid") /\ units' = <<>> /\ bundle' = <<>>
           ELSE /\ step' = IF Aggregating(us, separate) THEN "aggregate" ELSE "unit"
                /\ ret' = "ok"
                /\ bundle' = SubSeq(us, 1, Bundled(us, separate))
                /\ units' = SubSeq(us, Bundled(us, separate) + 1, Len(us))

EnqueueGeneric ==
    /\ step = "enqueue"
    /\ enqueue_message(GenericPayloads(frame.octets))
    /\ step' = "flush"
    /\ UNCHANGED <<frame, units, bundle, rtp_ts, tick, roc, wire, ret, left, failed, scenario>>

\* finalize_aggregation_pkt() makes no packet of a single unit, and nobody hears of it.
finalize_aggregation_pkt ==
    /\ step = "aggregate"
    /\ IF Len(bundle) > 1 THEN enqueue_message(<<Header("bundle", NalHeader, bundle)>>)
       ELSE UNCHANGED <<active, next>>
    /\ bundle' = <<>> /\ step' = "flush"
    /\ UNCHANGED <<frame, units, rtp_ts, tick, roc, wire, ret, left, failed, scenario>>

\* Each of the other units has a transaction of its own, with the same timestamp.
NextUnit ==
    /\ step = "unit" /\ units # <<>>
    /\ frame' = frame /\ init_transaction(TRUE)
    /\ step' = "divide"
    /\ UNCHANGED <<units, bundle, next, roc, wire, ret, left, failed, scenario>>

\* An empty unit is refused, and the push with it.
Divide ==
    /\ step = "divide"
    /\ LET u == Head(units)
       IN  IF u.from = u.to
           THEN deinit_transaction /\ Return("invalid") /\ UNCHANGED <<next, units>>
           ELSE /\ enqueue_message(Payloads(u)) /\ units' = Tail(units)
                /\ step' = "flush" /\ UNCHANGED ret
    /\ UNCHANGED <<frame, bundle, rtp_ts, tick, roc, wire, left, failed, scenario>>

Finish ==
    /\ step = "unit" /\ units = <<>>
    /\ Return(ret)
    /\ UNCHANGED <<frame, units, bundle, queue, roc, wire, left, failed, scenario>>

-----------------------------------------------------------------------------
(* flush_queue() and the socket.                                           *)

Wraps(p) == p.n % SeqBound = SeqBound - 1

\* srtp::encrypt(): the index of a packet, when the counter was r before the first.
Indexed(ps, r) ==
    [i \in DOMAIN ps |->
        [ps[i] EXCEPT !.index = (r + Cardinality({j \in 1 .. i - 1 : Wraps(ps[j])})) * SeqBound
                                + (ps[i].n % SeqBound)]]

\* The handlers run for the first k packets of the transaction; those at the positions sent
\* reach the network.
Emit(k, sent) ==
    LET ps == SubSeq(active.packets, 1, k) IN
    /\ roc' = roc + (IF scenario.srtp THEN Cardinality({i \in 1 .. k : Wraps(ps[i])}) ELSE 0)
    /\ wire' = wire \o [i \in DOMAIN sent |-> Indexed(ps, roc)[sent[i]]]
    /\ deinit_transaction
    /\ UNCHANGED <<frame, units, bundle, next, rtp_ts, tick, left, scenario>>

FirstOnes(s) == [i \in 1 .. s |-> i]

AfterFlush(r) ==
    IF scenario.format = "generic" THEN Return(r) ELSE step' = "unit" /\ ret' = r

FlushEmpty ==
    /\ step = "flush" /\ active.packets = <<>>
    /\ deinit_transaction /\ AfterFlush("invalid")
    /\ UNCHANGED <<frame, units, bundle, next, rtp_ts, tick, roc, wire, left, failed, scenario>>

Flush ==
    /\ step = "flush" /\ active.packets # <<>>
    /\ Emit(Len(active.packets), FirstOnes(Len(active.packets))) /\ AfterFlush("ok")
    /\ UNCHANGED failed

\* Mutant: the handlers run for the packets up to the last that is sent, and no others.
EncryptSent(sent) == Emit(IF sent = <<>> THEN 0 ELSE Last(sent), sent)

\* All packets have gone through the handlers before the first is sent.
EncryptAll(sent) == Emit(Len(active.packets), sent)

\* __sendtov(): the first packet that the call of sendmmsg() after that of packet i is given.
npkts == IF scenario.clustered THEN Cluster ELSE 1
NextCall(i) == ((i - 1) \div npkts + 1) * npkts + 1

\* What may be sent of n packets: each call sends some of the first that it is given.
Sendings(n) ==
    {sent \in UNION {[1 .. m -> 1 .. n] : m \in 0 .. n} :
        \A i \in DOMAIN sent :
            IF i = 1 THEN sent[i] = 1 ELSE sent[i] \in {sent[i - 1] + 1, NextCall(sent[i - 1])}}

\* A call that sends none is an error, and the last one; one that sends fewer than it was
\* given is not.
Accepted(sent) == sent # <<>> /\ NextCall(Last(sent)) > Len(active.packets)

SendFails ==
    /\ step = "flush" /\ ~scenario.paced
    /\ \E sent \in Sendings(Len(active.packets)) : ~Accepted(sent) /\ EncryptAll(sent)
    /\ failed' = [now |-> TRUE, ever |-> TRUE] /\ AfterFlush("error")

SendFallsShort ==
    /\ step = "flush" /\ ~scenario.paced
    /\ \E sent \in Sendings(Len(active.packets)) :
          Accepted(sent) /\ Len(sent) < Len(active.packets) /\ EncryptAll(sent)
    /\ failed' = [now |-> TRUE, ever |-> TRUE] /\ AfterFlush("ok")

\* With RCE_PACE_FRAGMENT_SENDING each packet is handled when its turn comes.
PacedSendFails ==
    /\ step = "flush" /\ scenario.paced
    /\ \E s \in 0 .. Len(active.packets) - 1 : Emit(s + 1, FirstOnes(s))
    /\ failed' = [now |-> TRUE, ever |-> TRUE] /\ AfterFlush("error")

-----------------------------------------------------------------------------

Init ==
    /\ scenario \in Scenarios
    /\ step = "idle" /\ frame = [octets |-> <<>>, separate |-> FALSE, whole |-> FALSE, ts |-> -1]
    /\ units = <<>> /\ bundle = <<>>
    /\ active = NoTransaction /\ next = First /\ roc = 0 /\ rtp_ts = 0 /\ tick = 0
    /\ wire = <<>> /\ ret = "ok" /\ left = scenario.pushes
    /\ failed = [now |-> FALSE, ever |-> FALSE]

Next ==
    \/ /\ Ready
       /\ \E d \in scenario.frames, ts \in scenario.stamps :
             \/ PushGeneric(d, ts)
             \/ \E separate, whole \in BOOLEAN : PushH26x(d, separate, whole, ts)
    \/ EnqueueGeneric \/ finalize_aggregation_pkt \/ NextUnit \/ Divide \/ Finish
    \/ FlushEmpty \/ Flush \/ SendFails \/ SendFallsShort \/ PacedSendFails

Spec == Init /\ [][Next]_vars

-----------------------------------------------------------------------------
(* Properties.                                                             *)

\* What packets amount to for a receiver: whole units, in order.
Receive(us, p) ==
    IF p.kind \in {"single", "bundle"} THEN us \o p.parts
    ELSE IF p.kind = "start" THEN Append(us, Part(p.parts[1].from - NalHeader, p.parts[1].to))
    ELSE IF p.kind = "fragment" /\ us = <<>> THEN p.parts
    ELSE IF us # <<>> /\ Last(us).to = p.parts[1].from
    THEN Append(Front(us), Part(Last(us).from, p.parts[1].to))
    ELSE <<>>

Received(ps) ==
    LET after[n \in 0 .. Len(ps)] == IF n = 0 THEN <<>> ELSE Receive(after[n - 1], ps[n])
    IN  after[Len(ps)]

ReceivedUnits == Received(wire)

\* Words of four octets: a last unit in the last three octets is taken for a part of the
\* one before it.  So is an empty one.
Short(us) == us # <<>> /\ Last(us).to - Last(us).from <= (IF CodeRange = 4 THEN 2 ELSE 0)
Swallowed(us) ==
    IF Len(us) < 2 THEN <<>>
    ELSE Append(SubSeq(us, 1, Len(us) - 2), Part(us[Len(us) - 1].from, Last(us).to))

Given ==
    IF frame.whole \/ scenario.format \in {"generic", "atlas"} THEN {<<Part(0, Len(frame.octets))>>}
    ELSE LET us == ReferenceUnits(frame.octets)
         IN  {us} \cup (IF Short(us) THEN {Swallowed(us)} ELSE {})

ReportedSent == step = "idle" /\ frame.octets # <<>> /\ ret = "ok"

InSequence == \A i \in 1 .. Len(wire) - 1 : wire[i + 1].n = wire[i].n + 1

\* A frame that push_frame() reports as sent, and of which no flush failed or fell short,
\* has left in packets of consecutive numbers from which a receiver makes the NAL units of
\* the frame, each once and whole: wherever its start codes lie in the words of the search,
\* and however it is cut and bundled.  Only a bundle of one unit is not sent (h26x.cc:383).
\* No packet of it is left in the transaction, for the next frame to send.  Not covered: a
\* failed flush that a later one covers up (h26x.cc:414, OkMeansSent), and a sendmmsg()
\* that sends fewer packets than it is given (socket.cc:675, 687).
SentAsGiven ==
    ReportedSent /\ ~failed.now =>
        /\ InSequence
        /\ active = NoTransaction
        /\ \E us \in Given :
              ReceivedUnits = IF Bundled(us, frame.separate) = 1 THEN Tail(us) ELSE us

\* Every packet fits the payload size that was configured, headers included, but for
\* generic frames that nobody may fragment; and those of a frame have one timestamp, that
\* of the application if it gave one (frame_queue.cc:96, h26x.cc:393).
WellFormedPackets ==
    \A i \in DOMAIN wire :
        LET p == wire[i] IN
        /\ \/ p.head + Size(p.parts) + (IF p.kind = "bundle" THEN 2 * Len(p.parts) ELSE 0)
                 <= PayloadSize
           \/ scenario.format = "generic" /\ ~scenario.fragment
        /\ p.ts = wire[1].ts
        /\ frame.ts # -1 => p.ts = frame.ts

\* A packet is encrypted with the index of its number, and no index is used twice, even
\* when packets that were encrypted or numbered are never sent (socket.cc:784-821).  Only
\* paced sending that has failed before a wrap loses count (frame_queue.cc:350-367).
IndexIsNumber ==
    scenario.srtp => \/ \A i \in DOMAIN wire : wire[i].index = wire[i].n
                     \/ scenario.paced /\ failed.ever

\* push_frame() returns RTP_OK on success, and RTP_SEND_ERROR if the data could not be sent
\* (media_stream.hh:132, 135): with RTP_OK, all of the frame is sent.
OkMeansSent == ReportedSent => ReceivedUnits \in Given
=============================================================================
