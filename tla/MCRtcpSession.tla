---------------------------- MODULE MCRtcpSession ----------------------------
(* Small instances of RtcpSession: what the peers send and the application does. *)
EXTENDS RtcpSession

Two   == 2
Three == 3

\* Compound packets of a peer that runs uvgRTP.
Items == <<[type |-> CNAME, length |-> 2]>>
Info  == [role |-> "SENDER", sent |-> TRUE]
Block == [ssrc |-> Us, fraction |-> 0, lost |-> 3, cycles |-> 0, last_seq |-> 1, lsr |-> FALSE]
Report(s, kind, blocks, apps, byes) ==
    LET size == size_of_compound_packet(FALSE, kind, Len(blocks), Items, size_of_apps(apps), byes)
        w == ReportPacket(Writer(size), FALSE, kind, s, Info, blocks)
    IN  ByePacket(AppPackets(SdesPacket(w, s, 1, Items), s, apps), byes)

\* A feedback packet on its own (RFC 5506), and a report with one behind it.
Feedback(w, s) == Put(construct_ssrc(construct_rtcp_header(w, 12, 1, PSFB), s), "media", 4)

\* A report whose last packet is cut short.
Cut == [Report(Three, RR, <<>>, <<>>, <<>>) EXCEPT !.size = @ - 4]

Budget(rtp, rtcp, tick, send, get, call, stop) ==
    [rtp |-> rtp, rtcp |-> rtcp, tick |-> tick, send |-> send, get |-> get, call |-> call,
     stop |-> stop]

Quiet == [started |-> TRUE, srtp |-> FALSE, senders |-> {Two}, starts |-> {0}, steps |-> {1},
          frames |-> {}, appLengths |-> {}, items |-> {}, hooks |-> {},
          budget |-> Budget(0, 0, 0, 0, 0, 0, 0)]

\* Packets lost, late and doubled, around the wrap of the sequence number.
Losses == [Quiet EXCEPT !.starts = {5, 6}, !.steps = {-1, 0, 1, 2, 4},
                        !.budget = Budget(6, 0, 1, 0, 0, 0, 0)]
\* All four threads, a source that says goodbye, one that is silent.
Crossing == [Quiet EXCEPT !.frames = {Report(Two, SR, <<Block>>, <<>>, <<>>),
                                      Report(Two, RR, <<>>, <<>>, <<Two>>)},
                          !.budget = Budget(2, 1, 2, 0, 1, 0, 0)]
\* A source that says goodbye when it was removed already, and one that is asked for then.
Leaving == [Quiet EXCEPT !.senders = {}, !.frames = {Report(Two, RR, <<>>, <<>>, <<Two>>)},
                         !.budget = Budget(0, 1, 4, 0, 1, 0, 0)]
\* Reports with every part that the application can add.
Reporting == [Quiet EXCEPT !.senders = {Two, Three}, !.appLengths = {4, 5},
                           !.items = {<<[type |-> 0, length |-> 1], [type |-> 2, length |-> 5]>>,
                                      <<[type |-> CNAME, length |-> 1], [type |-> 0, length |-> 0]>>},
                           !.budget = Budget(2, 0, 1, 1, 0, 1, 1)]
\* Hooks, packets of all kinds, and packets that are refused.
Hooking == [Quiet EXCEPT !.senders = {},
                !.frames = {Report(Three, RR, <<Block>>, <<[subtype |-> 1, length |-> 4]>>, <<>>),
                            Feedback(Writer(12), Two), Cut},
                !.hooks = {RR, APP},
                !.appLengths = {0, 4}, !.budget = Budget(0, 2, 1, 0, 1, 2, 0)]
Unstarted == [Quiet EXCEPT !.started = FALSE, !.budget = Budget(2, 0, 0, 1, 1, 0, 1)]
Stopping  == [Quiet EXCEPT !.frames = {Report(Two, SR, <<Block>>, <<>>, <<>>)},
                           !.budget = Budget(1, 1, 1, 0, 0, 0, 1)]
Full == [Quiet EXCEPT !.senders = {Two, Three},
                      !.frames = {Report(Two, SR, <<>>, <<>>, <<Two>>)},
                      !.budget = Budget(2, 3, 1, 0, 0, 0, 0)]
\* A session with SRTP, in which nobody says goodbye and nobody falls silent.
Protected == [Quiet EXCEPT !.srtp = TRUE, !.budget = Budget(3, 0, 1, 0, 0, 0, 0)]
ProtectedScenarios == {Protected}
MCScenarios == {Losses, Crossing, Leaving, Reporting, Hooking, Unstarted, Stopping, Full}
=============================================================================
