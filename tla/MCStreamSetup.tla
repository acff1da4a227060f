---------------------------- MODULE MCStreamSetup ----------------------------
(* Small instances of StreamSetup: streams that share a port, use ports    *)
(* next to each other, fail, and negotiate.                                *)
EXTENDS StreamSetup

Plain(port) ==
    [port |-> port, kind |-> "plain", auto |-> TRUE, rtcp |-> "none", anyip |-> FALSE,
     fault |-> "none", remotes |-> {}]
WithRtcp(port) == [Plain(port) EXCEPT !.rtcp = "own"]
Ssrc(port, remotes) == [Plain(port) EXCEPT !.remotes = remotes]
Zrtped(port, kind) == [Plain(port) EXCEPT !.kind = kind]
Failing(c, fault) == [c EXCEPT !.fault = fault]
Muxed(c) == [c EXCEPT !.rtcp = "mux"]

Lives(first, second, third) == <<first, second, third>>

MCScenarios == {
    \* Two streams share a port and its RTCP, and one comes back.
    Lives(<<WithRtcp(10), WithRtcp(10)>>, <<WithRtcp(10)>>, <<>>),
    \* Three streams share a port; two set the SSRC they receive from.
    Lives(<<Ssrc(10, {7, 8})>>, <<Muxed(Ssrc(10, {8}))>>, <<Plain(10)>>),
    \* An SSRC is set while another stream that has none enters the port.
    Lives(<<Ssrc(10, {2})>>, <<Plain(10)>>, <<>>),
    \* Keys from the user, RTCP, and a stream that leaves the port meanwhile.
    Lives(<<[Zrtped(10, "user") EXCEPT !.rtcp = "own"]>>, <<WithRtcp(10)>>, <<>>),
    \* The port of one is the RTCP port of the other.
    Lives(<<WithRtcp(10)>>, <<Plain(11), Zrtped(11, "dh")>>, <<>>),
    \* Failures, and a stream on the port afterwards.
    Lives(<<Failing(WithRtcp(10), "format"), WithRtcp(10)>>, <<[Plain(10) EXCEPT !.anyip = TRUE]>>, <<>>),
    Lives(<<Failing(Plain(10), "connect"), Plain(10)>>, <<Failing(Plain(10), "wrong_context")>>, <<>>),
    Lives(<<Failing(Zrtped(10, "user"), "format"), Zrtped(10, "user")>>, <<WithRtcp(10)>>, <<>>),
    \* ZRTP: one stream in Diffie-Hellman mode and two that wait for it.
    Lives(<<Zrtped(10, "dh"), [Plain(10) EXCEPT !.anyip = TRUE]>>, <<Zrtped(12, "msm")>>, <<Muxed(Zrtped(14, "msm"))>>),
    Lives(<<[Zrtped(10, "dh") EXCEPT !.auto = FALSE]>>,
          <<Failing([Zrtped(12, "msm") EXCEPT !.auto = FALSE], "zrtp")>>, <<Plain(12)>>)}
=============================================================================
