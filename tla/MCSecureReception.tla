-------------------------- MODULE MCSecureReception --------------------------
(* Small instances of SecureReception: what is enabled on the stream.      *)
EXTENDS SecureReception

Plain == [srtp |-> FALSE, cipher |-> FALSE, auth |-> FALSE, replay |-> FALSE, rtcp |-> FALSE,
          zrtp |-> FALSE, multiplexed |-> FALSE, leaves |-> FALSE, getter |-> FALSE,
          hooks |-> {Mine}, ts |-> 1]
Encrypted     == [Plain EXCEPT !.srtp = TRUE, !.cipher = TRUE]
Authenticated == [Encrypted EXCEPT !.auth = TRUE, !.replay = TRUE]
FromZero      == [Encrypted EXCEPT !.ts = 0]
NullCipher    == [Authenticated EXCEPT !.cipher = FALSE]

\* Two streams on one socket, of which the other leaves.
Shared == [Encrypted EXCEPT !.multiplexed = TRUE, !.leaves = TRUE, !.getter = TRUE,
                            !.hooks = {}]
\* The handlers are installed while the peer already sends, on a socket in use.
Negotiating == [Encrypted EXCEPT !.zrtp = TRUE, !.multiplexed = TRUE, !.hooks = {Mine, Other}]
\* With the statistics of RTCP, whose handler follows the one of SRTP.
Reported == [Authenticated EXCEPT !.zrtp = TRUE, !.rtcp = TRUE]

\* Two streams on one socket, of which only one has a hook.
OneHook == [Plain EXCEPT !.multiplexed = TRUE]
\* A stream that is a secure channel beside another.
Guarded == [Authenticated EXCEPT !.multiplexed = TRUE, !.leaves = TRUE, !.getter = TRUE,
                                 !.hooks = {Mine, Other}]

MCScenarios == {Plain, Encrypted, FromZero, Authenticated, NullCipher, Shared, Negotiating,
                Reported, OneHook, Guarded}
=============================================================================
