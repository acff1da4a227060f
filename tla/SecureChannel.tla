---------------------------- MODULE SecureChannel ----------------------------
(***************************************************************************)
(* What RCE_SRTP with RCE_SRTP_AUTHENTICATE_RTP and                        *)
(* RCE_SRTP_REPLAY_PROTECTION promises an application: it receives nothing *)
(* but messages that the peer has sent, as they were sent, and none twice. *)
(* Messages may be lost and may overtake each other.  They are numbered in *)
(* the order of sending.                                                   *)
(***************************************************************************)
EXTENDS Naturals, Sequences

VARIABLES sent,     \* number of messages sent
          got       \* the messages received, in this order

Received == {got[i] : i \in DOMAIN got}

Init == sent = 0 /\ got = <<>>

Send == sent' = sent + 1 /\ UNCHANGED got

Receive == \E n \in 0 .. sent - 1 :
    /\ n \notin Received
    /\ got' = Append(got, n)
    /\ UNCHANGED sent

Next == Send \/ Receive

Spec == Init /\ [][Next]_<<sent, got>>
=============================================================================
