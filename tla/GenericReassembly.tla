-------------------------- MODULE GenericReassembly --------------------------
(***************************************************************************)
(* uvgrtp::formats::media::packet_handler with RCE_FRAGMENT_GENERIC: the   *)
(* receiving side of every format that is not H.26x or V3C.  It collects   *)
(* the packets of a timestamp until they are as many as the sequence       *)
(* numbers of the first and of the last one (which has the marker bit)     *)
(* say, and returns their payloads in the order of a std::map.             *)
(*                                                                         *)
(* A packet of Stream is a record: ts, the RTP timestamp, and marker.      *)
(* media_info::size counts payload bytes where npkts counts packets; with  *)
(* payloads of length one they are the same, and size is left out.         *)
(***************************************************************************)
EXTENDS MediaNetwork

\* The packets of a frame are sent one after the other, the last one with the
\* marker bit (push_media_frame), and are no more than there are numbers.
ASSUME FramesAssumption ==
  \A t \in Trials : \A p, q \in 1 .. Len(t.stream) :
    /\ t.stream[p].ts = t.stream[q].ts =>
         /\ q - p < SeqMod
         /\ \A r \in p .. q : t.stream[r].ts = t.stream[p].ts
    /\ t.stream[p].marker <=>
         \A r \in 1 .. Len(t.stream) : t.stream[r].ts = t.stream[p].ts => r <= p

VARIABLES
  frames,     \* [timestamp -> media_info] of the frames being received
  (* history *)
  delivered,  \* the frames returned to the user, in order
  disturbed   \* timestamps whose packets came again, or not the first first

vars == <<trial, received, lost, duplicates, now, frames, delivered, disturbed>>

SeqNum == 0 .. (SeqMod - 1)
Ts(p) == Stream[p].ts
Timestamps == {Ts(p) : p \in Packet}
Sent(t) == {p \in Packet : Ts(p) = t}

\* 0xffffffff, also what s_seq - 1 is for a s_seq of 0.
INVALID_SEQ == -1

Init ==
  /\ NetworkInit
  /\ frames = <<>>
  /\ delivered = <<>>
  /\ disturbed = {}

-----------------------------------------------------------------------------
(* media_info *)

\* A new entry, for its first packet.
NewFrame(p) ==
  [npkts |-> 1, s_seq |-> Seq16(p), e_seq |-> INVALID_SEQ,
   fragments |-> [k \in {Seq16(p)} |-> p]]

\* Mutant: fragments are keyed by their 16 bit sequence number.
KeyNoWrap(p, info) == Seq16(p)

\* The key of p in the map of fragments: a sequence number below the first
\* one is taken to come after the wrap.
Key(p, info) ==
  IF Seq16(p) < info.s_seq THEN Seq16(p) + SeqMod ELSE Seq16(p)

\* Mutant: the packet after the first one moves the start.
WithFragmentStartAfter(p, info) ==
  LET k == Key(p, info)
  IN [npkts     |-> info.npkts + 1,
      fragments |-> [j \in DOMAIN info.fragments \cup {k} |->
                       IF j = k THEN p ELSE info.fragments[j]],
      e_seq     |-> IF Stream[p].marker THEN Seq16(p) ELSE info.e_seq,
      s_seq     |-> IF ~Stream[p].marker /\ Seq16(p) = info.s_seq + 1
                    THEN Seq16(p) ELSE info.s_seq]

\* The entry info with p.
WithFragment(p, info) ==
  LET k == Key(p, info)
  IN [npkts     |-> info.npkts + 1,
      fragments |-> [j \in DOMAIN info.fragments \cup {k} |->
                       IF j = k THEN p ELSE info.fragments[j]],
      e_seq     |-> IF Stream[p].marker THEN Seq16(p) ELSE info.e_seq,
      s_seq     |-> IF ~Stream[p].marker /\ Seq16(p) = info.s_seq - 1
                    THEN Seq16(p) ELSE info.s_seq]

\* Mutant: one packet too few after the wrap.
recvOffByOne(info) ==
  IF info.s_seq > info.e_seq
  THEN (SeqMod - 1) - info.s_seq + info.e_seq + 1
  ELSE info.e_seq - info.s_seq + 1

\* How many packets there are from s_seq to e_seq.
recv(info) ==
  IF info.s_seq > info.e_seq
  THEN (SeqMod - 1) - info.s_seq + info.e_seq + 2
  ELSE info.e_seq - info.s_seq + 1

Complete(info) == info.e_seq # INVALID_SEQ /\ recv(info) = info.npkts

\* The n-th fragment in the order of the map.
Nth(n, fragments) ==
  fragments[CHOOSE k \in DOMAIN fragments :
              Cardinality({j \in DOMAIN fragments : j < k}) = n - 1]

Pieces(fragments) ==
  [n \in 1 .. Cardinality(DOMAIN fragments) |-> Nth(n, fragments)]

-----------------------------------------------------------------------------
(* packet_handler, one action for each way through it *)

\* p reaches the handler.  Its frame is disturbed if p came before or is the
\* first of the frame to come but not the first sent.
Handles(p) ==
  /\ Arrive(p)
  /\ disturbed' =
       disturbed \cup
         {t \in {Ts(p)} : \/ p \in received
                          \/ \E q \in Sent(t) :
                               q < p /\ Sent(t) \cap received = {}}

Deliver(p, pieces) ==
  delivered' = Append(delivered, [ts |-> Ts(p), pieces |-> pieces])

\* Only one packet, it seems.
ReturnSingle(p) ==
  /\ Handles(p)
  /\ Ts(p) \notin DOMAIN frames
  /\ Stream[p].marker
  /\ Deliver(p, <<p>>)
  /\ UNCHANGED frames

FirstFragment(p) ==
  /\ Handles(p)
  /\ Ts(p) \notin DOMAIN frames
  /\ ~Stream[p].marker
  /\ frames' = [t \in DOMAIN frames \cup {Ts(p)} |->
                  IF t = Ts(p) THEN NewFrame(p) ELSE frames[t]]
  /\ UNCHANGED delivered

StoreFragment(p) ==
  /\ Handles(p)
  /\ Ts(p) \in DOMAIN frames
  /\ LET info == WithFragment(p, frames[Ts(p)])
     IN /\ ~Complete(info)
        /\ frames' = [frames EXCEPT ![Ts(p)] = info]
  /\ UNCHANGED delivered

CompleteFrame(p) ==
  /\ Handles(p)
  /\ Ts(p) \in DOMAIN frames
  /\ LET info == WithFragment(p, frames[Ts(p)])
     IN /\ Complete(info)
        /\ Deliver(p, Pieces(info.fragments))
        /\ frames' = [t \in DOMAIN frames \ {Ts(p)} |-> frames[t]]

packet_handler(p) ==
  ReturnSingle(p) \/ FirstFragment(p) \/ StoreFragment(p) \/ CompleteFrame(p)

LosePacket ==
  /\ \E p \in Packet : Lose(p)
  /\ UNCHANGED <<frames, delivered, disturbed>>

Next ==
  \/ LosePacket
  \/ \E p \in Packet : packet_handler(p)

Spec == Init /\ [][Next]_vars

-----------------------------------------------------------------------------
(* Properties *)

PiecesOf(i) == {delivered[i].pieces[k] : k \in DOMAIN delivered[i].pieces}

InOrder(pieces) == \A k, l \in DOMAIN pieces : k < l => pieces[k] < pieces[l]

\* A frame whose first packet comes first, and no packet twice, reaches the
\* user as it was sent, whatever the order of its other packets and whatever
\* is lost: every packet of it, in order, never a part of it
\* (packet_handler's count of packets and order of keys, across the wrap of
\* the sequence number).  And no packet is in two frames unless a packet came
\* twice: an entry ends with the frame made from it (frames.erase), also when
\* that frame is truncated because its first packets are late.
WholeFrames ==
  /\ \A i \in DOMAIN delivered :
       delivered[i].ts \notin disturbed =>
         /\ PiecesOf(i) = Sent(delivered[i].ts)
         /\ InOrder(delivered[i].pieces)
  /\ duplicates = 0 =>
       \A i, j \in DOMAIN delivered : i # j => PiecesOf(i) \cap PiecesOf(j) = {}

\* Such a frame is returned with the last of its packets, whichever it is.
CompleteIsDelivered ==
  \A t \in Timestamps \ disturbed :
    Sent(t) \subseteq received => \E i \in DOMAIN delivered : delivered[i].ts = t

\* The handler holds exactly the packets it must: those of undisturbed frames
\* that arrived and were not returned.
HeldIsIncomplete ==
  \A t \in Timestamps \ disturbed :
    LET held == IF t \in DOMAIN frames
                THEN {frames[t].fragments[k] : k \in DOMAIN frames[t].fragments}
                ELSE {}
        complete == Sent(t) \subseteq received
    IN held = IF complete THEN {} ELSE Sent(t) \cap received
=============================================================================
