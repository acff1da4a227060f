----------------------------- MODULE MediaNetwork -----------------------------
(***************************************************************************)
(* The path between the sender of a media stream and the packet handlers   *)
(* of its receiver: UDP, the reception flow and rtp::packet_handler.       *)
(* The sender numbers its packets consecutively, modulo SeqMod; the path   *)
(* may overtake, lose and duplicate them.                                  *)
(*                                                                         *)
(* A packet is its position in Stream, the sequence of packets sent.       *)
(***************************************************************************)
EXTENDS Integers, Sequences, FiniteSets

CONSTANTS
  Trials,         \* the streams considered, and how the path treats each
  SeqMod,         \* 2^16 in the code: sequence numbers are uint16_t
  MaxLosses,      \* bound: how many packets are lost
  MaxDuplicates   \* bound: how many packets arrive again

ASSUME SeqModAssumption == SeqMod \in Nat \ {0}
ASSUME TrialsAssumption ==
  \A t \in Trials :
    /\ Len(t.stream) \in Nat
    /\ t.firstSeq \in 0 .. (SeqMod - 1)
    /\ t.window \in Nat
    /\ t.maxTime \in Nat

VARIABLES
  trial,       \* the stream that is sent
  received,    \* packets that reached the handler at least once
  lost,        \* packets that never will
  duplicates,  \* how many arrived again
  now          \* the receiver's clock

Stream   == trial.stream     \* the packets sent, in order
FirstSeq == trial.firstSeq   \* sequence number of the first packet
Window   == trial.window     \* bound: how many packets a packet may overtake
MaxTime  == trial.maxTime    \* bound: clock ticks

networkVars == <<trial, received, lost, duplicates, now>>

Packet == 1 .. Len(Stream)

\* Mutant: sequence numbers do not wrap.
Seq16NoWrap(p) == FirstSeq + p - 1

\* The sequence number in the header of packet p.
Seq16(p) == (FirstSeq + p - 1) % SeqMod

NetworkInit ==
  /\ trial \in Trials
  /\ received = {}
  /\ lost = {}
  /\ duplicates = 0
  /\ now = 0

\* p is next, or has overtaken at most Window packets.
Overtakes(p) == \A q \in Packet : q + Window < p => q \in received \cup lost

\* Packet p reaches the handler, for the first time or again.
Arrive(p) ==
  /\ p \notin lost
  /\ \/ /\ p \notin received
        /\ Overtakes(p)
        /\ received' = received \cup {p}
        /\ UNCHANGED duplicates
     \/ /\ p \in received
        /\ duplicates < MaxDuplicates
        /\ duplicates' = duplicates + 1
        /\ UNCHANGED received
  /\ UNCHANGED <<trial, lost, now>>

Lose(p) ==
  /\ p \notin received \cup lost
  /\ Cardinality(lost) < MaxLosses
  /\ lost' = lost \cup {p}
  /\ UNCHANGED <<trial, received, duplicates, now>>

Tick ==
  /\ now < MaxTime
  /\ now' = now + 1
  /\ UNCHANGED <<trial, received, lost, duplicates>>

NetworkTypeOK ==
  /\ trial \in Trials
  /\ received \in SUBSET Packet
  /\ lost \in SUBSET (Packet \ received)
  /\ duplicates \in Nat
  /\ now \in 0 .. MaxTime
=============================================================================
