------------------------ MODULE SecureReceptionProofs ------------------------
(***************************************************************************)
(* SRTP end to end, for every length of the cycle of sequence numbers and  *)
(* every choice of features: the types, the key stream of the sender, the  *)
(* handlers, what is delivered, and the refinement of SecureChannel.       *)
(***************************************************************************)
EXTENDS SecureReception, FiniteSetTheorems, SequenceTheorems, TLAPS

\* The quotient and the remainder are what they are called (srtp::encrypt()).
LEMMA Division ==
    ASSUME NEW n \in Nat, NEW b \in Nat \ {0}
    PROVE  /\ n \div b \in Nat /\ n % b \in 0 .. b - 1
           /\ (n \div b) * b + (n % b) = n
  BY SMTT(60)

LEMMA DivisionType ==
    ASSUME NEW n \in Nat, NEW b \in Nat \ {0}
    PROVE  n \div b \in Nat /\ n % b \in 0 .. b - 1
  BY Division

\* They are the only ones.
LEMMA DivisionUnique ==
    ASSUME NEW b \in Nat \ {0}, NEW q \in Nat, NEW r \in 0 .. b - 1
    PROVE  (q * b + r) \div b = q
  BY SMTT(60)

\* The next number is in the same cycle, or first in the next one (srtp.cc:32-36).
LEMMA NextCycle ==
    ASSUME NEW n \in Nat, NEW b \in Nat \ {0}
    PROVE  (n + 1) \div b = IF n % b = b - 1 THEN (n \div b) + 1 ELSE n \div b
  <1> DEFINE q == n \div b
             r == n % b
  <1>1. q \in Nat /\ r \in 0 .. b - 1 /\ q * b + r = n
    BY Division
  <1> HIDE DEF q, r
  <1>2. CASE r = b - 1
    <2>1. n + 1 = (q + 1) * b + 0
      BY <1>1, <1>2, SMT
    <2>2. ((q + 1) * b + 0) \div b = q + 1
      BY <1>1, DivisionUnique
    <2> QED  BY <1>2, <2>1, <2>2 DEF q, r
  <1>3. CASE r # b - 1
    <2>1. r + 1 \in 0 .. b - 1
      BY <1>1, <1>3, SMT
    <2>2. n + 1 = q * b + (r + 1)
      BY <1>1, SMT
    <2>3. (q * b + (r + 1)) \div b = q
      BY <1>1, <2>1, DivisionUnique
    <2> QED  BY <1>3, <2>2, <2>3 DEF q, r
  <1> QED  BY <1>2, <1>3

-----------------------------------------------------------------------------
(* Types.                                                                  *)

Steps == {"rtp", "srtp", "stats", "media", "getter"}

\* What the constants are, for the provers that take no nested conjunctions.
LEMMA Constants ==
    /\ Mine # Other
    /\ SeqBound \in Nat /\ SeqBound >= 2 /\ First \in Nat /\ First < SeqBound
    /\ MaxOff \in Nat /\ MaxOff >= 1 /\ MaxOff < SeqBound
    /\ FrameLength \in Nat \ {0} /\ FrameLength + MaxOff <= SeqBound + 1
    /\ MaxPackets \in Nat /\ MaxForeign \in Nat /\ First <= MaxPackets
  BY ConstantsAssumption

\* The sender starts at First and numbers, stamps and indexes with naturals.
LEMMA ProtectType ==
    ASSUME TypeOK PROVE Protect(next) \in Packets /\ Rollover(local, SequenceOf(next)) \in Nat
  <1>1. next \in Nat /\ local \in Nat /\ next - First \in Nat /\ scenario.ts \in Nat
    BY Constants, ScenariosAssumption DEF TypeOK, Features
  <1>2. (next - First) \div FrameLength \in Nat /\ SequenceOf(next) \in 0 .. Top
    <2>1. FrameLength \in Nat \ {0} /\ SeqBound \in Nat \ {0}
      BY Constants
    <2>2. \A n \in Nat, b \in Nat \ {0} : n \div b \in Nat /\ n % b \in 0 .. b - 1
      BY DivisionType, Zenon
    <2> QED  BY <1>1, <2>1, <2>2, Zenon DEF SequenceOf, Top
  <1>3. local * SeqBound \in Nat
    BY <1>1, Constants, SMT
  <1>4. PacketIndex(local, SequenceOf(next)) \in Nat
    BY <1>2, <1>3, Constants DEF PacketIndex, Top
  <1>5. Rollover(local, SequenceOf(next)) \in Nat /\ Timestamp(next) \in Nat
    BY <1>1, <1>2 DEF Rollover, Timestamp
  <1> QED  BY <1>1, <1>2, <1>4, <1>5 DEF Protect, Packets

\* The timestamps that the peer uses are naturals.
LEMMA ForeignType ==
    ASSUME TypeOK, NEW n \in Nat, NEW seq \in 0 .. Top, NEW ts \in ForeignTimestamps
    PROVE  Foreign(n, seq, ts) \in Packets
  <1>1. PICK m \in First .. MaxPackets : ts = Timestamp(m)
    BY DEF ForeignTimestamps
  <1>2. m - First \in Nat /\ FrameLength \in Nat \ {0} /\ scenario.ts \in Nat
    BY Constants, ScenariosAssumption DEF TypeOK, Features
  <1>3. (m - First) \div FrameLength \in Nat
    BY <1>2, DivisionType
  <1>4. ts \in Nat
    BY <1>1, <1>2, <1>3 DEF Timestamp
  <1> QED  BY <1>4 DEF Foreign, Packets

LEMMA TypesInit == Init => TypeOK
  <1> SUFFICES ASSUME Init PROVE TypeOK
    OBVIOUS
  <1>1. scenario \in Scenarios /\ hooks \subseteq {Mine, Other}
    BY ScenariosAssumption DEF Init, Features
  <1>2. next \in First .. MaxPackets /\ local \in Nat /\ net \subseteq Packets /\ foreign \in 0 .. MaxForeign
    BY Constants DEF Init
  <1>3. remote \in [roc : Nat, rts : Nat, seen : SUBSET (Nat \X Nat)] /\ tops \in Seq(Nat \cup {-1})
    BY DEF Init
  <1>4. sets \in [{Mine} -> SUBSET Handlers] \cup [{Mine, Other} -> SUBSET Handlers]
    BY Constants DEF Init, All, Handlers
  <1>5. InstallOrder \in Seq(Handlers)
    <2>1. Optional("srtp") \in Seq(Handlers) /\ Optional("rtcp_common") \in Seq(Handlers)
      <3>1. <<"srtp">> \in Seq(Handlers) /\ <<"rtcp_common">> \in Seq(Handlers) /\ <<>> \in Seq(Handlers)
        BY DEF Handlers
      <3> QED  BY <3>1 DEF Optional
    <2>2. <<"zrtp", "media", "getter", "rtp">> \in Seq(Handlers)
      BY DEF Handlers
    <2> QED  BY <2>1, <2>2, ConcatProperties DEF InstallOrder
  <1>6. todo \in Seq(Handlers)
    BY <1>5 DEF Init
  <1>7. proc \in Work \cup {NoPacket, Crashed} /\ frames \in Seq(Frames) /\ got \in Seq(Frames)
        /\ ready \in [{Mine, Other} -> Seq(Frames)]
    BY DEF Init
  <1> QED  BY <1>1, <1>2, <1>3, <1>4, <1>6, <1>7 DEF TypeOK

\* The processor has a packet in its hands at each of its steps, and handlers are
\* those of the two streams.
LEMMA Working ==
    ASSUME TypeOK
    PROVE  /\ proc.at \in Steps => proc \in Work
           /\ DOMAIN sets = {Mine} \/ DOMAIN sets = {Mine, Other}
           /\ \A s \in DOMAIN sets : sets[s] \subseteq Handlers
  <1>1. proc.at \in Steps => proc \in Work
    BY DEF TypeOK, NoPacket, Crashed, Steps
  <1>2. CASE sets \in [{Mine} -> SUBSET Handlers]
    BY <1>1, <1>2
  <1>3. CASE sets \in [{Mine, Other} -> SUBSET Handlers]
    BY <1>1, <1>3
  <1> QED  BY <1>2, <1>3 DEF TypeOK

LEMMA FrameType == ASSUME proc \in Work PROVE Frame \in Frames
  BY DEF Work, Packets, Frame, Frames

\* A frame goes to the application, to the queue or elsewhere.
LEMMA ReturnType ==
    ASSUME NEW f \in Frames, frames \in Seq(Frames), got \in Seq(Frames), return_frame(f)
    PROVE  frames' \in Seq(Frames) /\ got' \in Seq(Frames)
  BY AppendProperties DEF return_frame

LEMMA DispatchType ==
    ASSUME TypeOK, NEW p \in Packets, Dispatch(p) PROVE proc' \in Work /\ Via(p.ssrc) \subseteq DOMAIN sets
  <1>1. Via(p.ssrc) \subseteq DOMAIN sets
    BY DEF Via
  <1>2. PICK s \in Via(p.ssrc) :
          proc' = [at |-> "rtp", packet |-> p, via |-> s, verdict |-> "modified",
                   frame |-> FALSE, payload |-> OnWire(p), srtp |-> "none"]
    BY DEF Dispatch
  <1>3. s \in {Mine, Other}
    BY <1>1, Working
  <1>4. OnWire(p) \in Payloads
    BY DEF OnWire, Payloads
  <1> QED  BY <1>1, <1>2, <1>3, <1>4 DEF Work, Srtp

LEMMA TypesNext == TypeOK /\ [Next]_vars => TypeOK'
  <1> SUFFICES ASSUME TypeOK, [Next]_vars PROVE TypeOK'
    OBVIOUS
  <1> USE DEF receiver, streams, output
  \* Most steps change nothing but the packet in the hands of the processor.
  <1>p. ASSUME UNCHANGED <<next, local, net, receiver, streams, output, scenario>>,
               foreign' \in 0 .. MaxForeign, proc' \in Work \cup {NoPacket, Crashed}
        PROVE  TypeOK'
    BY <1>p DEF TypeOK
  <1>w. proc.at \in Steps => proc \in Work
    BY Working
  <1>1. CASE Send
    <2>1. next' \in First .. MaxPackets
      BY <1>1, Constants DEF Send, TypeOK
    <2>2. net' \subseteq Packets /\ local' \in Nat
      BY <1>1, ProtectType DEF Send, TypeOK
    <2> QED  BY <1>1, <2>1, <2>2 DEF Send, TypeOK
  <1>2. ASSUME NEW p \in net, Vanish(p) PROVE TypeOK'
    BY <1>2 DEF Vanish, TypeOK
  <1>3. ASSUME NEW p \in net, Receive(p) PROVE TypeOK'
    <2>1. p \in Packets /\ Dispatch(p)
      BY <1>3 DEF Receive, TypeOK
    <2> QED  BY <1>3, <1>p, <2>1, DispatchType DEF Receive, Dispatch, TypeOK
  <1>4. CASE ReceiveForeign
    <2>1. PICK seq \in 0 .. Top, ts \in ForeignTimestamps : Dispatch(Foreign(foreign, seq, ts))
      BY <1>4 DEF ReceiveForeign
    <2>2. foreign \in Nat /\ foreign' \in 0 .. MaxForeign
      BY <1>4, Constants DEF ReceiveForeign, TypeOK
    <2>3. Foreign(foreign, seq, ts) \in Packets
      BY <2>2, ForeignType
    <2> QED  BY <1>p, <2>1, <2>2, <2>3, DispatchType DEF Dispatch
  <1>5. CASE install_handler
    <2>1. todo \in Seq(Handlers) /\ todo # <<>>
      BY <1>5 DEF TypeOK, install_handler
    <2>2. Head(todo) \in Handlers /\ todo' \in Seq(Handlers)
      BY <1>5, <2>1, HeadTailProperties DEF install_handler
    <2>3. sets' \in [{Mine} -> SUBSET Handlers] \cup [{Mine, Other} -> SUBSET Handlers]
      BY <1>5, <2>2 DEF TypeOK, install_handler
    <2> QED  BY <1>5, <2>2, <2>3 DEF TypeOK, install_handler
  <1>6. CASE clear_stream_from_flow
    <2>1. DOMAIN sets \ {Other} = {Mine} /\ \A s \in DOMAIN sets : sets[s] \subseteq Handlers
      BY Working, Constants
    <2>2. sets' \in [{Mine} -> SUBSET Handlers]
      BY <1>6, <2>1 DEF clear_stream_from_flow
    <2>3. ready' \in [{Mine, Other} -> Seq(Frames)]
      BY <1>6 DEF clear_stream_from_flow, TypeOK
    <2>4. hooks' \subseteq {Mine, Other}
      BY <1>6 DEF clear_stream_from_flow, TypeOK
    <2> QED  BY <1>6, <2>2, <2>3, <2>4 DEF clear_stream_from_flow, TypeOK
  <1>7. CASE rtp_handler
    <2>1. proc \in Work
      BY <1>7, <1>w DEF rtp_handler, At, Steps
    <2>2. Installed("rtp") \in BOOLEAN
      BY DEF Installed
    <2>3. proc' \in Work
      BY <1>7, <2>1, <2>2 DEF rtp_handler, Work
    <2> QED  BY <1>7, <1>p, <2>3 DEF rtp_handler, TypeOK
  <1>8. CASE SkipSrtp \/ SkipStatistics
    <2>1. proc \in Work
      BY <1>8, <1>w DEF SkipSrtp, SkipStatistics, At, Steps
    <2>2. proc' \in Work
      BY <1>8, <2>1 DEF SkipSrtp, SkipStatistics, Skip, Work, Srtp
    <2> QED  BY <1>8, <1>p, <2>2 DEF SkipSrtp, SkipStatistics, Skip, TypeOK
  <1>9. CASE srtp_handler
    <2> DEFINE p == proc.packet
    <2>1. proc \in Work /\ p \in Packets
      BY <1>9, <1>w DEF srtp_handler, At, Steps, Work
    <2>2. UNCHANGED <<next, local, net, foreign, streams, output, scenario>>
      BY <1>9 DEF srtp_handler
    <2>3. CASE Refuse
      <3>1. proc' \in Work
        BY <2>1, <2>3 DEF Refuse, Work, Srtp
      <3> QED  BY <1>p, <2>2, <2>3, <3>1 DEF Refuse, TypeOK
    <2> DEFINE marked == remote.seen \cup {<<p.n, p.tag>>}
    <2>4. /\ remote \in [roc : Nat, rts : Nat, seen : SUBSET (Nat \X Nat)] /\ tops \in Seq(Nat \cup {-1})
          /\ p.n \in Nat /\ p.tag \in Nat /\ p.ts \in Nat /\ marked \in SUBSET (Nat \X Nat)
      <3>1. p.n \in Nat /\ p.tag \in Nat /\ p.ts \in Nat
        BY <2>1 DEF Packets
      <3>2. remote \in [roc : Nat, rts : Nat, seen : SUBSET (Nat \X Nat)] /\ tops \in Seq(Nat \cup {-1})
        BY DEF TypeOK
      <3>3. remote.seen \in SUBSET (Nat \X Nat) /\ <<p.n, p.tag>> \in Nat \X Nat
        BY <3>1, <3>2
      <3> QED  BY <3>1, <3>2, <3>3
    <2> HIDE DEF marked
    <2>5. CASE Decrypt(p)
      <3>1. /\ remote' = [remote EXCEPT !.roc = IF p.seq = Top THEN @ + 1 ELSE @,
                                        !.rts = IF p.seq = Top THEN p.ts ELSE @,
                                        !.seen = IF scenario.replay THEN marked ELSE @]
            /\ tops' = IF p.seq = Top THEN Append(tops, IF p.ssrc = Mine THEN p.n ELSE -1) ELSE tops
        BY <2>5 DEF Decrypt, marked
      <3> DEFINE roc == IF p.seq = Top THEN remote.roc + 1 ELSE remote.roc
                 rts == IF p.seq = Top THEN p.ts ELSE remote.rts
                 seen == IF scenario.replay THEN marked ELSE remote.seen
      <3>2. remote' \in [roc : Nat, rts : Nat, seen : SUBSET (Nat \X Nat)]
        <4>1. remote' = [remote EXCEPT !.roc = roc, !.rts = rts, !.seen = seen]
          BY <3>1
        <4>2. roc \in Nat /\ rts \in Nat /\ seen \in SUBSET (Nat \X Nat)
          BY <2>4
        <4> HIDE DEF roc, rts, seen
        <4> QED  BY <2>4, <4>1, <4>2
      <3>3. tops' \in Seq(Nat \cup {-1})
        <4> DEFINE k == IF p.ssrc = Mine THEN p.n ELSE -1
        <4>1. k \in Nat \cup {-1}
          BY <2>4
        <4>2. tops' = IF p.seq = Top THEN Append(tops, k) ELSE tops
          BY <3>1
        <4> HIDE DEF k
        <4> QED  BY <2>4, <4>1, <4>2, AppendProperties
      <3>5. proc' \in Work
        BY <2>1, <2>5 DEF Decrypt, Work, Payloads, Srtp
      <3> QED  BY <2>2, <3>2, <3>3, <3>5 DEF TypeOK
    <2>6. CASE Pass(p)
      <3>1. remote' = [remote EXCEPT !.seen = IF scenario.replay THEN marked ELSE @] /\ tops' = tops
        BY <2>6 DEF Pass, marked
      <3>2. remote' \in [roc : Nat, rts : Nat, seen : SUBSET (Nat \X Nat)]
        BY <2>4, <3>1
      <3>3. proc' \in Work
        BY <2>1, <2>6 DEF Pass, Work, Payloads, Srtp
      <3> QED  BY <2>2, <2>4, <3>1, <3>2, <3>3 DEF TypeOK
    <2> QED  BY <1>9, <2>3, <2>5, <2>6 DEF srtp_handler
  <1>10. CASE rtcp_common_handler
    <2>1. proc \in Work
      BY <1>10, <1>w DEF rtcp_common_handler, At, Steps
    <2>2. proc' \in Work
      BY <1>10, <2>1 DEF rtcp_common_handler, Work
    <2> QED  BY <1>10, <1>p, <2>2 DEF rtcp_common_handler, TypeOK
  <1>11. CASE NullFrame \/ DanglingHandlers \/ SkipMedia \/ NothingFetched
    BY <1>11, <1>p DEF NullFrame, DanglingHandlers, SkipMedia, NothingFetched, TypeOK
  <1>12. CASE media_handler
    <2>1. proc \in Work /\ Frame \in Frames
      BY <1>12, <1>w, FrameType DEF media_handler, At, Steps
    <2>2. CASE scenario.getter
      <3>1. proc' \in Work
        BY <1>12, <2>1, <2>2 DEF media_handler, Work
      <3>2. proc.via \in {Mine, Other} /\ ready[proc.via] \in Seq(Frames)
        BY <2>1 DEF Work, TypeOK
      <3>3. Append(ready[proc.via], Frame) \in Seq(Frames)
        BY <2>1, <3>2, AppendProperties
      <3>4. ready' \in [{Mine, Other} -> Seq(Frames)]
        BY <1>12, <2>2, <3>3 DEF media_handler, TypeOK
      <3> QED  BY <1>12, <2>2, <3>1, <3>4 DEF media_handler, TypeOK
    <2>3. CASE ~scenario.getter
      <3>1. frames' \in Seq(Frames) /\ got' \in Seq(Frames)
        BY <1>12, <2>1, <2>3, ReturnType DEF media_handler, TypeOK
      <3> QED  BY <1>12, <2>3, <3>1 DEF media_handler, TypeOK
    <2> QED  BY <2>2, <2>3
  <1>13. CASE getter
    <2>1. proc \in Work /\ ready[proc.via] # <<>>
      BY <1>13, <1>w DEF getter, At, Steps, Fetched
    <2>2. proc.via \in {Mine, Other} /\ ready[proc.via] \in Seq(Frames)
      BY <2>1 DEF Work, TypeOK
    <2>3. Head(ready[proc.via]) \in Frames /\ Tail(ready[proc.via]) \in Seq(Frames)
      BY <2>1, <2>2, HeadTailProperties
    <2>4. frames' \in Seq(Frames) /\ got' \in Seq(Frames)
      BY <1>13, <2>3, ReturnType DEF getter, TypeOK
    <2>5. ready' \in [{Mine, Other} -> Seq(Frames)]
      BY <1>13, <2>3 DEF getter, TypeOK
    <2> QED  BY <1>13, <2>4, <2>5 DEF getter, TypeOK
  <1>14. ASSUME NEW s \in {Mine, Other}, pull_frame(s) PROVE TypeOK'
    <2>1. frames \in Seq(Frames) /\ got \in Seq(Frames) /\ frames # <<>>
      BY <1>14 DEF pull_frame, TypeOK
    <2>2. Head(frames) \in Frames /\ Tail(frames) \in Seq(Frames)
      BY <2>1, HeadTailProperties
    <2>3. Append(got, Head(frames)) \in Seq(Frames)
      BY <2>1, <2>2, AppendProperties
    <2> QED  BY <1>14, <2>1, <2>2, <2>3 DEF pull_frame, TypeOK
  <1>15. CASE UNCHANGED vars
    BY <1>15 DEF vars, TypeOK
  <1> QED
    BY <1>1, <1>2, <1>3, <1>4, <1>5, <1>6, <1>7, <1>8, <1>9, <1>10, <1>11, <1>12, <1>13,
       <1>14, <1>15 DEF Next

\* The variables of both ends keep to their types: the processor never has a step to do
\* without a packet, sets of handlers are only ever those of the two streams.
THEOREM SecureTypes == Spec => []TypeOK
  BY TypesInit, TypesNext, PTL DEF Spec

-----------------------------------------------------------------------------
(* The packets.                                                            *)

\* What the packet with number n is authenticated with (srtp.cc:32-36, 58-63).
TagOf(n) == IF scenario.cipher THEN (n + 1) \div SeqBound ELSE 0

\* A packet as its sender made it.
Genuine(p) ==
    /\ p.ssrc = Mine /\ p.n \in First .. next - 1
    /\ p.seq = SequenceOf(p.n) /\ p.ts = Timestamp(p.n) /\ p.tag = TagOf(p.n)
    /\ p.index = IF scenario.cipher THEN p.n ELSE -1

\* A packet of the other peer.
Strange(p) == p.ssrc = Other /\ p.index = -1

\* The rollover counter of the sender counts the cycles.  Nothing but the packets of
\* the two peers reaches the processor, and those of the protected stream go through
\* its handlers.
PacketsInv ==
    /\ local = IF scenario.cipher THEN next \div SeqBound ELSE 0
    /\ \A p \in net : Genuine(p)
    /\ proc.at \in Steps =>
           \/ Genuine(proc.packet) /\ proc.via = Mine
           \/ Strange(proc.packet)

\* The steps that every invariant has to look at: nobody changes the features, numbers
\* grow, and the packet in the hands of the processor is the one it dispatched.
LEMMA StepsKeep ==
    ASSUME TypeOK, [Next]_vars
    PROVE  /\ scenario' = scenario
           /\ next \in Nat /\ next' \in Nat /\ next <= next'
           /\ DOMAIN sets' \subseteq DOMAIN sets
           /\ proc'.at \in Steps =>
                 \/ /\ proc.at \in Steps /\ proc'.packet = proc.packet /\ proc'.via = proc.via
                    /\ proc \in Work
                 \/ \E p \in net : Dispatch(p)
                 \/ ReceiveForeign
  <1>1. next \in Nat
    BY Constants DEF TypeOK
  <1>w. proc.at \in Steps => proc \in Work
    BY Working
  <1>n. NoPacket.at \notin Steps /\ Crashed.at \notin Steps
    BY DEF NoPacket, Crashed, Steps
  <1> USE DEF receiver, streams, output
  <1>2. CASE \/ rtp_handler \/ SkipSrtp \/ srtp_handler \/ SkipStatistics \/ rtcp_common_handler
             \/ media_handler \/ getter
    <2>1. proc.at \in Steps /\ UNCHANGED <<next, scenario, sets>>
      BY <1>2 DEF rtp_handler, SkipSrtp, srtp_handler, SkipStatistics, rtcp_common_handler, Skip,
                  media_handler, getter, At, Steps
    <2>2. proc \in Work
      BY <1>w, <2>1
    <2>3. CASE rtp_handler \/ SkipSrtp \/ SkipStatistics \/ rtcp_common_handler \/ getter
      <3>1. proc'.packet = proc.packet /\ proc'.via = proc.via
        BY <2>2, <2>3 DEF rtp_handler, SkipSrtp, SkipStatistics, rtcp_common_handler, getter,
                          Skip, Work
      <3> QED  BY <1>1, <2>1, <2>2, <3>1
    <2>4. CASE srtp_handler
      <3>1. Refuse \/ Decrypt(proc.packet) \/ Pass(proc.packet)
        BY <2>4 DEF srtp_handler
      <3>2. proc'.packet = proc.packet /\ proc'.via = proc.via
        BY <2>2, <3>1 DEF Refuse, Decrypt, Pass, Work
      <3> QED  BY <1>1, <2>1, <2>2, <3>2
    <2>5. CASE media_handler
      <3>1. proc' = NoPacket \/ (proc'.packet = proc.packet /\ proc'.via = proc.via)
        BY <2>2, <2>5 DEF media_handler, Work
      <3> QED  BY <1>1, <1>n, <2>1, <2>2, <3>1
    <2> QED  BY <1>2, <2>3, <2>4, <2>5
  <1>3. CASE NullFrame \/ DanglingHandlers \/ SkipMedia \/ NothingFetched
    <2>1. (proc' = NoPacket \/ proc' = Crashed) /\ UNCHANGED <<next, scenario, sets>>
      BY <1>3 DEF NullFrame, DanglingHandlers, SkipMedia, NothingFetched
    <2> QED  BY <1>1, <1>n, <2>1
  <1>4. ASSUME UNCHANGED <<scenario, proc>>, next' = next \/ next' = next + 1,
               DOMAIN sets' \subseteq DOMAIN sets
        PROVE  /\ scenario' = scenario
               /\ next \in Nat /\ next' \in Nat /\ next <= next'
               /\ DOMAIN sets' \subseteq DOMAIN sets
               /\ proc'.at \in Steps =>
                     /\ proc.at \in Steps /\ proc'.packet = proc.packet /\ proc'.via = proc.via
                     /\ proc \in Work
    BY <1>1, <1>w, <1>4
  <1>5. CASE Send \/ (\E p \in net : Vanish(p)) \/ (\E s \in {Mine, Other} : pull_frame(s))
    BY <1>4, <1>5 DEF Send, Vanish, pull_frame
  <1>6. CASE install_handler \/ clear_stream_from_flow
    <2>1. sets' = [sets EXCEPT ![Mine] = @ \cup {Head(todo)}]
          \/ sets' = [s \in DOMAIN sets \ {Other} |-> sets[s]]
      BY <1>6 DEF install_handler, clear_stream_from_flow
    <2>2. DOMAIN sets' \subseteq DOMAIN sets
      BY <2>1
    <2> QED  BY <1>4, <1>6, <2>2 DEF install_handler, clear_stream_from_flow
  <1>7. CASE (\E p \in net : Receive(p)) \/ ReceiveForeign
    <2>1. UNCHANGED <<next, scenario, sets>>
      BY <1>7 DEF Receive, ReceiveForeign, Dispatch
    <2>2. (\E p \in net : Dispatch(p)) \/ ReceiveForeign
      BY <1>7 DEF Receive
    <2> QED  BY <1>1, <2>1, <2>2
  <1>8. CASE UNCHANGED vars
    BY <1>4, <1>8 DEF vars
  <1> QED  BY <1>2, <1>3, <1>5, <1>6, <1>7, <1>8 DEF Next

LEMMA GenuineLasts ==
    ASSUME TypeOK, [Next]_vars, NEW p, Genuine(p)
    PROVE  Genuine(p)'
  BY StepsKeep, Constants DEF Genuine, Timestamp, TagOf, SequenceOf

LEMMA ProtectGenuine ==
    ASSUME TypeOK, PacketsInv, Send, NEW p, p = Protect(next)
    PROVE  Genuine(p)'
  <1>1. next \in Nat /\ next >= First /\ next' = next + 1 /\ scenario' = scenario
    BY Constants DEF TypeOK, Send
  <1>2. Protect(next).tag = TagOf(next)
    <2>1. SeqBound \in Nat \ {0}
      BY Constants
    <2>2. (next + 1) \div SeqBound
            = IF next % SeqBound = SeqBound - 1 THEN (next \div SeqBound) + 1 ELSE next \div SeqBound
      BY <1>1, <2>1, NextCycle
    <2>3. Protect(next).tag = IF scenario.cipher /\ next % SeqBound = SeqBound - 1
                              THEN local + 1 ELSE local
      BY DEF Protect, Rollover, SequenceOf, Top
    <2> QED  BY <2>2, <2>3 DEF PacketsInv, TagOf
  <1>3. Protect(next).index = IF scenario.cipher THEN next ELSE -1
    <2>1. SeqBound \in Nat \ {0}
      BY Constants
    <2>2. (next \div SeqBound) * SeqBound + (next % SeqBound) = next
      BY <1>1, <2>1, Division
    <2> QED  BY <2>2 DEF Protect, PacketIndex, SequenceOf, PacketsInv
  <1>4. /\ Protect(next).ssrc = Mine /\ Protect(next).n = next
        /\ Protect(next).seq = SequenceOf(next) /\ Protect(next).ts = Timestamp(next)
    BY DEF Protect
  <1>5. next \in First .. next' - 1
    BY <1>1, Constants
  <1>6. (p.ssrc = Mine /\ p.n = next /\ p.seq = SequenceOf(next) /\ p.ts = Timestamp(next)
         /\ p.tag = TagOf(next) /\ p.index = IF scenario.cipher THEN next ELSE -1)
    BY <1>2, <1>3, <1>4
  <1> QED
    BY <1>1, <1>5, <1>6 DEF Genuine, Timestamp, TagOf, SequenceOf

\* What the processor finds for a packet of the protected stream are its handlers,
\* whether the stream is alone on the socket or not (reception_flow.cc:540-552).
LEMMA ViaOwn ==
    ASSUME TypeOK
    PROVE  /\ \A s \in Via(Mine) : s = Mine
           /\ \A s \in Via(Other) : s = Mine \/ (s = Other /\ Other \in DOMAIN sets)
  <1>1. CASE DOMAIN sets = {Mine}
    BY <1>1 DEF Via
  <1>2. CASE DOMAIN sets = {Mine, Other}
    <2>1. Cardinality(DOMAIN sets) # 1
      <3>1. ~\E x : DOMAIN sets = {x}
        BY <1>2, Constants
      <3>2. IsFiniteSet({Mine, Other})
        <4>1. {Mine, Other} = {Mine} \cup {Other}
          OBVIOUS
        <4>2. IsFiniteSet({Mine}) /\ IsFiniteSet({Other})
          BY FS_Singleton, Zenon
        <4>3. IsFiniteSet({Mine} \cup {Other})
          BY <4>2, FS_Union, Zenon
        <4> QED  BY <4>1, <4>3, Zenon
      <3> QED  BY <1>2, <3>1, <3>2, FS_Singleton
    <2> QED  BY <1>2, <2>1 DEF Via
  <1> QED  BY <1>1, <1>2, Working

LEMMA Dispatched ==
    ASSUME TypeOK, PacketsInv, (\E p \in net : Dispatch(p)) \/ ReceiveForeign
    PROVE  /\ proc' \in Work /\ proc'.at = "rtp" /\ proc'.verdict = "modified"
           /\ proc'.via \in DOMAIN sets
           /\ proc'.payload = OnWire(proc'.packet) /\ proc'.srtp = "none"
           /\ \/ Genuine(proc'.packet) /\ proc'.via = Mine
              \/ Strange(proc'.packet)
           /\ UNCHANGED <<next, local, net, receiver, streams, output, scenario>>
  <1>1. ASSUME NEW p \in Packets, Dispatch(p),
               Genuine(p) \/ Strange(p)
        PROVE  /\ proc' \in Work /\ proc'.at = "rtp" /\ proc'.verdict = "modified"
               /\ proc'.via \in DOMAIN sets
               /\ proc'.payload = OnWire(proc'.packet) /\ proc'.srtp = "none"
               /\ \/ Genuine(proc'.packet) /\ proc'.via = Mine
                  \/ Strange(proc'.packet)
               /\ UNCHANGED <<next, local, net, receiver, streams, output, scenario>>
    <2>1. proc' \in Work /\ Via(p.ssrc) \subseteq DOMAIN sets
      BY <1>1, DispatchType
    <2>2. PICK s \in Via(p.ssrc) :
          proc' = [at |-> "rtp", packet |-> p, via |-> s, verdict |-> "modified",
                   frame |-> FALSE, payload |-> OnWire(p), srtp |-> "none"]
      BY <1>1 DEF Dispatch
    <2>3. /\ proc'.at = "rtp" /\ proc'.verdict = "modified" /\ proc'.via = s
          /\ proc'.packet = p
          /\ proc'.payload = OnWire(p) /\ proc'.srtp = "none"
      BY <2>2
    <2>4. Genuine(p) => s = Mine
      BY <2>2, ViaOwn DEF Genuine
    <2> QED  BY <1>1, <2>1, <2>2, <2>3, <2>4 DEF Dispatch
  <1>2. ASSUME NEW p \in net, Dispatch(p) PROVE p \in Packets /\ (Genuine(p) \/ Strange(p))
    BY <1>2 DEF TypeOK, PacketsInv
  <1>3. CASE ReceiveForeign
    <2>1. PICK seq \in 0 .. Top, ts \in ForeignTimestamps : Dispatch(Foreign(foreign, seq, ts))
      BY <1>3 DEF ReceiveForeign
    <2>2. foreign \in Nat
      BY Constants DEF TypeOK
    <2>3. Foreign(foreign, seq, ts) \in Packets
      BY <2>2, ForeignType
    <2>4. Strange(Foreign(foreign, seq, ts))
      BY DEF Foreign, Strange
    <2> QED  BY <1>1, <2>1, <2>3, <2>4
  <1> QED  BY <1>1, <1>2, <1>3

LEMMA PacketsInit == Init => PacketsInv
  <1> SUFFICES ASSUME Init PROVE PacketsInv
    OBVIOUS
  <1>1. First \in 0 .. SeqBound - 1 /\ SeqBound \in Nat \ {0}
    BY Constants
  <1>2. /\ next = 0 * SeqBound + First /\ local = 0 /\ net = {}
        /\ proc.at \notin Steps
    BY <1>1 DEF Init, NoPacket, Steps
  <1>3. (0 * SeqBound + First) \div SeqBound = 0
    BY <1>1, DivisionUnique
  <1> QED  BY <1>2, <1>3 DEF PacketsInv

LEMMA PacketsNext == TypeOK /\ PacketsInv /\ [Next]_vars => PacketsInv'
  <1> SUFFICES ASSUME TypeOK, PacketsInv, [Next]_vars PROVE PacketsInv'
    OBVIOUS
  <1>1. local' = IF scenario'.cipher THEN next' \div SeqBound ELSE 0
    <2>1. CASE Send
      <3>1. next \in Nat /\ SeqBound \in Nat \ {0}
        BY Constants DEF TypeOK
      <3>2. next' = next + 1 /\ local' = Rollover(local, SequenceOf(next)) /\ scenario' = scenario
        BY <2>1 DEF Send
      <3> QED  BY <3>1, <3>2, NextCycle DEF PacketsInv, Rollover, SequenceOf, Top
    <2>2. ASSUME ~Send PROVE UNCHANGED <<next, local, scenario>>
      BY <2>2 DEF Next, vars, Vanish, Receive, ReceiveForeign, Dispatch, install_handler,
                  clear_stream_from_flow, rtp_handler, SkipSrtp, SkipStatistics, Skip,
                  srtp_handler, rtcp_common_handler, NullFrame, DanglingHandlers,
                  SkipMedia, media_handler, getter, NothingFetched, pull_frame
    <2> QED  BY <2>1, <2>2 DEF PacketsInv
  <1>2. ASSUME NEW p \in net' PROVE Genuine(p)'
    <2>1. CASE p \in net
      BY <2>1, GenuineLasts DEF PacketsInv
    <2>2. CASE p \notin net
      <3>1. Send /\ p = Protect(next)
        BY <1>2, <2>2 DEF Next, vars, Send, Vanish, Receive, ReceiveForeign, Dispatch,
                  install_handler, clear_stream_from_flow, rtp_handler, SkipSrtp,
                  SkipStatistics, Skip, srtp_handler, rtcp_common_handler, NullFrame,
                  DanglingHandlers, SkipMedia, media_handler, getter, NothingFetched, pull_frame
      <3> QED  BY <3>1, ProtectGenuine
    <2> QED  BY <2>1, <2>2
  <1>3. ASSUME proc'.at \in Steps
        PROVE  (Genuine(proc.packet)' /\ proc'.via = Mine) \/ Strange(proc.packet)'
    <2>1. (Genuine(proc'.packet) /\ proc'.via = Mine) \/ Strange(proc'.packet)
      <3>1. CASE /\ proc.at \in Steps /\ proc'.packet = proc.packet /\ proc'.via = proc.via
        BY <3>1 DEF PacketsInv
      <3>2. CASE (\E p \in net : Dispatch(p)) \/ ReceiveForeign
        BY <3>2, Dispatched
      <3> QED  BY <1>3, <3>1, <3>2, StepsKeep
    <2>2. PICK p : p = proc'.packet
      OBVIOUS
    <2>3. Genuine(p) => Genuine(p)'
      BY GenuineLasts
    <2>4. (Genuine(p) => Genuine(proc.packet)') /\ (Strange(p) => Strange(proc.packet)')
      BY <2>2, <2>3 DEF Genuine, Strange, Timestamp, TagOf, SequenceOf
    <2> QED  BY <2>1, <2>2, <2>4
  <1> QED  BY <1>1, <1>2, <1>3 DEF PacketsInv

\* Whatever the length of the cycle of sequence numbers, the number the peer starts
\* with and the features of the stream, every packet is encrypted with the index of
\* its number: no part of the key stream is used twice (srtp.cc:29-36).
THEOREM KeystreamIsUsedOnce == Spec => []KeystreamUsedOnce
  <1>1. TypeOK /\ PacketsInv => KeystreamUsedOnce
    <2> SUFFICES ASSUME TypeOK, PacketsInv, scenario.cipher, NEW p \in net
                 PROVE  p.index = p.n /\ p.n < next
      BY DEF KeystreamUsedOnce
    <2>1. next \in Nat /\ Genuine(p)
      BY Constants DEF TypeOK, PacketsInv
    <2> QED  BY <2>1, Constants DEF Genuine
  <1> QED
    BY <1>1, TypesInit, TypesNext, PacketsInit, PacketsNext, PTL DEF Spec

-----------------------------------------------------------------------------
(* The handlers.                                                           *)

\* The handlers that read the frame which the rtp handler makes.
Readers == {"srtp", "rtcp_common"}

\* Handlers are installed once and stay.  The rtp handler is installed before those
\* that read its frame; so a processor without a frame is with the handlers of a
\* stream that ZRTP still sets up, or of one that has left.  It is with those of another
\* stream only on a shared socket.
HandlersInv ==
    /\ Other \in DOMAIN sets =>
           sets[Other] = All \ {"srtp"} /\ scenario.multiplexed /\ hooks = scenario.hooks
    /\ ~scenario.zrtp => sets[Mine] = All /\ todo = <<>>
    /\ "rtcp_common" \in sets[Mine] => scenario.rtcp
    /\ \A i \in 1 .. Len(todo) : todo[i] = "rtcp_common" => scenario.rtcp
    /\ sets[Mine] \cap Readers # {} => "rtp" \in sets[Mine]
    /\ \A i \in 1 .. Len(todo) : todo[i] \in Readers =>
           "rtp" \in sets[Mine] \/ \E j \in 1 .. i - 1 : todo[j] = "rtp"
    /\ proc.at \in Steps \ {"rtp"} /\ ~proc.frame /\ proc.via \in DOMAIN sets =>
           proc.via = Mine /\ scenario.zrtp
    /\ proc.at \in Steps => proc.via = Mine \/ scenario.multiplexed

LEMMA ConcatPrefix ==
    ASSUME NEW S, NEW s \in Seq(S), NEW t \in Seq(S)
    PROVE  /\ s \o t \in Seq(S) /\ Len(s \o t) \in Nat /\ Len(s) \in Nat /\ Len(s) <= Len(s \o t)
           /\ \A i \in 1 .. Len(s) : (s \o t)[i] = s[i]
  <1>1. Len(s) \in Nat /\ Len(t) \in Nat /\ s \o t \in Seq(S) /\ Len(s \o t) = Len(s) + Len(t)
    BY LenProperties, ConcatProperties
  <1>2. ASSUME NEW i \in 1 .. Len(s) PROVE (s \o t)[i] = s[i]
    BY <1>1, ConcatProperties
  <1> QED  BY <1>1, <1>2

\* install_packet_handlers() follows init() and create_media().
LEMMA RtpBeforeReaders ==
    /\ InstallOrder \in Seq(Handlers)
    /\ \A i \in 1 .. Len(InstallOrder) : InstallOrder[i] \in Readers => 4 \in 1 .. i - 1
    /\ InstallOrder[4] = "rtp"
    /\ \A i \in 1 .. Len(InstallOrder) : InstallOrder[i] = "rtcp_common" => scenario.rtcp
  <1> DEFINE a == <<"zrtp", "media", "getter", "rtp">>
             b == Optional("rtcp_common")
             c == Optional("srtp")
  <1>1. a \in Seq(Handlers) /\ b \in Seq(Handlers) /\ c \in Seq(Handlers)
    <2>1. <<"srtp">> \in Seq(Handlers) /\ <<"rtcp_common">> \in Seq(Handlers) /\ <<>> \in Seq(Handlers)
      BY DEF Handlers
    <2>2. a \in Seq(Handlers)
      BY DEF Handlers
    <2> QED  BY <2>1, <2>2 DEF Optional
  <1>2. Len(a) = 4 /\ a[4] = "rtp" /\ \A i \in 1 .. 4 : a[i] \notin Readers
    BY DEF Readers
  <1>8. ~scenario.rtcp => \A i \in 1 .. Len(InstallOrder) : InstallOrder[i] # "rtcp_common"
    <2>1. SUFFICES ASSUME ~scenario.rtcp PROVE \A i \in 1 .. Len(InstallOrder) : InstallOrder[i] # "rtcp_common"
      OBVIOUS
    <2> DEFINE H == Handlers \ {"rtcp_common"}
    <2>2. a \in Seq(H) /\ b \in Seq(H) /\ c \in Seq(H)
      <3>1. a \in Seq(H)
        BY DEF Handlers
      <3>2. <<"srtp">> \in Seq(H) /\ <<>> \in Seq(H)
        BY DEF Handlers
      <3>3. "rtcp_common" \notin All
        BY <2>1 DEF All
      <3> QED  BY <3>1, <3>2, <3>3 DEF Optional
    <2>3. InstallOrder \in Seq(H)
      <3>1. (a \o b) \o c \in Seq(H)
        <4> HIDE DEF a, b, c, H
        <4> QED  BY <2>2, ConcatProperties
      <3> QED  BY <3>1 DEF InstallOrder
    <2>4. \A i \in 1 .. Len(InstallOrder) : InstallOrder[i] \in H
      <3> HIDE DEF H
      <3> QED  BY <2>3, ElementOfSeq
    <2> QED  BY <2>4
  <1>3. InstallOrder = (a \o b) \o c
    BY DEF InstallOrder
  <1> HIDE DEF a, b, c
  <1> DEFINE d == a \o b
  <1>4. d \in Seq(Handlers) /\ Len(d) \in Nat /\ Len(d) >= 4 /\ \A i \in 1 .. 4 : d[i] = a[i]
    <2>1. d \in Seq(Handlers) /\ Len(d) \in Nat /\ Len(a) <= Len(d)
          /\ \A i \in 1 .. Len(a) : d[i] = a[i]
      BY <1>1, ConcatPrefix
    <2> QED  BY <1>2, <2>1
  <1> HIDE DEF d
  <1> DEFINE e == d \o c
  <1>5. e \in Seq(Handlers) /\ Len(e) \in Nat /\ Len(e) >= 4 /\ \A i \in 1 .. 4 : e[i] = d[i]
    <2>1. e \in Seq(Handlers) /\ Len(e) \in Nat /\ Len(d) <= Len(e)
          /\ \A i \in 1 .. Len(d) : e[i] = d[i]
      BY <1>1, <1>4, ConcatPrefix
    <2> QED  BY <1>4, <2>1
  <1>6. InstallOrder = e
    BY <1>3 DEF d
  <1> HIDE DEF e
  <1>7. ASSUME NEW i \in 1 .. Len(e), e[i] \in Readers PROVE 4 \in 1 .. i - 1
    BY <1>2, <1>4, <1>5, <1>7
  <1> QED  BY <1>2, <1>4, <1>5, <1>6, <1>7, <1>8

LEMMA HandlersInit == Init => HandlersInv
  <1> SUFFICES ASSUME Init PROVE HandlersInv
    OBVIOUS
  <1>1. DOMAIN sets = {Mine} \cup (IF scenario.multiplexed THEN {Other} ELSE {})
        /\ sets[Mine] = (IF scenario.zrtp THEN {} ELSE All)
        /\ (Other \in DOMAIN sets => sets[Other] = All \ {"srtp"})
    BY Constants DEF Init
  <1>2. Other \in DOMAIN sets => scenario.multiplexed /\ hooks = scenario.hooks
    BY <1>1, Constants DEF Init
  <1>3. "rtp" \in All
    BY DEF All
  <1>4. \A i \in 1 .. Len(todo) : todo[i] \in Readers => \E j \in 1 .. i - 1 : todo[j] = "rtp"
    <2>1. CASE scenario.zrtp
      BY <2>1, RtpBeforeReaders DEF Init
    <2>2. CASE ~scenario.zrtp
      BY <2>2 DEF Init
    <2> QED  BY <2>1, <2>2
  <1>5. (~scenario.zrtp => todo = <<>>) /\ proc.at \notin Steps
    BY DEF Init, NoPacket, Steps
  <1>6. \A i \in 1 .. Len(todo) : todo[i] = "rtcp_common" => scenario.rtcp
    <2>1. CASE scenario.zrtp
      BY <2>1, RtpBeforeReaders DEF Init
    <2>2. CASE ~scenario.zrtp
      BY <2>2 DEF Init
    <2> QED  BY <2>1, <2>2
  <1>7. "rtcp_common" \in sets[Mine] => scenario.rtcp
    BY <1>1 DEF All
  <1> QED  BY <1>1, <1>2, <1>3, <1>4, <1>5, <1>6, <1>7 DEF HandlersInv

\* The processor asks for handlers, it does not change them.
LEMMA HandlersStay ==
    ASSUME TypeOK, HandlersInv, UNCHANGED <<sets, todo, hooks, scenario>>,
           proc'.at \in Steps \ {"rtp"} /\ ~proc'.frame /\ proc'.via \in DOMAIN sets =>
              proc'.via = Mine /\ scenario.zrtp,
           proc'.at \in Steps => proc'.via = Mine \/ scenario.multiplexed
    PROVE  HandlersInv'
  BY DEF HandlersInv, All

LEMMA HandlersNext == TypeOK /\ PacketsInv /\ HandlersInv /\ [Next]_vars => HandlersInv'
  <1> SUFFICES ASSUME TypeOK, PacketsInv, HandlersInv, [Next]_vars PROVE HandlersInv'
    OBVIOUS
  <1>w. proc.at \in Steps => proc \in Work
    BY Working
  <1>s. /\ Mine \in DOMAIN sets /\ Mine # Other
        /\ DOMAIN sets = {Mine} \/ DOMAIN sets = {Mine, Other}
    BY Working, Constants
  <1> USE DEF receiver, streams, output
  <1>1. CASE install_handler
    <2> DEFINE h == Head(todo)
    <2>1. todo \in Seq(Handlers) /\ todo # <<>> /\ scenario.zrtp /\ scenario' = scenario
      BY <1>1 DEF install_handler, HandlersInv, TypeOK
    <2>2. /\ Len(todo) \in Nat \ {0} /\ h = todo[1] /\ todo' = Tail(todo)
          /\ Tail(todo) \in Seq(Handlers) /\ Len(todo') = Len(todo) - 1
          /\ \A i \in 1 .. Len(todo') : todo'[i] = todo[i + 1]
      BY <1>1, <2>1, EmptySeq, HeadTailProperties DEF install_handler
    <2>3. /\ sets'[Mine] = sets[Mine] \cup {h} /\ DOMAIN sets' = DOMAIN sets
          /\ Other \in DOMAIN sets => sets'[Other] = sets[Other]
          /\ hooks' = hooks /\ proc' = proc
      BY <1>1, <1>s DEF install_handler
    <2> HIDE DEF h
    <2>4. h \in Readers => "rtp" \in sets[Mine]
      BY <2>2 DEF HandlersInv
    <2>5. sets'[Mine] \cap Readers # {} => "rtp" \in sets'[Mine]
      BY <2>3, <2>4 DEF HandlersInv
    <2>6. ASSUME NEW i \in 1 .. Len(todo'), todo'[i] \in Readers, "rtp" \notin sets'[Mine]
          PROVE  \E j \in 1 .. i - 1 : todo'[j] = "rtp"
      <3>1. i + 1 \in 1 .. Len(todo) /\ todo[i + 1] \in Readers /\ "rtp" \notin sets[Mine] /\ h # "rtp"
        BY <2>2, <2>3, <2>6
      <3>2. PICK j \in 1 .. i : todo[j] = "rtp"
        BY <3>1 DEF HandlersInv
      <3>3. j # 1 /\ j - 1 \in 1 .. i - 1 /\ todo'[j - 1] = "rtp"
        BY <2>2, <3>1, <3>2
      <3> QED  BY <3>3
    <2>7. /\ "rtcp_common" \in sets'[Mine] => scenario.rtcp
          /\ \A i \in 1 .. Len(todo') : todo'[i] = "rtcp_common" => scenario.rtcp
      <3>1. h = "rtcp_common" => scenario.rtcp
        <4>1. 1 \in 1 .. Len(todo) /\ todo[1] = h
          BY <2>2
        <4> QED  BY <4>1 DEF HandlersInv
      <3>2. ASSUME NEW i \in 1 .. Len(todo'), todo'[i] = "rtcp_common" PROVE scenario.rtcp
        <4>1. i + 1 \in 1 .. Len(todo) /\ todo[i + 1] = "rtcp_common"
          BY <2>2, <3>2
        <4> QED  BY <4>1 DEF HandlersInv
      <3> QED  BY <2>3, <3>1, <3>2 DEF HandlersInv
    <2> QED  BY <2>1, <2>3, <2>5, <2>6, <2>7 DEF HandlersInv, All
  <1>2. CASE clear_stream_from_flow
    <2>1. /\ DOMAIN sets' = {Mine} /\ sets'[Mine] = sets[Mine]
          /\ UNCHANGED <<todo, proc, scenario>>
      BY <1>2, <1>s DEF clear_stream_from_flow
    <2> QED  BY <1>s, <2>1 DEF HandlersInv, All
  <1>3. CASE rtp_handler
    <2>1. proc \in Work /\ proc.via \in DOMAIN sets
      BY <1>3, <1>w DEF rtp_handler, At, Steps
    <2>2. Installed("rtp") \in BOOLEAN
      BY DEF Installed
    <2>3. proc'.frame = Installed("rtp") /\ proc'.via = proc.via
      BY <1>3, <2>1, <2>2 DEF rtp_handler, Work
    <2>4. /\ ~Installed("rtp") => proc.via = Mine /\ scenario.zrtp
          /\ proc.via = Mine \/ scenario.multiplexed
      BY <1>s, <2>1 DEF HandlersInv, All, Installed
    <2> QED  BY <1>3, <2>3, <2>4, HandlersStay DEF rtp_handler
  <1>4. CASE \/ SkipSrtp \/ srtp_handler \/ SkipStatistics \/ rtcp_common_handler
             \/ media_handler \/ getter
    <2>1. /\ proc.at \in Steps \ {"rtp"} /\ proc.via \in DOMAIN sets
          /\ UNCHANGED <<sets, todo, hooks, scenario>>
      BY <1>4 DEF SkipSrtp, srtp_handler, SkipStatistics, rtcp_common_handler, Skip,
                  media_handler, getter, At, Steps
    <2>2. proc \in Work
      BY <1>w, <2>1
    <2>3. proc' = NoPacket \/ (proc'.frame = proc.frame /\ proc'.via = proc.via)
      <3>1. CASE SkipSrtp \/ SkipStatistics \/ rtcp_common_handler \/ getter
        BY <2>2, <3>1 DEF SkipSrtp, SkipStatistics, rtcp_common_handler, Skip, getter, Work
      <3>2. CASE srtp_handler
        <4>1. Refuse \/ Decrypt(proc.packet) \/ Pass(proc.packet)
          BY <3>2 DEF srtp_handler
        <4> QED  BY <2>2, <4>1 DEF Refuse, Decrypt, Pass, Work
      <3>3. CASE media_handler
        BY <2>2, <3>3 DEF media_handler, Work
      <3> QED  BY <1>4, <3>1, <3>2, <3>3
    <2>4. /\ ~proc.frame => proc.via = Mine /\ scenario.zrtp
          /\ proc.via = Mine \/ scenario.multiplexed
      BY <2>1 DEF HandlersInv
    <2>5. NoPacket.at \notin Steps
      BY DEF NoPacket, Steps
    <2> QED  BY <2>1, <2>3, <2>4, <2>5, HandlersStay
  <1>5. CASE NullFrame \/ DanglingHandlers \/ SkipMedia \/ NothingFetched
    <2>1. proc'.at \notin Steps /\ UNCHANGED <<sets, todo, hooks, scenario>>
      BY <1>5 DEF NullFrame, DanglingHandlers, SkipMedia, NothingFetched, NoPacket, Crashed, Steps
    <2> QED  BY <2>1, HandlersStay
  <1>6. CASE (\E p \in net : Receive(p)) \/ ReceiveForeign
    <2>1. (\E p \in net : Dispatch(p)) \/ ReceiveForeign
      BY <1>6 DEF Receive
    <2>2. proc' \in Work /\ proc'.at = "rtp" /\ proc'.via \in DOMAIN sets
          /\ UNCHANGED <<sets, todo, hooks, scenario>>
      BY <2>1, Dispatched
    <2>3. proc'.via = Mine \/ scenario.multiplexed
      BY <1>s, <2>2 DEF HandlersInv
    <2> QED  BY <2>2, <2>3, HandlersStay
  <1>7. CASE Send \/ (\E p \in net : Vanish(p)) \/ (\E s \in {Mine, Other} : pull_frame(s))
             \/ UNCHANGED vars
    <2>1. UNCHANGED <<sets, todo, hooks, scenario, proc>>
      BY <1>7 DEF Send, Vanish, pull_frame, vars
    <2> QED  BY <2>1, HandlersStay DEF HandlersInv
  <1> QED  BY <1>1, <1>2, <1>3, <1>4, <1>5, <1>6, <1>7 DEF Next

\* A handler meets no missing frame and no freed handlers but while ZRTP installs the
\* handlers of the stream, or when a stream that shared the socket has left
\* (reception_flow.cc:540, 595): never on a stream alone without ZRTP.
THEOREM HandlersMeetTheirFrame == Spec => []CrashOnlyWhileHandlersChange
  <1>1. Init => CrashOnlyWhileHandlersChange
    BY DEF Init, NoPacket, CrashOnlyWhileHandlersChange
  <1>2. TypeOK /\ PacketsInv /\ HandlersInv /\ CrashOnlyWhileHandlersChange /\ [Next]_vars
        => CrashOnlyWhileHandlersChange'
    <2> SUFFICES ASSUME TypeOK, PacketsInv, HandlersInv, CrashOnlyWhileHandlersChange,
                        [Next]_vars, proc'.at = "crashed"
                 PROVE  \/ scenario.zrtp /\ "rtp" \in sets'[Mine]
                        \/ scenario.multiplexed /\ Other \notin DOMAIN sets'
      BY StepsKeep DEF CrashOnlyWhileHandlersChange
    <2>s. /\ Mine \in DOMAIN sets /\ Mine # Other
          /\ DOMAIN sets = {Mine} \/ DOMAIN sets = {Mine, Other}
      BY Working, Constants
    <2> USE DEF receiver, streams, output
    <2>1. CASE NullFrame
      <3>1. /\ proc.at \in Steps \ {"rtp"} /\ ~proc.frame /\ proc.via \in DOMAIN sets
            /\ sets[proc.via] \cap Readers # {} /\ sets' = sets
        BY <2>1 DEF NullFrame, At, Steps, Readers, Installed
      <3> QED  BY <3>1 DEF HandlersInv
    <2>2. CASE DanglingHandlers
      <3>1. proc.at \in Steps /\ proc \in Work
        BY <2>2 DEF DanglingHandlers, TypeOK, NoPacket, Crashed, Work, Steps
      <3>2. proc.via # Mine /\ Other \notin DOMAIN sets /\ sets' = sets
        BY <2>2, <2>s, <3>1 DEF DanglingHandlers, Work
      <3> QED  BY <3>1, <3>2 DEF HandlersInv
    <2>3. CASE proc.at = "crashed"
      <3>1. sets' = sets \/ install_handler \/ clear_stream_from_flow
        BY DEF Next, vars, Send, Vanish, Receive, ReceiveForeign, Dispatch, rtp_handler,
               SkipSrtp, SkipStatistics, Skip, srtp_handler, rtcp_common_handler, NullFrame,
               DanglingHandlers, SkipMedia, media_handler, getter, NothingFetched, pull_frame
      <3>2. sets[Mine] \subseteq sets'[Mine]
        BY <2>s, <3>1 DEF install_handler, clear_stream_from_flow
      <3> QED  BY <2>3, <3>2, StepsKeep DEF CrashOnlyWhileHandlersChange
    <2>4. ASSUME ~NullFrame, ~DanglingHandlers, proc.at # "crashed" PROVE proc'.at # "crashed"
      <3>w. proc.at \in Steps => proc \in Work
        BY Working
      <3>1. CASE \/ rtp_handler \/ SkipSrtp \/ srtp_handler \/ SkipStatistics \/ rtcp_common_handler
                 \/ media_handler \/ getter
        <4>1. proc \in Work
          BY <3>1, <3>w DEF rtp_handler, SkipSrtp, srtp_handler, SkipStatistics,
               rtcp_common_handler, media_handler, getter, At, Steps
        <4>2. CASE srtp_handler
          <5>1. Refuse \/ Decrypt(proc.packet) \/ Pass(proc.packet)
            BY <4>2 DEF srtp_handler
          <5> QED  BY <4>1, <5>1 DEF Refuse, Decrypt, Pass, Work
        <4>3. CASE rtp_handler \/ SkipSrtp \/ SkipStatistics
          BY <4>1, <4>3 DEF rtp_handler, SkipSrtp, SkipStatistics, Skip, Work
        <4>4. CASE rtcp_common_handler
          BY <4>1, <4>4 DEF rtcp_common_handler, Work
        <4>5. CASE media_handler
          BY <4>1, <4>5 DEF media_handler, Work, NoPacket
        <4>6. CASE getter
          BY <2>4, <4>6 DEF getter
        <4> QED  BY <3>1, <4>2, <4>3, <4>4, <4>5, <4>6
      <3>2. CASE SkipMedia \/ NothingFetched
        BY <3>2 DEF SkipMedia, NothingFetched, NoPacket
      <3>3. CASE (\E p \in net : Receive(p)) \/ ReceiveForeign
        BY <3>3, Dispatched DEF Receive
      <3>4. CASE \/ Send \/ (\E p \in net : Vanish(p)) \/ (\E s \in {Mine, Other} : pull_frame(s))
                 \/ install_handler \/ clear_stream_from_flow \/ UNCHANGED vars
        BY <2>4, <3>4 DEF Send, Vanish, pull_frame, install_handler, clear_stream_from_flow, vars
      <3> QED  BY <2>4, <3>1, <3>2, <3>3, <3>4 DEF Next
    <2> QED  BY <2>1, <2>2, <2>3, <2>4
  <1> QED
    BY <1>1, <1>2, TypesInit, TypesNext, PacketsInit, PacketsNext, HandlersInit, HandlersNext,
       PTL DEF Spec

-----------------------------------------------------------------------------
(* The receiver.                                                           *)

\* Two numbers that are at least a divisor apart have different quotients.
LEMMA QuotientGrows ==
    ASSUME NEW a \in Nat, NEW b \in Nat, NEW d \in Nat \ {0}, b >= a + d
    PROVE  a \div d < b \div d
  <1> DEFINE qa == a \div d
             qb == b \div d
  <1>1. qa \in Nat /\ (a % d) \in 0 .. d - 1 /\ qa * d + (a % d) = a
    BY Division
  <1>2. qb \in Nat /\ (b % d) \in 0 .. d - 1 /\ qb * d + (b % d) = b
    BY Division
  <1> HIDE DEF qa, qb
  <1>3. ASSUME qb <= qa PROVE FALSE
    <2>1. PICK k \in Nat : qa = qb + k
      BY <1>1, <1>2, <1>3
    <2>2. qa * d = qb * d + k * d /\ k * d \in Nat /\ qb * d \in Nat
      BY <1>2, <2>1, SMT
    <2> QED  BY <1>1, <1>2, <2>2, SMT
  <1> QED  BY <1>1, <1>2, <1>3

\* From the last packet of a cycle to one of the last MaxOff of a later cycle it is
\* more than the rest of that cycle.
LEMMA CycleGap ==
    ASSUME NEW t \in Nat, NEW n \in Nat, NEW b \in Nat \ {0}, NEW m \in Nat,
           t < n, t % b = b - 1, n % b >= b - m
    PROVE  n >= t + (b - m + 1)
  <1> DEFINE qt == t \div b
             qn == n \div b
             rn == n % b
  <1>1. qt \in Nat /\ qt * b + (b - 1) = t
    BY Division
  <1>2. qn \in Nat /\ rn \in 0 .. b - 1 /\ qn * b + rn = n
    BY Division
  <1>3. rn >= b - m
    OBVIOUS
  <1> HIDE DEF qt, qn, rn
  <1>4. ASSUME qn <= qt PROVE FALSE
    <2>1. PICK k \in Nat : qt = qn + k
      BY <1>1, <1>2, <1>4
    <2>2. qt * b = qn * b + k * b /\ k * b \in Nat /\ qn * b \in Nat
      BY <1>2, <2>1, SMT
    <2> QED  BY <1>1, <1>2, <2>2, SMT
  <1>5. PICK k \in Nat : qn = qt + 1 + k
    <2>1. qn - qt - 1 \in Nat /\ qn = qt + 1 + (qn - qt - 1)
      BY <1>1, <1>2, <1>4
    <2> QED  BY <2>1
  <1>6. qn * b = qt * b + b + k * b /\ k * b \in Nat /\ qt * b \in Nat
    BY <1>1, <1>5, SMT
  <1> QED  BY <1>1, <1>2, <1>3, <1>6, SMT

\* The wraps before number n.
Wraps(n) == {m \in First .. n - 1 : SequenceOf(m) = Top}

\* The receiver counts the packets with the highest sequence number that it has decrypted,
\* those of another peer too, and notes the timestamp of the last one.  There are as many
\* of its own peer before a number as it has cycles before it.
ReceiverInv ==
    /\ remote.roc = Len(tops)
    /\ tops = <<>> => remote.rts = 0
    /\ tops # <<>> /\ tops[Len(tops)] # -1 => remote.rts = Timestamp(tops[Len(tops)])
    /\ \A i \in 1 .. Len(tops) : tops[i] # -1 =>
           tops[i] \in First .. next - 1 /\ SequenceOf(tops[i]) = Top
    /\ \A n \in First .. next : IsFiniteSet(Wraps(n)) /\ Cardinality(Wraps(n)) = n \div SeqBound

LEMMA ReceiverInit == Init => ReceiverInv
  <1> SUFFICES ASSUME Init PROVE ReceiverInv
    OBVIOUS
  <1>1. next = First /\ remote.roc = 0 /\ remote.rts = 0 /\ tops = <<>>
    BY DEF Init
  <1>2. First \in 0 .. SeqBound - 1 /\ SeqBound \in Nat \ {0}
    BY Constants
  <1>3. (0 * SeqBound + First) \div SeqBound = 0 /\ First = 0 * SeqBound + First
    BY <1>2, DivisionUnique
  <1>4. Wraps(First) = {}
    BY <1>2 DEF Wraps
  <1>5. IsFiniteSet(Wraps(First)) /\ Cardinality(Wraps(First)) = First \div SeqBound
    BY <1>3, <1>4, FS_EmptySet
  <1>6. First .. First = {First}
    BY <1>2
  <1> QED  BY <1>1, <1>5, <1>6, EmptySeq DEF ReceiverInv

LEMMA WrapsNext ==
    ASSUME NEW n \in Nat, n >= First, IsFiniteSet(Wraps(n)), Cardinality(Wraps(n)) = n \div SeqBound
    PROVE  IsFiniteSet(Wraps(n + 1)) /\ Cardinality(Wraps(n + 1)) = (n + 1) \div SeqBound
  <1>1. SeqBound \in Nat \ {0} /\ First \in Nat
    BY Constants
  <1>2. (n + 1) \div SeqBound = IF n % SeqBound = SeqBound - 1 THEN (n \div SeqBound) + 1
                                                                  ELSE n \div SeqBound
    BY <1>1, NextCycle
  <1>3. n \notin Wraps(n) /\ (n + 1) - 1 = n /\ First .. n = (First .. n - 1) \cup {n}
    BY <1>1 DEF Wraps
  <1>4. CASE SequenceOf(n) = Top
    <2>1. Wraps(n + 1) = Wraps(n) \cup {n}
      BY <1>3, <1>4 DEF Wraps
    <2>2. IsFiniteSet(Wraps(n) \cup {n}) /\ Cardinality(Wraps(n) \cup {n}) = Cardinality(Wraps(n)) + 1
      BY <1>3, FS_AddElement
    <2> QED  BY <1>2, <1>4, <2>1, <2>2 DEF SequenceOf, Top
  <1>5. CASE SequenceOf(n) # Top
    <2>1. Wraps(n + 1) = Wraps(n)
      BY <1>3, <1>5 DEF Wraps
    <2> QED  BY <1>2, <1>5, <2>1 DEF SequenceOf, Top
  <1> QED  BY <1>4, <1>5

\* When the wraps have been seen as Timely says, the receiver decrypts a packet with
\* the index it was encrypted with (srtp.cc:95-113).
LEMMA IndexIsRight ==
    ASSUME TypeOK, ReceiverInv, NEW p, Genuine(p), scenario.cipher, Timely(p)
    PROVE  p.index = Index(p)
  <1> DEFINE n == p.n
             q == n \div SeqBound
             seen == ToSet(tops)
             before == Wraps(n)
             ahead == seen \ before
             last == tops[Len(tops)]
  <1>1. /\ n \in Nat /\ n >= First /\ n < next /\ next \in Nat
        /\ p.index = n /\ p.seq = n % SeqBound /\ p.ts = Timestamp(n)
        /\ SeqBound \in Nat \ {0} /\ First \in Nat /\ FrameLength \in Nat \ {0}
        /\ MaxOff \in Nat /\ FrameLength <= SeqBound - MaxOff + 1
        /\ scenario.ts \in Nat
    <2>1. /\ SeqBound \in Nat \ {0} /\ First \in Nat /\ FrameLength \in Nat \ {0}
          /\ MaxOff \in Nat /\ FrameLength <= SeqBound - MaxOff + 1
      BY Constants
    <2>2. next \in Nat /\ scenario.ts \in Nat
      BY Constants, ScenariosAssumption DEF TypeOK, Features
    <2>3. p.n \in First .. next - 1 /\ p.index = p.n /\ p.seq = p.n % SeqBound /\ p.ts = Timestamp(p.n)
      BY DEF Genuine, SequenceOf
    <2>4. p.n \in Nat /\ p.n >= First /\ p.n < next
      BY <2>1, <2>2, <2>3
    <2> QED  BY <2>1, <2>2, <2>3, <2>4
  <1>2. q \in Nat /\ q * SeqBound + (n % SeqBound) = n
    BY <1>1, Division
  <1>3. IsFiniteSet(before) /\ Cardinality(before) = q
    <2>1. n \in First .. next
      BY <1>1
    <2> QED  BY <2>1, Zenon DEF ReceiverInv
  <1>4. /\ tops \in Seq(Nat \cup {-1}) /\ Len(tops) \in Nat /\ seen = {tops[i] : i \in 1 .. Len(tops)}
        /\ tops # <<>> => Len(tops) \in 1 .. Len(tops)
    BY LenProperties, EmptySeq DEF TypeOK, ToSet
  <1>5. /\ tops = <<>> => p.ts # 0
        /\ Len(tops) = Cardinality(seen) /\ before \subseteq seen
        /\ ahead = {} \/ (/\ p.seq >= SeqBound - MaxOff
                          /\ ahead = {last} /\ last # -1 /\ Timestamp(last) = p.ts)
    BY DEF Timely, Wraps
  <1>6. CASE ahead = {}
    <2>1. remote.roc = q
      <3>1. seen = before
        BY <1>5, <1>6
      <3> QED  BY <1>3, <1>5, <3>1 DEF ReceiverInv
    <2>2. ASSUME p.ts = remote.rts, p.seq >= SeqBound - MaxOff PROVE FALSE
      <3>0. tops # <<>>
        BY <1>5, <2>2 DEF ReceiverInv
      <3>2. last \in seen
        BY <1>4, <3>0
      <3>1. Timestamp(last) = Timestamp(n)
        <4>1. last \in Nat
          BY <1>1, <1>6, <3>2 DEF Wraps
        <4>2. last # -1
          BY <4>1
        <4> QED  BY <1>1, <2>2, <3>0, <4>2 DEF ReceiverInv
      <3>3. last \in Nat /\ last >= First /\ last < n /\ last % SeqBound = SeqBound - 1
        BY <1>1, <1>6, <3>2 DEF Wraps, SequenceOf, Top
      <3>4. n >= last + (SeqBound - MaxOff + 1)
        BY <1>1, <2>2, <3>3, CycleGap
      <3>5. last - First \in Nat /\ n - First \in Nat /\ n - First >= (last - First) + FrameLength
        <4>1. last \in Nat /\ last >= First /\ last < n
          BY <3>3
        <4>2. /\ n \in Nat /\ First \in Nat /\ SeqBound \in Nat /\ FrameLength \in Nat
              /\ MaxOff \in Nat /\ FrameLength <= SeqBound - MaxOff + 1
          BY <1>1
        <4> HIDE DEF last, n
        <4> QED  BY <3>4, <4>1, <4>2
      <3>6. (last - First) \div FrameLength < (n - First) \div FrameLength
        BY <1>1, <3>5, QuotientGrows
      <3>7. (last - First) \div FrameLength \in Nat /\ (n - First) \div FrameLength \in Nat
        BY <1>1, <3>5, DivisionType
      <3> DEFINE x == (last - First) \div FrameLength
                 y == (n - First) \div FrameLength
      <3>8. scenario.ts + x = scenario.ts + y
        BY <3>1 DEF Timestamp
      <3> HIDE DEF x, y
      <3> QED  BY <1>1, <3>6, <3>7, <3>8 DEF x, y
    <2>3. Index(p) = PacketIndex(remote.roc, p.seq)
      BY <2>2 DEF Index
    <2> QED  BY <1>1, <1>2, <2>1, <2>3 DEF PacketIndex
  <1>7. CASE ahead # {}
    <2>1. seen = before \cup {last} /\ last \notin before
      BY <1>5, <1>7
    <2>2. Cardinality(seen) = q + 1
      BY <1>3, <2>1, FS_AddElement
    <2>3. remote.roc - 1 = q /\ tops # <<>>
      <3>1. q \in Nat /\ Len(<<>>) = 0 /\ Len(tops) = Cardinality(seen) /\ remote.roc = Len(tops)
        BY <1>2, <1>5, EmptySeq DEF ReceiverInv
      <3> HIDE DEF q, seen
      <3> QED  BY <2>2, <3>1
    <2>4. p.ts = remote.rts /\ p.seq >= SeqBound - MaxOff
      BY <1>5, <1>7, <2>3 DEF ReceiverInv
    <2>5. Index(p) = PacketIndex(q, p.seq)
      BY <2>3, <2>4 DEF Index
    <2> QED  BY <1>1, <1>2, <2>5 DEF PacketIndex
  <1> QED  BY <1>6, <1>7

LEMMA ReceiverNext == TypeOK /\ PacketsInv /\ ReceiverInv /\ [Next]_vars => ReceiverInv'
  <1> SUFFICES ASSUME TypeOK, PacketsInv, ReceiverInv, [Next]_vars PROVE ReceiverInv'
    OBVIOUS
  <1>1. next \in Nat /\ next >= First /\ First \in Nat
    BY Constants DEF TypeOK
  <1>2. CASE Send
    <2>1. next' = next + 1 /\ UNCHANGED <<remote, tops, scenario>>
      BY <1>2 DEF Send, receiver
    <2>2. ASSUME NEW n \in First .. next'
          PROVE  IsFiniteSet(Wraps(n)) /\ Cardinality(Wraps(n)) = n \div SeqBound
      <3>1. CASE n \in First .. next
        BY <3>1, Zenon DEF ReceiverInv
      <3>2. CASE n = next + 1
        <4>1. next \in First .. next
          BY <1>1
        <4>2. IsFiniteSet(Wraps(next)) /\ Cardinality(Wraps(next)) = next \div SeqBound
          BY <4>1, Zenon DEF ReceiverInv
        <4>3. IsFiniteSet(Wraps(next + 1)) /\ Cardinality(Wraps(next + 1)) = (next + 1) \div SeqBound
          BY <1>1, <4>2, WrapsNext
        <4> QED  BY <3>2, <4>3, Zenon
      <3> QED  BY <1>1, <2>1, <3>1, <3>2
    <2>3. \A i \in 1 .. Len(tops) : tops[i] # -1 =>
             tops[i] \in First .. next' - 1 /\ SequenceOf(tops[i]) = Top
      BY <1>1, <2>1 DEF ReceiverInv
    <2> QED
      BY <2>1, <2>2, <2>3, Zenon DEF ReceiverInv, Timestamp, Wraps, SequenceOf, Top
  <1>3. CASE UNCHANGED <<next, remote, tops, scenario>>
    BY <1>3 DEF ReceiverInv, Timestamp, Wraps, SequenceOf, Top
  <1>4. ASSUME srtp_handler, Decrypt(proc.packet), proc.packet.seq = Top
        PROVE  ReceiverInv'
    <2> DEFINE p == proc.packet
               k == IF p.ssrc = Mine THEN p.n ELSE -1
    <2>1. UNCHANGED <<next, scenario>> /\ proc.at \in Steps /\ p \in Packets
      BY <1>4, Working DEF srtp_handler, At, Steps, Work
    <2>2. p.ssrc = Mine => Genuine(p)
      BY <2>1, Constants DEF PacketsInv, Strange
    <2>3. /\ remote'.roc = remote.roc + 1 /\ remote'.rts = p.ts
          /\ tops' = Append(tops, k)
      BY <1>4 DEF Decrypt, TypeOK
    <2>4. /\ k \in Nat \cup {-1}
          /\ k # -1 => k \in First .. next - 1 /\ SequenceOf(k) = Top /\ p.ts = Timestamp(k)
      BY <1>1, <1>4, <2>1, <2>2 DEF Genuine, Packets
    <2> HIDE DEF k
    <2>5. /\ tops' \in Seq(Nat \cup {-1}) /\ Len(tops') = Len(tops) + 1 /\ Len(tops) \in Nat
          /\ \A i \in 1 .. Len(tops) : tops'[i] = tops[i]
          /\ tops'[Len(tops) + 1] = k
      <3>1. tops \in Seq(Nat \cup {-1}) /\ tops' = Append(tops, k)
        BY <2>3 DEF TypeOK
      <3> QED  BY <2>4, <3>1, AppendProperties, LenProperties
    <2>e. tops' # <<>>
      <3>1. Len(<<>>) = 0
        BY EmptySeq
      <3> QED  BY <2>5, <3>1
    <2>6. ASSUME NEW i \in 1 .. Len(tops'), tops'[i] # -1
          PROVE  tops'[i] \in First .. next - 1 /\ SequenceOf(tops'[i]) = Top
      <3>1. i \in 1 .. Len(tops) \/ i = Len(tops) + 1
        BY <2>5
      <3>2. CASE i \in 1 .. Len(tops)
        BY <2>5, <2>6, <3>2 DEF ReceiverInv
      <3>3. CASE i = Len(tops) + 1
        BY <2>4, <2>5, <2>6, <3>3
      <3> QED  BY <3>1, <3>2, <3>3
    <2>7. remote'.roc = Len(tops')
      BY <2>3, <2>5 DEF ReceiverInv
    <2>8. tops'[Len(tops')] # -1 => remote'.rts = Timestamp(tops'[Len(tops')])
      BY <2>3, <2>4, <2>5
    <2>9. \A n \in First .. next : IsFiniteSet(Wraps(n)) /\ Cardinality(Wraps(n)) = n \div SeqBound
      BY DEF ReceiverInv
    <2> QED
      BY <2>1, <2>e, <2>6, <2>7, <2>8, <2>9, Zenon DEF ReceiverInv, Timestamp, Wraps, SequenceOf, Top
  <1>5. ASSUME srtp_handler, ~(Decrypt(proc.packet) /\ proc.packet.seq = Top)
        PROVE  ReceiverInv'
    <2>1. UNCHANGED <<next, scenario>>
      BY <1>5 DEF srtp_handler
    <2>2. Refuse \/ Pass(proc.packet) \/ (Decrypt(proc.packet) /\ proc.packet.seq # Top)
      BY <1>5 DEF srtp_handler
    <2>3. remote'.roc = remote.roc /\ remote'.rts = remote.rts /\ tops' = tops
      BY <2>2 DEF Refuse, Pass, Decrypt, receiver, TypeOK
    <2> QED  BY <2>1, <2>3 DEF ReceiverInv, Timestamp, Wraps, SequenceOf, Top
  <1>6. ASSUME ~Send, ~srtp_handler PROVE UNCHANGED <<next, remote, tops, scenario>>
    BY <1>6 DEF Next, vars, receiver, Vanish, Receive, ReceiveForeign, Dispatch, install_handler,
                clear_stream_from_flow, rtp_handler, SkipSrtp, SkipStatistics, Skip,
                rtcp_common_handler, NullFrame, DanglingHandlers, SkipMedia, media_handler,
                getter, NothingFetched, pull_frame
  <1> QED  BY <1>2, <1>3, <1>4, <1>5, <1>6

-----------------------------------------------------------------------------
(* What is delivered.                                                      *)

\* What a frame of either stream may be on its way to the application.
Faithful(f) ==
    \/ f.ssrc = Mine /\ f.payload = "plain" /\ f.srtp # "refused"
    \/ f.ssrc = Mine /\ f.payload = "protected" /\ f.srtp = "absent" /\ scenario.zrtp
    \/ f.ssrc = Mine /\ f.srtp = "refused" /\ scenario.rtcp
    \/ f.ssrc = Mine /\ f.payload = "garbled" /\ f.srtp = "untimely"
    \/ f.ssrc = Other

AllFaithful(s) == \A i \in 1 .. Len(s) : Faithful(s[i])

\* The streams share a socket, and none of their hooks is alone.
Separate == scenario.multiplexed /\ Other \in DOMAIN sets /\ hooks # {Mine}

\* A packet passes the SRTP handler only when ZRTP has not installed it; one that is
\* refused is dropped, unless the statistics of RTCP overrule; and a decryption that is
\* timely is right.
PayloadInv ==
    /\ proc.at \in {"rtp", "srtp"} => proc.payload = OnWire(proc.packet) /\ proc.srtp = "none"
    /\ proc.at \in {"stats", "media"} /\ proc.packet.ssrc = Mine =>
           \/ proc.payload = "plain" /\ proc.srtp # "refused"
           \/ proc.payload = "protected" /\ proc.srtp = "absent" /\ scenario.zrtp
           \/ proc.payload = "garbled" /\ proc.srtp = "untimely"
           \/ proc.srtp = "refused" /\ (proc.verdict = "error" \/ scenario.rtcp)

DeliveryInv ==
    /\ PayloadInv
    /\ AllFaithful(ready[Mine]) /\ AllFaithful(ready[Other]) /\ AllFaithful(frames)
    /\ AllFaithful(got)
    /\ Separate => \A i \in 1 .. Len(got) : got[i].ssrc = Mine

LEMMA FaithfulAppend ==
    ASSUME NEW s \in Seq(Frames), NEW f \in Frames, AllFaithful(s), Faithful(f)
    PROVE  AllFaithful(Append(s, f))
  <1> DEFINE t == Append(s, f)
  <1>1. /\ Len(s) \in Nat /\ Len(t) = Len(s) + 1 /\ t[Len(s) + 1] = f
        /\ \A i \in 1 .. Len(s) : t[i] = s[i]
    BY AppendProperties, LenProperties
  <1> HIDE DEF t
  <1>2. ASSUME NEW i \in 1 .. Len(t) PROVE Faithful(t[i])
    <2>1. i \in 1 .. Len(s) \/ i = Len(s) + 1
      BY <1>1
    <2> QED  BY <1>1, <2>1 DEF AllFaithful
  <1> QED  BY <1>2 DEF AllFaithful, t

LEMMA FaithfulTail ==
    ASSUME NEW s \in Seq(Frames), AllFaithful(s), s # <<>>
    PROVE  AllFaithful(Tail(s)) /\ Faithful(Head(s)) /\ Head(s) \in Frames
  <1> DEFINE t == Tail(s)
  <1>1. /\ Len(s) \in Nat \ {0} /\ Len(t) = Len(s) - 1 /\ Head(s) = s[1] /\ Head(s) \in Frames
        /\ \A i \in 1 .. Len(t) : t[i] = s[i + 1]
    BY EmptySeq, HeadTailProperties
  <1> HIDE DEF t
  <1>2. ASSUME NEW i \in 1 .. Len(t) PROVE Faithful(t[i])
    BY <1>1 DEF AllFaithful
  <1> QED  BY <1>1, <1>2 DEF AllFaithful, t

\* An application gets the frames of a stream of its own, one after the other.
LEMMA OwnAppend ==
    ASSUME NEW s \in Seq(Frames), NEW f \in Frames, f.ssrc = Mine,
           \A i \in 1 .. Len(s) : s[i].ssrc = Mine
    PROVE  \A i \in 1 .. Len(Append(s, f)) : Append(s, f)[i].ssrc = Mine
  <1> DEFINE t == Append(s, f)
  <1>1. /\ Len(s) \in Nat /\ Len(t) = Len(s) + 1 /\ t[Len(s) + 1] = f
        /\ \A i \in 1 .. Len(s) : t[i] = s[i]
    BY AppendProperties, LenProperties
  <1> HIDE DEF t
  <1>2. ASSUME NEW i \in 1 .. Len(t) PROVE t[i].ssrc = Mine
    <2>1. i \in 1 .. Len(s) \/ i = Len(s) + 1
      BY <1>1
    <2> QED  BY <1>1, <2>1
  <1> QED  BY <1>2 DEF t

\* A single hook is that of the only element of hooks.
LEMMA HookIsOwn ==
    ASSUME TypeOK, NEW f, Mine \in HookOf(f) PROVE f.ssrc = Mine \/ hooks = {Mine}
  <1>1. CASE Cardinality(hooks) = 1
    <2>1. hooks = {} \/ hooks = {Mine} \/ hooks = {Other} \/ hooks = {Mine, Other}
      <3>1. hooks \subseteq {Mine, Other}
        BY DEF TypeOK
      <3> QED  BY <3>1
    <2>2. Mine \in hooks
      BY <1>1 DEF HookOf
    <2>3. hooks # {Mine, Other}
      <3>1. SUFFICES ASSUME hooks = {Mine, Other} PROVE FALSE
        OBVIOUS
      <3>2. IsFiniteSet({Mine, Other})
        <4>1. {Mine, Other} = {Mine} \cup {Other}
          OBVIOUS
        <4>2. IsFiniteSet({Mine}) /\ IsFiniteSet({Other})
          BY FS_Singleton, Zenon
        <4>3. IsFiniteSet({Mine} \cup {Other})
          BY <4>2, FS_Union, Zenon
        <4> QED  BY <4>1, <4>3, Zenon
      <3>3. ~\E x : {Mine, Other} = {x}
        BY Constants
      <3> QED  BY <1>1, <3>1, <3>2, <3>3, FS_Singleton
    <2> QED  BY <2>1, <2>2, <2>3, Constants
  <1>2. CASE Cardinality(hooks) # 1
    BY <1>2 DEF HookOf
  <1> QED  BY <1>1, <1>2

LEMMA ReturnFaithful ==
    ASSUME TypeOK, DeliveryInv, NEW f \in Frames, Faithful(f), return_frame(f)
    PROVE  /\ AllFaithful(frames') /\ AllFaithful(got')
           /\ Separate => \A i \in 1 .. Len(got') : got'[i].ssrc = Mine
  <1>1. frames \in Seq(Frames) /\ got \in Seq(Frames) /\ AllFaithful(frames) /\ AllFaithful(got)
    BY DEF TypeOK, DeliveryInv
  <1>2. AllFaithful(Append(frames, f)) /\ AllFaithful(Append(got, f))
    BY <1>1, FaithfulAppend
  <1>3. ASSUME Separate PROVE \A i \in 1 .. Len(got') : got'[i].ssrc = Mine
    <2>1. \A i \in 1 .. Len(got) : got[i].ssrc = Mine
      BY <1>3 DEF DeliveryInv
    <2>2. CASE Mine \in HookOf(f)
      <3>1. f.ssrc = Mine /\ got' = Append(got, f)
        BY <1>3, <2>2, HookIsOwn DEF Separate, return_frame
      <3> QED  BY <1>1, <2>1, <3>1, OwnAppend
    <2>3. CASE Mine \notin HookOf(f)
      BY <2>1, <2>3 DEF return_frame
    <2> QED  BY <2>2, <2>3
  <1> QED  BY <1>1, <1>2, <1>3 DEF return_frame

\* The frame of a packet that no handler refused.
LEMMA FrameFaithful ==
    ASSUME TypeOK, DeliveryInv, proc.at = "media", Accepted
    PROVE  Frame \in Frames /\ Faithful(Frame)
  <1>1. proc \in Work /\ Frame \in Frames
    BY Working, FrameType DEF Steps
  <1> QED  BY <1>1 DEF DeliveryInv, PayloadInv, Accepted, Frame, Faithful, Work, Packets

LEMMA DeliveryInit == Init => DeliveryInv
  <1> SUFFICES ASSUME Init PROVE DeliveryInv
    OBVIOUS
  <1>1. /\ ready[Mine] = <<>> /\ ready[Other] = <<>> /\ frames = <<>> /\ got = <<>>
        /\ proc.at \notin Steps
    BY Constants DEF Init, NoPacket, Steps
  <1>2. 1 .. Len(<<>>) = {}
    BY EmptySeq
  <1> QED  BY <1>1, <1>2 DEF DeliveryInv, PayloadInv, AllFaithful, Steps

LEMMA PayloadNext ==
    ASSUME TypeOK, PacketsInv, HandlersInv, ReceiverInv, PayloadInv, [Next]_vars
    PROVE  PayloadInv'
  <1>w. proc.at \in Steps => proc \in Work
    BY Working
  <1>n. scenario' = scenario /\ NoPacket.at \notin Steps /\ Crashed.at \notin Steps
    BY StepsKeep DEF NoPacket, Crashed, Steps
  <1> USE DEF receiver, streams, output
  <1>0. ASSUME proc'.at \notin {"rtp", "srtp", "stats", "media"} PROVE PayloadInv'
    BY <1>0 DEF PayloadInv
  <1>1. CASE UNCHANGED proc
    BY <1>1, <1>n DEF PayloadInv, OnWire
  <1>2. CASE (\E p \in net : Receive(p)) \/ ReceiveForeign
    <2>1. proc'.at = "rtp" /\ proc'.payload = OnWire(proc'.packet) /\ proc'.srtp = "none"
      BY <1>2, Dispatched DEF Receive
    <2> QED  BY <1>n, <2>1 DEF PayloadInv, OnWire
  <1>3. CASE rtp_handler
    <2>1. proc \in Work /\ proc.at = "rtp"
      BY <1>3, <1>w DEF rtp_handler, At, Steps
    <2>2. /\ proc'.at = "srtp" /\ proc'.payload = proc.payload /\ proc'.packet = proc.packet
          /\ proc'.srtp = proc.srtp
      BY <1>3, <2>1 DEF rtp_handler, Work
    <2> QED  BY <1>n, <2>1, <2>2 DEF PayloadInv, OnWire
  <1>4. CASE SkipSrtp
    <2>1. proc \in Work /\ proc.at = "srtp" /\ proc.via \in DOMAIN sets
      BY <1>4, <1>w DEF SkipSrtp, At, Steps
    <2>2. /\ proc'.at = "stats" /\ proc'.payload = OnWire(proc.packet) /\ proc'.packet = proc.packet
          /\ proc'.srtp = IF scenario.srtp THEN "absent" ELSE "none"
      BY <1>4, <2>1 DEF SkipSrtp, Work, PayloadInv
    <2>3. ASSUME proc.packet.ssrc = Mine, OnWire(proc.packet) = "protected"
          PROVE  scenario.srtp /\ scenario.zrtp
      <3>1. proc.via = Mine
        BY <2>1, <2>3, Constants DEF PacketsInv, Strange, Steps
      <3>2. scenario.srtp
        BY <2>3, ScenariosAssumption DEF TypeOK, OnWire
      <3>3. ~scenario.srtp \/ scenario.zrtp
        BY <1>4, <3>1 DEF SkipSrtp, Installed, HandlersInv, All
      <3> QED  BY <3>2, <3>3
    <2>4. OnWire(proc.packet) \in {"plain", "protected"}
      BY DEF OnWire
    <2> QED  BY <1>n, <2>2, <2>3, <2>4 DEF PayloadInv
  <1>5. CASE srtp_handler
    <2> DEFINE p == proc.packet
    <2>1. proc \in Work /\ proc.at = "srtp"
      BY <1>5, <1>w DEF srtp_handler, At, Steps
    <2>2. CASE Refuse
      <3>1. proc'.at = "stats" /\ proc'.verdict = "error" /\ proc'.srtp = "refused"
        BY <2>1, <2>2 DEF Refuse, Work
      <3> QED  BY <3>1 DEF PayloadInv
    <2>3. CASE Decrypt(p) /\ scenario.cipher
      <3>1. /\ proc'.at = "stats" /\ proc'.packet = p
            /\ proc'.srtp = (IF Timely(p) THEN "done" ELSE "untimely")
            /\ p.ssrc = Mine => proc'.payload = IF p.index = Index(p) THEN "plain" ELSE "garbled"
        BY <2>1, <2>3 DEF Decrypt, Work
      <3>2. ASSUME p.ssrc = Mine, Timely(p) PROVE p.index = Index(p)
        <4>1. Genuine(p)
          BY <2>1, <3>2, Constants DEF PacketsInv, Strange, Steps
        <4> QED  BY <2>3, <3>2, <4>1, IndexIsRight
      <3> QED  BY <3>1, <3>2 DEF PayloadInv
    <2>4. CASE Pass(p)
      <3>1. proc'.at = "stats" /\ proc'.payload = "plain" /\ proc'.srtp = "done"
        BY <2>1, <2>4 DEF Pass, Work
      <3> QED  BY <3>1 DEF PayloadInv
    <2> QED  BY <1>5, <2>2, <2>3, <2>4 DEF srtp_handler
  <1>6. CASE SkipStatistics
    <2>1. proc \in Work /\ proc.at = "stats"
      BY <1>6, <1>w DEF SkipStatistics, At, Steps
    <2>2. /\ proc'.at = "media" /\ proc'.payload = proc.payload /\ proc'.packet = proc.packet
          /\ proc'.verdict = proc.verdict /\ proc'.srtp = proc.srtp
      BY <1>6, <2>1 DEF SkipStatistics, Skip, Work
    <2> QED  BY <1>n, <2>1, <2>2 DEF PayloadInv
  <1>7. CASE rtcp_common_handler
    <2>1. proc \in Work /\ proc.at = "stats"
      BY <1>7, <1>w DEF rtcp_common_handler, At, Steps
    <2>2. /\ proc'.at = "media" /\ proc'.payload = proc.payload /\ proc'.packet = proc.packet
          /\ proc'.srtp = proc.srtp
      BY <1>7, <2>1 DEF rtcp_common_handler, Work
    <2>3. ASSUME proc.packet.ssrc = Mine PROVE scenario.rtcp
      <3>1. proc.via = Mine
        BY <2>1, <2>3, Constants DEF PacketsInv, Strange, Steps
      <3> QED  BY <1>7, <3>1 DEF rtcp_common_handler, Installed, HandlersInv
    <2> QED  BY <1>n, <2>1, <2>2, <2>3 DEF PayloadInv
  <1>8. CASE media_handler
    <2>1. proc \in Work
      BY <1>8, <1>w DEF media_handler, At, Steps
    <2>2. proc' = NoPacket \/ proc'.at = "getter"
      BY <1>8, <2>1 DEF media_handler, Work
    <2> QED  BY <1>0, <1>n, <2>2 DEF Steps
  <1>9. CASE NullFrame \/ DanglingHandlers \/ SkipMedia \/ NothingFetched
    <2>1. proc' = NoPacket \/ proc' = Crashed
      BY <1>9 DEF NullFrame, DanglingHandlers, SkipMedia, NothingFetched
    <2> QED  BY <1>0, <1>n, <2>1 DEF Steps
  <1>10. CASE \/ Send \/ (\E p \in net : Vanish(p)) \/ install_handler \/ clear_stream_from_flow
              \/ getter \/ (\E s \in {Mine, Other} : pull_frame(s)) \/ UNCHANGED vars
    BY <1>1, <1>10 DEF Send, Vanish, install_handler, clear_stream_from_flow, getter, pull_frame, vars
  <1> QED
    BY <1>2, <1>3, <1>4, <1>5, <1>6, <1>7, <1>8, <1>9, <1>10 DEF Next

LEMMA DeliveryNext ==
    TypeOK /\ PacketsInv /\ HandlersInv /\ ReceiverInv /\ DeliveryInv /\ [Next]_vars => DeliveryInv'
  <1> SUFFICES ASSUME TypeOK, PacketsInv, HandlersInv, ReceiverInv, DeliveryInv, [Next]_vars
               PROVE  DeliveryInv'
    OBVIOUS
  <1>k. scenario' = scenario /\ DOMAIN sets' \subseteq DOMAIN sets /\ PayloadInv'
    BY StepsKeep, PayloadNext DEF DeliveryInv
  <1>s. Separate' => Separate
    <2>1. CASE Other \in DOMAIN sets'
      <3>1. hooks' = hooks
        BY <2>1 DEF Next, vars, streams, output, Send, Vanish, Receive, ReceiveForeign, Dispatch,
               install_handler, clear_stream_from_flow, rtp_handler, SkipSrtp, SkipStatistics, Skip,
               srtp_handler, rtcp_common_handler, NullFrame, DanglingHandlers, SkipMedia,
               media_handler, getter, NothingFetched, pull_frame
      <3> QED  BY <1>k, <2>1, <3>1 DEF Separate
    <2> QED  BY <2>1 DEF Separate
  <1>t. /\ ready[Mine] \in Seq(Frames) /\ ready[Other] \in Seq(Frames)
        /\ frames \in Seq(Frames) /\ got \in Seq(Frames)
        /\ AllFaithful(ready[Mine]) /\ AllFaithful(ready[Other])
        /\ AllFaithful(frames) /\ AllFaithful(got)
        /\ Separate => \A i \in 1 .. Len(got) : got[i].ssrc = Mine
    BY DEF TypeOK, DeliveryInv
  \* It is enough to look at the next values with the present scenario.
  <1>f. ASSUME AllFaithful(ready'[Mine]), AllFaithful(ready'[Other]), AllFaithful(frames'),
               AllFaithful(got'), Separate => \A i \in 1 .. Len(got') : got'[i].ssrc = Mine
        PROVE  DeliveryInv'
    BY <1>f, <1>k, <1>s DEF DeliveryInv, AllFaithful, Faithful
  <1> USE DEF output
  <1>1. CASE UNCHANGED output
    BY <1>1, <1>f, <1>t
  <1>2. CASE clear_stream_from_flow
    <2>1. ready'[Mine] = ready[Mine] /\ ready'[Other] = <<>> /\ UNCHANGED <<frames, got>>
      BY <1>2, Constants DEF clear_stream_from_flow, TypeOK
    <2>2. AllFaithful(<<>>)
      BY EmptySeq DEF AllFaithful
    <2> QED  BY <1>f, <1>t, <2>1, <2>2
  <1>3. CASE media_handler
    <2>1. Frame \in Frames /\ Faithful(Frame) /\ proc \in Work
      BY <1>3, FrameFaithful, Working DEF media_handler, At, Steps
    <2>2. CASE scenario.getter
      <3> DEFINE v == proc.via
      <3>1. v \in {Mine, Other} /\ ready' = [ready EXCEPT ![v] = Append(ready[v], Frame)]
            /\ UNCHANGED <<frames, got>>
        BY <1>3, <2>1, <2>2 DEF media_handler, Work
      <3> HIDE DEF v
      <3>2. AllFaithful(Append(ready[v], Frame))
        BY <1>t, <2>1, <3>1, FaithfulAppend
      <3>3. AllFaithful(ready'[Mine]) /\ AllFaithful(ready'[Other])
        BY <1>t, <3>1, <3>2 DEF TypeOK
      <3> QED  BY <1>f, <1>t, <3>1, <3>3
    <2>3. CASE ~scenario.getter
      <3>1. return_frame(Frame) /\ ready' = ready
        BY <1>3, <2>3 DEF media_handler
      <3> QED  BY <1>f, <1>t, <2>1, <3>1, ReturnFaithful
    <2> QED  BY <2>2, <2>3
  <1>4. CASE getter
    <2> DEFINE v == proc.via
    <2>1. v \in {Mine, Other} /\ ready[v] # <<>> /\ return_frame(Head(ready[v]))
          /\ ready' = [ready EXCEPT ![v] = Tail(ready[v])]
      BY <1>4, Working DEF getter, Fetched, At, Steps, Work
    <2> HIDE DEF v
    <2>2. /\ AllFaithful(Tail(ready[v])) /\ Faithful(Head(ready[v])) /\ Head(ready[v]) \in Frames
      BY <1>t, <2>1, FaithfulTail
    <2>3. AllFaithful(ready'[Mine]) /\ AllFaithful(ready'[Other])
      BY <1>t, <2>1, <2>2 DEF TypeOK
    <2> QED  BY <1>f, <2>1, <2>2, <2>3, ReturnFaithful
  <1>5. ASSUME NEW s \in {Mine, Other}, pull_frame(s) PROVE DeliveryInv'
    <2>1. /\ frames # <<>> /\ frames' = Tail(frames) /\ ready' = ready
          /\ scenario.multiplexed => Head(frames).ssrc = s
          /\ got' = IF s = Mine THEN Append(got, Head(frames)) ELSE got
      BY <1>5 DEF pull_frame
    <2>2. /\ AllFaithful(Tail(frames)) /\ Faithful(Head(frames)) /\ Head(frames) \in Frames
      BY <1>t, <2>1, FaithfulTail
    <2>3. CASE s = Mine
      <3>1. AllFaithful(Append(got, Head(frames)))
        BY <1>t, <2>2, FaithfulAppend
      <3>2. ASSUME Separate
            PROVE  \A i \in 1 .. Len(Append(got, Head(frames))) : Append(got, Head(frames))[i].ssrc = Mine
        BY <1>t, <2>1, <2>2, <2>3, <3>2, OwnAppend DEF Separate
      <3> QED  BY <1>f, <1>t, <2>1, <2>2, <2>3, <3>1, <3>2
    <2>4. CASE s # Mine
      BY <1>f, <1>t, <2>1, <2>2, <2>4
    <2> QED  BY <2>3, <2>4
  <1>6. CASE \/ Send \/ (\E p \in net : Vanish(p) \/ Receive(p)) \/ ReceiveForeign \/ install_handler
             \/ rtp_handler \/ SkipSrtp \/ srtp_handler \/ SkipStatistics \/ rtcp_common_handler
             \/ NullFrame \/ DanglingHandlers \/ SkipMedia \/ NothingFetched \/ UNCHANGED vars
    BY <1>1, <1>6 DEF Send, Vanish, Receive, ReceiveForeign, Dispatch, install_handler, rtp_handler,
               SkipSrtp, Skip, srtp_handler, SkipStatistics, rtcp_common_handler, NullFrame,
               DanglingHandlers, SkipMedia, NothingFetched, vars
  <1> QED  BY <1>2, <1>3, <1>4, <1>5, <1>6 DEF Next

\* With any features, any loss, doubling and reordering of packets, packets of another
\* peer, and handlers that come and go: a frame that an application receives is not as it
\* was sent, or was refused by SRTP, only in the four cases of DeliveredAsSent.
THEOREM FramesArriveAsSent == Spec => []DeliveredAsSent
  <1>1. TypeOK /\ DeliveryInv => DeliveredAsSent
    <2> SUFFICES ASSUME TypeOK, DeliveryInv, NEW i \in DOMAIN got
                 PROVE  \/ Faithful(got[i]) /\ got[i].ssrc = Mine
                        \/ got[i].ssrc = Other /\ ~Separate
      BY Constants DEF DeliveredAsSent, Separate, Faithful
    <2>1. i \in 1 .. Len(got)
      BY LenProperties DEF TypeOK
    <2> QED  BY <2>1, Constants DEF DeliveryInv, AllFaithful, Faithful
  <1> QED
    BY <1>1, TypesInit, TypesNext, PacketsInit, PacketsNext, HandlersInit, HandlersNext,
       ReceiverInit, ReceiverNext, DeliveryInit, DeliveryNext, PTL DEF Spec

-----------------------------------------------------------------------------
(* The secure channel.                                                     *)

\* The numbers of the packets of the protected stream among frames.
Own(s) == {s[i].n : i \in {j \in 1 .. Len(s) : s[j].ssrc = Mine}}

\* No two frames are of the same packet.
Once(s) == \A i, j \in 1 .. Len(s) :
    s[i].ssrc = Mine /\ s[j].ssrc = Mine /\ s[i].n = s[j].n => i = j

Plain(f) == f.ssrc = Mine => f.payload = "plain"
AllPlain(s) == \A i \in 1 .. Len(s) : Plain(s[i])
AllOf(s, ssrc) == \A i \in 1 .. Len(s) : s[i].ssrc = ssrc

NumberOf(f) == IF f.ssrc = Mine THEN {f.n} ELSE {}

\* The packet that the SRTP handler has let through to the media handler.
Pending ==
    IF proc.at \in {"stats", "media"} /\ proc.packet.ssrc = Mine /\ proc.verdict # "error"
    THEN {proc.packet.n} ELSE {}

Noted == {n \in First .. next - 1 : <<n, TagOf(n)>> \in remote.seen}

Numbers(g, q, r) == Own(g) \cup Own(q) \cup Own(r)

\* What the application received, what waits in the queue and what waits in the media
\* handler: as it was sent, and every packet in one place and once.
Sorted(g, q, r) ==
    /\ Once(g) /\ Once(q) /\ Once(r)
    /\ Own(g) \cap Own(q) = {} /\ Own(g) \cap Own(r) = {} /\ Own(q) \cap Own(r) = {}
    /\ AllPlain(g) /\ AllPlain(q) /\ AllPlain(r)
    /\ AllOf(g, Mine) /\ AllOf(r, Mine) /\ (scenario.multiplexed \/ AllOf(q, Mine))

\* The packet in which the sequence number wraps is refused, its tag is of the next
\* cycle: the receiver stays in the first one.  Every packet that it lets through is
\* noted first, and is then in one place only.  What others send is refused, or it is
\* handled by another stream and returned to that.
SecuredInv == Secured =>
    /\ tops = <<>>
    /\ Sorted(got, frames, ready[Mine]) /\ AllOf(ready[Other], Other)
    /\ Numbers(got, frames, ready[Mine]) \cup Pending \subseteq Noted
    /\ Pending \cap Numbers(got, frames, ready[Mine]) = {}
    /\ proc.at \in {"stats", "media"} /\ proc.verdict # "error" =>
           IF proc.via = Mine THEN proc.packet.ssrc = Mine /\ proc.payload = "plain"
                              ELSE proc.packet.ssrc = Other

LEMMA OwnGrows ==
    ASSUME NEW s \in Seq(Frames), NEW f \in Frames
    PROVE  /\ Own(Append(s, f)) = Own(s) \cup NumberOf(f)
           /\ Once(s) /\ NumberOf(f) \cap Own(s) = {} => Once(Append(s, f))
           /\ AllPlain(s) /\ Plain(f) => AllPlain(Append(s, f))
           /\ \A ssrc : AllOf(s, ssrc) /\ f.ssrc = ssrc => AllOf(Append(s, f), ssrc)
  <1> DEFINE t == Append(s, f)
  <1>1. /\ Len(s) \in Nat /\ Len(t) = Len(s) + 1 /\ t[Len(s) + 1] = f
        /\ \A i \in 1 .. Len(s) : t[i] = s[i]
    BY AppendProperties, LenProperties
  <1> HIDE DEF t
  <1>2. \A i \in 1 .. Len(t) : i \in 1 .. Len(s) \/ i = Len(s) + 1
    BY <1>1
  <1>3. Len(s) + 1 \in 1 .. Len(t) /\ \A i \in 1 .. Len(s) : i \in 1 .. Len(t)
    BY <1>1
  <1>4. Own(t) = Own(s) \cup NumberOf(f)
    <2>1. ASSUME NEW n \in Own(t) PROVE n \in Own(s) \cup NumberOf(f)
      BY <1>1, <1>2, <2>1 DEF Own, NumberOf
    <2>2. ASSUME NEW n \in Own(s) PROVE n \in Own(t)
      <3>1. PICK i \in 1 .. Len(s) : s[i].ssrc = Mine /\ n = s[i].n
        BY <2>2 DEF Own
      <3>2. i \in 1 .. Len(t) /\ t[i] = s[i]
        BY <1>1, <1>3, <3>1
      <3> QED  BY <3>1, <3>2 DEF Own
    <2>3. ASSUME NEW n \in NumberOf(f) PROVE n \in Own(t)
      <3>1. f.ssrc = Mine /\ n = f.n
        BY <2>3 DEF NumberOf
      <3> QED  BY <1>1, <1>3, <3>1 DEF Own
    <2> QED  BY <2>1, <2>2, <2>3
  <1>5. ASSUME Once(s), NumberOf(f) \cap Own(s) = {} PROVE Once(t)
    <2>1. \A i \in 1 .. Len(s) : f.ssrc = Mine /\ s[i].ssrc = Mine => s[i].n # f.n
      BY <1>5 DEF Own, NumberOf
    <2> SUFFICES ASSUME NEW i \in 1 .. Len(t), NEW j \in 1 .. Len(t),
                        t[i].ssrc = Mine, t[j].ssrc = Mine, t[i].n = t[j].n
                 PROVE  i = j
      BY DEF Once
    <2> QED  BY <1>1, <1>2, <1>5, <2>1 DEF Once
  <1>6. AllPlain(s) /\ Plain(f) => AllPlain(t)
    BY <1>1, <1>2 DEF AllPlain
  <1>7. ASSUME NEW ssrc, AllOf(s, ssrc), f.ssrc = ssrc PROVE AllOf(t, ssrc)
    BY <1>1, <1>2, <1>7 DEF AllOf
  <1> QED  BY <1>4, <1>5, <1>6, <1>7 DEF t

LEMMA OwnShrinks ==
    ASSUME NEW s \in Seq(Frames), s # <<>>
    PROVE  /\ Own(s) = Own(Tail(s)) \cup NumberOf(Head(s))
           /\ Once(s) => Once(Tail(s)) /\ NumberOf(Head(s)) \cap Own(Tail(s)) = {}
           /\ AllPlain(s) => AllPlain(Tail(s)) /\ Plain(Head(s))
           /\ \A ssrc : AllOf(s, ssrc) => AllOf(Tail(s), ssrc) /\ Head(s).ssrc = ssrc
           /\ Head(s) \in Frames /\ Tail(s) \in Seq(Frames)
  <1> DEFINE t == Tail(s)
             h == Head(s)
  <1>1. /\ Len(s) \in Nat \ {0} /\ Len(t) = Len(s) - 1 /\ h = s[1] /\ h \in Frames
        /\ t \in Seq(Frames) /\ \A i \in 1 .. Len(t) : t[i] = s[i + 1]
    BY EmptySeq, HeadTailProperties
  <1> HIDE DEF t, h
  <1>2. \A i \in 1 .. Len(s) : i = 1 \/ (i - 1 \in 1 .. Len(t) /\ t[i - 1] = s[i])
    BY <1>1
  <1>3. 1 \in 1 .. Len(s) /\ \A i \in 1 .. Len(t) : i + 1 \in 1 .. Len(s)
    BY <1>1
  <1>4. Own(s) = Own(t) \cup NumberOf(h)
    <2>1. ASSUME NEW n \in Own(s) PROVE n \in Own(t) \cup NumberOf(h)
      <3>1. PICK i \in 1 .. Len(s) : s[i].ssrc = Mine /\ n = s[i].n
        BY <2>1 DEF Own
      <3>2. CASE i = 1
        BY <1>1, <3>1, <3>2 DEF NumberOf
      <3>3. CASE i # 1
        <4>1. i - 1 \in 1 .. Len(t) /\ t[i - 1] = s[i]
          BY <1>2, <3>3
        <4> QED  BY <3>1, <4>1 DEF Own
      <3> QED  BY <3>2, <3>3
    <2>2. ASSUME NEW n \in Own(t) PROVE n \in Own(s)
      <3>1. PICK i \in 1 .. Len(t) : t[i].ssrc = Mine /\ n = t[i].n
        BY <2>2 DEF Own
      <3>2. i + 1 \in 1 .. Len(s) /\ t[i] = s[i + 1]
        BY <1>1, <1>3
      <3> QED  BY <3>1, <3>2 DEF Own
    <2>3. ASSUME NEW n \in NumberOf(h) PROVE n \in Own(s)
      <3>1. h.ssrc = Mine /\ n = h.n
        BY <2>3 DEF NumberOf
      <3> QED  BY <1>1, <1>3, <3>1 DEF Own
    <2> QED  BY <2>1, <2>2, <2>3
  <1>5. ASSUME Once(s) PROVE Once(t) /\ NumberOf(h) \cap Own(t) = {}
    <2>1. ASSUME NEW i \in 1 .. Len(t), NEW j \in 1 .. Len(t),
                 t[i].ssrc = Mine, t[j].ssrc = Mine, t[i].n = t[j].n
          PROVE  i = j
      <3>1. i + 1 \in 1 .. Len(s) /\ j + 1 \in 1 .. Len(s) /\ t[i] = s[i + 1] /\ t[j] = s[j + 1]
        BY <1>1, <1>3
      <3>2. i + 1 = j + 1
        BY <1>5, <2>1, <3>1 DEF Once
      <3> QED  BY <3>2
    <2>2. ASSUME NEW i \in 1 .. Len(t), t[i].ssrc = Mine, h.ssrc = Mine, t[i].n = h.n PROVE FALSE
      <3>1. i + 1 \in 1 .. Len(s) /\ t[i] = s[i + 1]
        BY <1>1, <1>3
      <3>2. i + 1 = 1
        BY <1>1, <1>3, <1>5, <2>2, <3>1 DEF Once
      <3> QED  BY <3>2
    <2>3. NumberOf(h) \cap Own(t) = {}
      BY <2>2 DEF NumberOf, Own
    <2> QED  BY <2>1, <2>3 DEF Once
  <1>6. AllPlain(s) => AllPlain(t) /\ Plain(h)
    BY <1>1, <1>3 DEF AllPlain
  <1>7. ASSUME NEW ssrc, AllOf(s, ssrc) PROVE AllOf(t, ssrc) /\ h.ssrc = ssrc
    BY <1>1, <1>3, <1>7 DEF AllOf
  <1> QED  BY <1>1, <1>4, <1>5, <1>6, <1>7 DEF t, h

\* A frame that is nowhere yet goes to the application, the queue or the media handler;
\* one leaves the queue or the media handler.
LEMMA SortedGrows ==
    ASSUME NEW g \in Seq(Frames), NEW q \in Seq(Frames), NEW r \in Seq(Frames), NEW f \in Frames,
           Sorted(g, q, r), Plain(f), NumberOf(f) \cap Numbers(g, q, r) = {}
    PROVE  /\ f.ssrc = Mine => /\ Sorted(Append(g, f), q, r)
                               /\ Numbers(Append(g, f), q, r) = Numbers(g, q, r) \cup NumberOf(f)
                               /\ Sorted(g, q, Append(r, f))
                               /\ Numbers(g, q, Append(r, f)) = Numbers(g, q, r) \cup NumberOf(f)
           /\ f.ssrc = Mine \/ scenario.multiplexed =>
                 /\ Sorted(g, Append(q, f), r)
                 /\ Numbers(g, Append(q, f), r) = Numbers(g, q, r) \cup NumberOf(f)
  <1>1. ASSUME NEW s \in Seq(Frames), Once(s), AllPlain(s), NumberOf(f) \cap Own(s) = {}
        PROVE  /\ Own(Append(s, f)) = Own(s) \cup NumberOf(f) /\ Once(Append(s, f)) /\ AllPlain(Append(s, f))
               /\ f.ssrc = Mine /\ AllOf(s, Mine) => AllOf(Append(s, f), Mine)
    BY <1>1, OwnGrows
  <1>2. /\ NumberOf(f) \cap Own(g) = {} /\ NumberOf(f) \cap Own(q) = {} /\ NumberOf(f) \cap Own(r) = {}
    BY DEF Numbers
  <1>3. ASSUME f.ssrc = Mine
        PROVE  /\ Sorted(Append(g, f), q, r)
               /\ Numbers(Append(g, f), q, r) = Numbers(g, q, r) \cup NumberOf(f)
               /\ Sorted(g, q, Append(r, f))
               /\ Numbers(g, q, Append(r, f)) = Numbers(g, q, r) \cup NumberOf(f)
    <2>1. Sorted(Append(g, f), q, r) /\ Numbers(Append(g, f), q, r) = Numbers(g, q, r) \cup NumberOf(f)
      <3>1. /\ Own(Append(g, f)) = Own(g) \cup NumberOf(f) /\ Once(Append(g, f))
            /\ AllPlain(Append(g, f)) /\ AllOf(Append(g, f), Mine)
        BY <1>1, <1>2, <1>3 DEF Sorted
      <3> QED  BY <1>2, <3>1 DEF Sorted, Numbers
    <2>2. Sorted(g, q, Append(r, f)) /\ Numbers(g, q, Append(r, f)) = Numbers(g, q, r) \cup NumberOf(f)
      <3>1. /\ Own(Append(r, f)) = Own(r) \cup NumberOf(f) /\ Once(Append(r, f))
            /\ AllPlain(Append(r, f)) /\ AllOf(Append(r, f), Mine)
        BY <1>1, <1>2, <1>3 DEF Sorted
      <3> QED  BY <1>2, <3>1 DEF Sorted, Numbers
    <2> QED  BY <2>1, <2>2
  <1>4. ASSUME f.ssrc = Mine \/ scenario.multiplexed
        PROVE  /\ Sorted(g, Append(q, f), r)
               /\ Numbers(g, Append(q, f), r) = Numbers(g, q, r) \cup NumberOf(f)
    <2>1. /\ Own(Append(q, f)) = Own(q) \cup NumberOf(f) /\ Once(Append(q, f))
          /\ AllPlain(Append(q, f)) /\ (scenario.multiplexed \/ AllOf(Append(q, f), Mine))
      BY <1>1, <1>2, <1>4 DEF Sorted
    <2> QED  BY <1>2, <2>1 DEF Sorted, Numbers
  <1> QED  BY <1>3, <1>4

LEMMA SortedShrinks ==
    ASSUME NEW g \in Seq(Frames), NEW q \in Seq(Frames), NEW r \in Seq(Frames), Sorted(g, q, r)
    PROVE  /\ q # <<>> => /\ Sorted(g, Tail(q), r) /\ Plain(Head(q))
                          /\ Numbers(g, q, r) = Numbers(g, Tail(q), r) \cup NumberOf(Head(q))
                          /\ NumberOf(Head(q)) \cap Numbers(g, Tail(q), r) = {}
                          /\ scenario.multiplexed \/ Head(q).ssrc = Mine
           /\ r # <<>> => /\ Sorted(g, q, Tail(r)) /\ Plain(Head(r)) /\ Head(r).ssrc = Mine
                          /\ Numbers(g, q, r) = Numbers(g, q, Tail(r)) \cup NumberOf(Head(r))
                          /\ NumberOf(Head(r)) \cap Numbers(g, q, Tail(r)) = {}
  <1>1. ASSUME q # <<>>
        PROVE  /\ Sorted(g, Tail(q), r) /\ Plain(Head(q))
               /\ Numbers(g, q, r) = Numbers(g, Tail(q), r) \cup NumberOf(Head(q))
               /\ NumberOf(Head(q)) \cap Numbers(g, Tail(q), r) = {}
               /\ scenario.multiplexed \/ Head(q).ssrc = Mine
    <2>1. /\ Own(q) = Own(Tail(q)) \cup NumberOf(Head(q)) /\ Once(Tail(q))
          /\ NumberOf(Head(q)) \cap Own(Tail(q)) = {} /\ AllPlain(Tail(q)) /\ Plain(Head(q))
          /\ scenario.multiplexed \/ (AllOf(Tail(q), Mine) /\ Head(q).ssrc = Mine)
      BY <1>1, OwnShrinks DEF Sorted
    <2> QED  BY <2>1 DEF Sorted, Numbers
  <1>2. ASSUME r # <<>>
        PROVE  /\ Sorted(g, q, Tail(r)) /\ Plain(Head(r)) /\ Head(r).ssrc = Mine
               /\ Numbers(g, q, r) = Numbers(g, q, Tail(r)) \cup NumberOf(Head(r))
               /\ NumberOf(Head(r)) \cap Numbers(g, q, Tail(r)) = {}
    <2>1. /\ Own(r) = Own(Tail(r)) \cup NumberOf(Head(r)) /\ Once(Tail(r))
          /\ NumberOf(Head(r)) \cap Own(Tail(r)) = {} /\ AllPlain(Tail(r)) /\ Plain(Head(r))
          /\ AllOf(Tail(r), Mine) /\ Head(r).ssrc = Mine
      BY <1>2, OwnShrinks DEF Sorted
    <2> QED  BY <2>1 DEF Sorted, Numbers
  <1> QED  BY <1>1, <1>2

\* return_frame() of a frame that is nowhere yet, in the hands of a handler of its own
\* stream.
LEMMA ReturnSorted ==
    ASSUME TypeOK, HandlersInv, Secured, NEW r \in Seq(Frames), NEW f \in Frames,
           Sorted(got, frames, r), Plain(f), NumberOf(f) \cap Numbers(got, frames, r) = {},
           f.ssrc = Mine \/ Other \in DOMAIN sets, return_frame(f)
    PROVE  /\ Sorted(got', frames', r)
           /\ Numbers(got', frames', r) \subseteq Numbers(got, frames, r) \cup NumberOf(f)
  <1>1. got \in Seq(Frames) /\ frames \in Seq(Frames)
    BY DEF TypeOK
  <1>2. Other \in DOMAIN sets => scenario.multiplexed /\ hooks # {Mine}
    BY DEF HandlersInv, Secured
  <1>3. CASE Mine \in HookOf(f)
    <2>1. got' = Append(got, f) /\ frames' = frames /\ f.ssrc = Mine
      BY <1>2, <1>3, HookIsOwn DEF return_frame
    <2> QED  BY <1>1, <2>1, SortedGrows
  <1>4. CASE HookOf(f) = {}
    <2>1. got' = got /\ frames' = Append(frames, f)
      BY <1>4 DEF return_frame
    <2> QED  BY <1>1, <1>2, <2>1, SortedGrows
  <1>5. CASE Mine \notin HookOf(f) /\ HookOf(f) # {}
    BY <1>5 DEF return_frame
  <1> QED  BY <1>3, <1>4, <1>5

\* The replay list and the numbers only grow.
LEMMA NotedGrows ==
    ASSUME TypeOK, [Next]_vars PROVE Noted \subseteq Noted'
  <1>1. scenario' = scenario /\ next \in Nat /\ next' \in Nat /\ next <= next' /\ First \in Nat
    BY StepsKeep, Constants
  <1>2. remote.seen \subseteq remote'.seen
    <2>1. CASE srtp_handler
      <3> DEFINE more == remote.seen \cup {<<proc.packet.n, proc.packet.tag>>}
      <3>1. Refuse \/ Decrypt(proc.packet) \/ Pass(proc.packet)
        BY <2>1 DEF srtp_handler
      <3>2. \/ remote' = remote
            \/ remote'.seen = IF scenario.replay THEN more ELSE remote.seen
        BY <3>1 DEF Refuse, Decrypt, Pass, receiver, TypeOK
      <3> QED  BY <3>2
    <2>2. CASE ~srtp_handler
      <3>1. remote' = remote
        BY <2>2 DEF Next, vars, receiver, Send, Vanish, Receive, ReceiveForeign, Dispatch,
               install_handler, clear_stream_from_flow, rtp_handler, SkipSrtp, SkipStatistics, Skip,
               rtcp_common_handler, NullFrame, DanglingHandlers, SkipMedia,
               media_handler, getter, NothingFetched, pull_frame
      <3> QED  BY <3>1
    <2> QED  BY <2>1, <2>2
  <1> QED  BY <1>1, <1>2 DEF Noted, TagOf

LEMMA SecuredInit == Init => SecuredInv
  <1> SUFFICES ASSUME Init PROVE SecuredInv
    OBVIOUS
  <1>1. /\ ready[Mine] = <<>> /\ ready[Other] = <<>> /\ frames = <<>> /\ got = <<>> /\ tops = <<>>
        /\ proc.at \notin Steps
    BY Constants DEF Init, NoPacket, Steps
  <1>2. 1 .. Len(<<>>) = {}
    BY EmptySeq
  <1>3. /\ Own(<<>>) = {} /\ Once(<<>>) /\ AllPlain(<<>>) /\ AllOf(<<>>, Mine) /\ AllOf(<<>>, Other)
    BY <1>2 DEF Own, Once, AllPlain, AllOf
  <1>4. Pending = {}
    BY <1>1 DEF Pending, Steps
  <1> QED  BY <1>1, <1>3, <1>4 DEF SecuredInv, Sorted, Numbers, Steps

\* What authentication lets through is a packet of the first cycle that was not noted,
\* and it is decrypted with the index it was encrypted with (srtp.cc:67-84, 95-113).
LEMMA LetThrough ==
    ASSUME TypeOK, PacketsInv, HandlersInv, ReceiverInv, PayloadInv, Secured, tops = <<>>,
           srtp_handler, ~Refuse
    PROVE  /\ tops' = <<>> /\ proc'.packet = proc.packet /\ proc'.via = Mine /\ proc'.at = "stats"
           /\ proc.packet.ssrc = Mine /\ proc'.payload = "plain"
           /\ proc.packet.n \in First .. next - 1 /\ proc.packet.n \notin Noted
           /\ <<proc.packet.n, TagOf(proc.packet.n)>> \in remote'.seen
  <1> DEFINE p == proc.packet
             n == p.n
  <1>1. /\ proc \in Work /\ proc.at = "srtp" /\ proc.via \in DOMAIN sets /\ Installed("srtp")
        /\ Authentic(p) /\ (IF scenario.cipher THEN Decrypt(p) ELSE Pass(p))
    BY Working DEF srtp_handler, At, Steps, Secured
  <1>2. Genuine(p) /\ proc.via = Mine
    BY <1>1, Constants DEF PacketsInv, Steps, Authentic, Strange
  <1>3. /\ p.tag = TagOf(n) /\ n \in First .. next - 1 /\ p.seq = SequenceOf(n) /\ p.ts = Timestamp(n)
        /\ p.index = (IF scenario.cipher THEN n ELSE -1) /\ p.ssrc = Mine
    BY <1>2 DEF Genuine
  <1>4. remote.roc = 0 /\ p.tag = 0 /\ remote.rts = 0
    <2>1. Len(<<>>) = 0
      BY EmptySeq
    <2> QED  BY <1>1, <2>1 DEF ReceiverInv, Authentic
  <1>5. <<n, TagOf(n)>> \notin remote.seen
    BY <1>1, <1>3 DEF Authentic, is_replayed_packet, Secured
  <1>6. CASE scenario.cipher
    <2>1. n \in Nat /\ SeqBound \in Nat \ {0} /\ (n + 1) \div SeqBound = 0
      <3>1. TagOf(n) = 0
        BY <1>3, <1>4
      <3>2. TagOf(n) = (n + 1) \div SeqBound
        BY <1>6 DEF TagOf
      <3>3. n \in Nat
        <4> HIDE DEF n
        <4> QED  BY <1>3, Constants DEF TypeOK
      <3> QED  BY <3>1, <3>2, <3>3, Constants
    <2>2. (n + 1) \div SeqBound = IF n % SeqBound = SeqBound - 1 THEN (n \div SeqBound) + 1
                                                                  ELSE n \div SeqBound
      BY <2>1, NextCycle
    <2>3. /\ n \div SeqBound \in Nat /\ n % SeqBound \in 0 .. SeqBound - 1
          /\ (n \div SeqBound) * SeqBound + (n % SeqBound) = n
      BY <2>1, Division
    <2> DEFINE q == n \div SeqBound
               r == n % SeqBound
    <2>4. q = 0 /\ r # SeqBound - 1 /\ r = n
      <3>1. q \in Nat /\ r \in 0 .. SeqBound - 1 /\ q * SeqBound + r = n
            /\ 0 = IF r = SeqBound - 1 THEN q + 1 ELSE q
        BY <2>1, <2>2, <2>3, Zenon
      <3> HIDE DEF q, r, n
      <3>2. q = 0 /\ r # SeqBound - 1
        BY <2>1, <3>1
      <3>3. 0 * SeqBound = 0
        BY <2>1
      <3> QED  BY <2>1, <3>1, <3>2, <3>3
    <2>5. p.seq # Top /\ p.seq = n
      BY <1>3, <2>4 DEF SequenceOf, Top
    <2>6. p.ts # 0
      <3>1. n - First \in Nat /\ FrameLength \in Nat \ {0} /\ scenario.ts \in Nat /\ scenario.ts > 0
        <4>1. scenario.ts \in Nat
          BY ScenariosAssumption DEF TypeOK, Features
        <4>2. scenario.ts > 0
          BY DEF Secured
        <4> QED  BY <1>3, <2>1, <4>1, <4>2, Constants
      <3>2. (n - First) \div FrameLength \in Nat
        BY <3>1, DivisionType
      <3> QED  BY <1>3, <3>1, <3>2 DEF Timestamp
    <2>7. Index(p) = n
      BY <1>4, <2>1, <2>5, <2>6, Constants DEF Index, PacketIndex
    <2>8. Decrypt(p)
      BY <1>1, <1>6
    <2>9. tops' = <<>> /\ <<n, TagOf(n)>> \in remote'.seen
      BY <1>3, <2>5, <2>8 DEF Decrypt, Secured, TypeOK
    <2>10. /\ proc'.packet = p /\ proc'.via = Mine /\ proc'.at = "stats" /\ proc'.payload = "plain"
      BY <1>1, <1>2, <1>3, <1>6, <2>7, <2>8 DEF Decrypt, Work
    <2> QED  BY <1>3, <1>5, <2>9, <2>10 DEF Noted
  <1>7. CASE ~scenario.cipher
    <2>1. Pass(p)
      BY <1>1, <1>7
    <2>2. tops' = <<>> /\ <<n, TagOf(n)>> \in remote'.seen
      BY <1>3, <2>1 DEF Pass, Secured, TypeOK
    <2>4. /\ proc'.packet = p /\ proc'.via = Mine /\ proc'.at = "stats" /\ proc'.payload = "plain"
      BY <1>1, <1>2, <2>1 DEF Pass, Work
    <2> QED  BY <1>3, <1>5, <2>2, <2>4 DEF Noted
  <1> QED  BY <1>6, <1>7

LEMMA SecuredNext ==
    /\ TypeOK /\ PacketsInv /\ HandlersInv /\ ReceiverInv /\ DeliveryInv /\ SecuredInv
    /\ [Next]_vars
    => SecuredInv'
  <1> SUFFICES ASSUME TypeOK, PacketsInv, HandlersInv, ReceiverInv, DeliveryInv, SecuredInv,
                      [Next]_vars, Secured
               PROVE  SecuredInv'
    BY StepsKeep DEF SecuredInv, Secured
  <1>w. proc.at \in Steps => proc \in Work
    BY Working
  <1>n. /\ scenario' = scenario /\ NoPacket.at \notin Steps /\ Crashed.at \notin Steps
        /\ Mine # Other /\ Noted \subseteq Noted'
    BY StepsKeep, NotedGrows, Constants DEF NoPacket, Crashed, Steps
  <1>t. /\ ready[Mine] \in Seq(Frames) /\ ready[Other] \in Seq(Frames)
        /\ frames \in Seq(Frames) /\ got \in Seq(Frames)
    BY DEF TypeOK
  <1> DEFINE r == ready[Mine]
             PayloadKept == proc.at \in {"stats", "media"} /\ proc.verdict # "error" =>
                   IF proc.via = Mine THEN proc.packet.ssrc = Mine /\ proc.payload = "plain"
                                      ELSE proc.packet.ssrc = Other
  <1>i. /\ tops = <<>> /\ Sorted(got, frames, r) /\ AllOf(ready[Other], Other)
        /\ Numbers(got, frames, r) \cup Pending \subseteq Noted
        /\ Pending \cap Numbers(got, frames, r) = {} /\ PayloadKept
    BY DEF SecuredInv
  \* It is enough to look at the next values with the present scenario.
  <1>f. ASSUME tops' = <<>>, Sorted(got', frames', ready'[Mine]), AllOf(ready'[Other], Other),
               Numbers(got', frames', ready'[Mine]) \cup Pending' \subseteq Noted',
               Pending' \cap Numbers(got', frames', ready'[Mine]) = {}, PayloadKept'
        PROVE  SecuredInv'
    BY <1>f, <1>n DEF SecuredInv, Sorted
  <1> USE DEF output, receiver, streams
  \* The handlers are all in place.
  <1>h. /\ todo = <<>> /\ "rtcp_common" \notin All /\ scenario.srtp
        /\ \A s \in DOMAIN sets : sets[s] = IF s = Mine THEN All ELSE All \ {"srtp"}
    <2>1. scenario.srtp
      BY ScenariosAssumption DEF TypeOK, Secured
    <2>2. DOMAIN sets \subseteq {Mine, Other}
      BY Working
    <2> QED  BY <2>1, <2>2 DEF HandlersInv, All, Secured
  <1>v. proc.at \in Steps /\ proc.via \in DOMAIN sets =>
           \/ proc.via = Mine
           \/ proc.via = Other /\ proc.packet.ssrc = Other /\ Other \in DOMAIN sets
    BY Working DEF PacketsInv, Strange
  \* Steps that change only what the processor has in its hands, or nothing.
  <1>p. ASSUME UNCHANGED <<tops, output>>, Pending' \subseteq Pending, PayloadKept' PROVE SecuredInv'
    BY <1>p, <1>f, <1>i, <1>n
  <1>q. ASSUME UNCHANGED <<tops, output>>, proc'.at \notin {"stats", "media"} PROVE SecuredInv'
    BY <1>q, <1>p DEF Pending
  <1>1. CASE rtp_handler
    <2>1. proc \in Work
      BY <1>1, <1>w DEF rtp_handler, At, Steps
    <2> QED  BY <1>1, <1>q, <2>1 DEF rtp_handler, Work
  <1>2. CASE SkipSrtp
    <2>1. proc \in Work /\ proc.at \in Steps /\ proc.via \in DOMAIN sets
      BY <1>2, <1>w DEF SkipSrtp, At, Steps
    <2>2. proc.via = Other /\ proc.packet.ssrc = Other
      BY <1>2, <1>h, <1>v, <2>1 DEF SkipSrtp, Installed, All
    <2>3. proc'.via = Other /\ proc'.packet.ssrc = Other
      BY <1>2, <2>1, <2>2 DEF SkipSrtp, Skip, Work
    <2> QED  BY <1>2, <1>n, <1>p, <2>3 DEF SkipSrtp, Skip, Pending
  <1>3. CASE srtp_handler
    <2>1. UNCHANGED output
      BY <1>3 DEF srtp_handler
    <2>2. CASE Refuse
      <3>1. proc'.verdict = "error" /\ tops' = tops
        BY <1>3, <1>w, <2>2 DEF Refuse, srtp_handler, At, Steps, Work
      <3> QED  BY <1>p, <2>1, <3>1 DEF Pending
    <2>3. CASE ~Refuse
      <3> DEFINE n == proc.packet.n
      <3>1. /\ tops' = <<>> /\ proc'.packet = proc.packet /\ proc'.via = Mine /\ proc'.at = "stats"
            /\ proc.packet.ssrc = Mine /\ proc'.payload = "plain"
            /\ n \in First .. next - 1 /\ n \notin Noted
            /\ <<n, TagOf(n)>> \in remote'.seen
        BY <1>3, <1>i, <2>3, LetThrough DEF DeliveryInv
      <3>2. next' = next
        BY <1>3 DEF srtp_handler
      <3>3. n \in Noted'
        BY <1>n, <3>1, <3>2 DEF Noted, TagOf
      <3>4. Pending' \subseteq {n}
        BY <3>1 DEF Pending
      <3>5. n \notin Numbers(got, frames, r)
        BY <1>i, <3>1
      <3> HIDE DEF n
      <3> QED  BY <1>f, <1>i, <1>n, <2>1, <3>1, <3>3, <3>4, <3>5
    <2> QED  BY <2>2, <2>3
  <1>4. CASE SkipStatistics
    <2>1. proc \in Work /\ proc.at = "stats"
      BY <1>4, <1>w DEF SkipStatistics, At, Steps
    <2>2. /\ proc'.at = "media" /\ proc'.packet = proc.packet /\ proc'.verdict = proc.verdict
          /\ proc'.via = proc.via /\ proc'.payload = proc.payload
      BY <1>4, <2>1 DEF SkipStatistics, Skip, Work
    <2>3. Pending' = Pending /\ PayloadKept'
      BY <1>i, <2>1, <2>2 DEF Pending
    <2> QED  BY <1>4, <1>p, <2>3 DEF SkipStatistics, Skip
  <1>5. CASE rtcp_common_handler
    BY <1>5, <1>h DEF rtcp_common_handler, At, Installed
  <1>6. CASE media_handler
    <2>1. /\ proc \in Work /\ proc.at = "media" /\ proc.via \in DOMAIN sets
          /\ Accepted /\ Frame \in Frames /\ tops' = tops
      BY <1>6, <1>w, FrameType DEF media_handler, At, Steps
    <2>2. /\ NumberOf(Frame) = Pending /\ Plain(Frame)
          /\ IF proc.via = Mine THEN Frame.ssrc = Mine
                                ELSE proc.via = Other /\ Frame.ssrc = Other /\ Other \in DOMAIN sets
      BY <1>i, <1>n, <1>v, <2>1 DEF Accepted, Frame, NumberOf, Plain, Pending, Steps
    <2>3. Pending' = {} /\ PayloadKept'
      <3>1. proc' = NoPacket \/ proc'.at = "getter"
        BY <1>6, <2>1 DEF media_handler, Work
      <3> QED  BY <1>n, <3>1 DEF Pending, Steps
    <2>4. CASE scenario.getter /\ proc.via = Mine
      <3>1. ready'[Mine] = Append(r, Frame) /\ ready'[Other] = ready[Other] /\ UNCHANGED <<frames, got>>
        BY <1>6, <1>n, <2>4 DEF media_handler, TypeOK
      <3>2. /\ Sorted(got, frames, Append(r, Frame))
            /\ Numbers(got, frames, Append(r, Frame)) = Numbers(got, frames, r) \cup Pending
        BY <1>i, <1>t, <2>1, <2>2, <2>4, SortedGrows
      <3> QED  BY <1>f, <1>i, <1>n, <2>1, <2>3, <3>1, <3>2
    <2>5. CASE scenario.getter /\ proc.via # Mine
      <3>1. /\ ready'[Other] = Append(ready[Other], Frame) /\ ready'[Mine] = r
            /\ UNCHANGED <<frames, got>>
        BY <1>6, <1>n, <2>2, <2>5 DEF media_handler, TypeOK
      <3>2. AllOf(Append(ready[Other], Frame), Other)
        BY <1>i, <1>t, <2>1, <2>2, <2>5, OwnGrows
      <3> QED  BY <1>f, <1>i, <1>n, <2>1, <2>3, <3>1, <3>2
    <2>6. CASE ~scenario.getter
      <3>1. return_frame(Frame) /\ ready' = ready
        BY <1>6, <2>6 DEF media_handler
      <3>2. /\ Sorted(got', frames', r)
            /\ Numbers(got', frames', r) \subseteq Numbers(got, frames, r) \cup Pending
        BY <1>i, <1>t, <2>1, <2>2, <3>1, ReturnSorted
      <3> QED  BY <1>f, <1>i, <1>n, <2>1, <2>3, <3>1, <3>2
    <2> QED  BY <2>4, <2>5, <2>6
  <1>7. CASE getter
    <2>1. /\ proc \in Work /\ proc.at = "getter" /\ proc.via \in DOMAIN sets
          /\ ready[proc.via] # <<>> /\ return_frame(Head(ready[proc.via]))
          /\ ready' = [ready EXCEPT ![proc.via] = Tail(ready[proc.via])] /\ UNCHANGED <<tops, proc>>
      BY <1>7, <1>w DEF getter, Fetched, At, Steps
    <2>2. Pending' = {} /\ PayloadKept'
      BY <2>1 DEF Pending
    <2>3. CASE proc.via = Mine
      <3>1. /\ ready'[Mine] = Tail(r) /\ ready'[Other] = ready[Other]
            /\ r # <<>> /\ return_frame(Head(r))
        BY <1>n, <2>1, <2>3 DEF TypeOK
      <3>2. /\ Tail(r) \in Seq(Frames) /\ Head(r) \in Frames
            /\ Sorted(got, frames, Tail(r)) /\ Plain(Head(r)) /\ Head(r).ssrc = Mine
            /\ Numbers(got, frames, r) = Numbers(got, frames, Tail(r)) \cup NumberOf(Head(r))
            /\ NumberOf(Head(r)) \cap Numbers(got, frames, Tail(r)) = {}
        BY <1>i, <1>t, <3>1, SortedShrinks, OwnShrinks
      <3>3. /\ Sorted(got', frames', Tail(r))
            /\ Numbers(got', frames', Tail(r)) \subseteq Numbers(got, frames, r)
        BY <3>1, <3>2, ReturnSorted
      <3> QED  BY <1>f, <1>i, <1>n, <2>1, <2>2, <3>1, <3>3
    <2>4. CASE proc.via # Mine
      <3> DEFINE o == ready[Other]
      <3>1. proc.via = Other /\ Other \in DOMAIN sets
        BY <1>v, <2>1, <2>4 DEF Steps
      <3>2. ready'[Mine] = r /\ ready'[Other] = Tail(o) /\ o # <<>> /\ return_frame(Head(o))
        BY <1>n, <2>1, <3>1 DEF TypeOK
      <3>3. AllOf(Tail(o), Other) /\ Head(o).ssrc = Other /\ Head(o) \in Frames
        BY <1>i, <1>t, <3>2, OwnShrinks
      <3>4. NumberOf(Head(o)) = {} /\ Plain(Head(o))
        BY <1>n, <3>3 DEF NumberOf, Plain
      <3>5. /\ Sorted(got', frames', r)
            /\ Numbers(got', frames', r) \subseteq Numbers(got, frames, r)
        BY <1>i, <1>t, <3>1, <3>2, <3>3, <3>4, ReturnSorted
      <3> QED  BY <1>f, <1>i, <1>n, <2>1, <2>2, <3>2, <3>3, <3>5
    <2> QED  BY <2>3, <2>4
  <1>8. ASSUME NEW s \in {Mine, Other}, pull_frame(s) PROVE SecuredInv'
    <2> DEFINE h == Head(frames)
               t == Tail(frames)
    <2>1. /\ frames # <<>> /\ frames' = t /\ UNCHANGED <<ready, proc, tops, next>>
          /\ scenario.multiplexed => h.ssrc = s
          /\ got' = IF s = Mine THEN Append(got, h) ELSE got
      BY <1>8 DEF pull_frame
    <2>2. /\ Sorted(got, t, r) /\ Plain(h) /\ (scenario.multiplexed \/ h.ssrc = Mine)
          /\ Numbers(got, frames, r) = Numbers(got, t, r) \cup NumberOf(h)
          /\ NumberOf(h) \cap Numbers(got, t, r) = {} /\ t \in Seq(Frames) /\ h \in Frames
      BY <1>i, <1>t, <2>1, SortedShrinks, OwnShrinks
    <2>3. Pending' = Pending /\ PayloadKept'
      BY <1>i, <2>1 DEF Pending
    <2> HIDE DEF h, t
    <2>4. Sorted(got', t, r) /\ Numbers(got', t, r) \subseteq Numbers(got, frames, r)
      <3>1. CASE s = Mine
        <4>1. h.ssrc = Mine
          BY <2>1, <2>2, <3>1
        <4>2. got' = Append(got, h)
          BY <2>1, <3>1
        <4>3. /\ Sorted(Append(got, h), t, r)
              /\ Numbers(Append(got, h), t, r) = Numbers(got, t, r) \cup NumberOf(h)
          BY <1>t, <2>2, <4>1, SortedGrows
        <4>4. Numbers(Append(got, h), t, r) \subseteq Numbers(got, frames, r)
          BY <2>2, <4>3
        <4> QED  BY <4>2, <4>3, <4>4, Zenon
      <3>2. CASE s # Mine
        <4>1. got' = got
          BY <2>1, <3>2
        <4>2. Sorted(got, t, r) /\ Numbers(got, t, r) \subseteq Numbers(got, frames, r)
          BY <2>2
        <4> QED  BY <4>1, <4>2, Zenon
      <3> QED  BY <3>1, <3>2
    <2> QED  BY <1>f, <1>i, <1>n, <2>1, <2>3, <2>4
  <1>9. CASE NullFrame \/ DanglingHandlers \/ SkipMedia \/ NothingFetched
    <2>1. (proc' = NoPacket \/ proc' = Crashed) /\ UNCHANGED <<tops, output>>
      BY <1>9 DEF NullFrame, DanglingHandlers, SkipMedia, NothingFetched
    <2> QED  BY <1>n, <1>q, <2>1 DEF Steps
  <1>10. CASE (\E p \in net : Receive(p)) \/ ReceiveForeign
    <2>1. proc'.at = "rtp" /\ UNCHANGED <<tops, output>>
      BY <1>10, Dispatched DEF Receive
    <2> QED  BY <1>q, <2>1
  <1>11. CASE clear_stream_from_flow
    <2>1. /\ ready'[Mine] = r /\ ready'[Other] = <<>> /\ UNCHANGED <<tops, frames, got, proc>>
      BY <1>11, <1>n DEF clear_stream_from_flow, TypeOK
    <2>2. AllOf(<<>>, Other) /\ Pending' = Pending /\ PayloadKept'
      BY <1>i, <2>1, EmptySeq DEF AllOf, Pending
    <2> QED  BY <1>f, <1>i, <1>n, <2>1, <2>2
  <1>12. CASE Send \/ (\E p \in net : Vanish(p)) \/ install_handler \/ UNCHANGED vars
    <2>1. UNCHANGED <<tops, output, proc>>
      BY <1>12 DEF Send, Vanish, install_handler, vars
    <2>2. Pending' = Pending /\ PayloadKept'
      BY <1>i, <2>1 DEF Pending
    <2> QED  BY <1>p, <2>1, <2>2
  <1> QED
    BY <1>1, <1>2, <1>3, <1>4, <1>5, <1>6, <1>7, <1>8, <1>9, <1>10, <1>11, <1>12 DEF Next

\* What the channel sees of a step.
Sent == IF Secured THEN next - First ELSE 0
Heard == IF Secured THEN [i \in DOMAIN got |-> Message(got[i])] ELSE <<>>

LEMMA HeardGrows ==
    ASSUME got \in Seq(Frames), NEW f \in Frames, Secured, Secured',
           got' = Append(got, f), scenario' = scenario
    PROVE  Heard' = Append(Heard, Message(f))
  <1> DEFINE m == [i \in 1 .. Len(got) |-> Message(got[i])]
             k == Message(f)
             a == Append(m, k)
             b == [i \in 1 .. Len(got') |-> Message(got'[i])]
  <1>1. /\ Len(got) \in Nat /\ Len(got') = Len(got) + 1 /\ got'[Len(got) + 1] = f
        /\ \A i \in 1 .. Len(got) : got'[i] = got[i]
        /\ DOMAIN got = 1 .. Len(got) /\ DOMAIN got' = 1 .. Len(got')
        /\ got' \in Seq(Frames)
    BY AppendProperties, LenProperties
  <1>2. \A g \in Frames : Message(g) \in Int
    BY Constants DEF Frames, Message
  <1>3. k \in Int /\ (\A i \in 1 .. Len(got) : Message(got[i]) \in Int)
        /\ (\A i \in 1 .. Len(got') : Message(got'[i]) \in Int)
    BY <1>1, <1>2, ElementOfSeq
  <1>4. m \in Seq(Int) /\ Len(m) = Len(got) /\ \A i \in 1 .. Len(got) : m[i] = Message(got[i])
    <2>1. m \in [1 .. Len(got) -> Int]
      BY <1>3
    <2>2. m \in Seq(Int)
      BY <1>1, <2>1, SeqDef
    <2>3. DOMAIN m = 1 .. Len(got) /\ DOMAIN m = 1 .. Len(m) /\ Len(m) \in Nat
      BY <2>2, LenProperties
    <2>4. Len(m) = Len(got)
      <3> HIDE DEF m
      <3> QED  BY <1>1, <2>3
    <2> QED  BY <2>2, <2>4
  <1>5. b \in Seq(Int) /\ Len(b) = Len(got') /\ \A i \in 1 .. Len(got') : b[i] = Message(got'[i])
    <2>1. b \in [1 .. Len(got') -> Int]
      BY <1>3
    <2>2. b \in Seq(Int)
      BY <1>1, <2>1, SeqDef
    <2>3. DOMAIN b = 1 .. Len(got') /\ DOMAIN b = 1 .. Len(b) /\ Len(b) \in Nat
      BY <2>2, LenProperties
    <2>4. Len(b) = Len(got')
      <3> HIDE DEF b
      <3> QED  BY <1>1, <2>3
    <2> QED  BY <2>2, <2>4
  <1>6. Heard = m /\ Heard' = b
    <2>1. \A g : Message(g)' = Message(g)
      BY DEF Message
    <2> QED  BY <1>1, <2>1 DEF Heard, Message
  <1> HIDE DEF m, b
  <1>7. /\ a \in Seq(Int) /\ Len(a) = Len(m) + 1 /\ a[Len(m) + 1] = k
        /\ \A i \in 1 .. Len(m) : a[i] = m[i]
    BY <1>3, <1>4, AppendProperties
  <1>8. ASSUME NEW i \in 1 .. Len(a) PROVE a[i] = b[i]
    <2>1. i \in 1 .. Len(got) \/ i = Len(got) + 1
      BY <1>1, <1>4, <1>7
    <2>2. CASE i \in 1 .. Len(got)
      BY <1>1, <1>4, <1>5, <1>7, <2>2
    <2>3. CASE i = Len(got) + 1
      BY <1>1, <1>4, <1>5, <1>7, <2>3
    <2> QED  BY <2>1, <2>2, <2>3
  <1>9. Len(a) = Len(b)
    BY <1>1, <1>4, <1>5, <1>7
  <1> HIDE DEF a
  <1>10. a = b
    BY <1>5, <1>7, <1>8, <1>9, SeqEqual
  <1> QED  BY <1>6, <1>10 DEF a

\* An application gets one frame at a time.
LEMMA GotGrows ==
    ASSUME TypeOK, [Next]_vars
    PROVE  \/ UNCHANGED <<next, got>>
           \/ UNCHANGED next /\ \E f \in Frames : got' = Append(got, f)
           \/ next' = next + 1 /\ UNCHANGED got
  <1> USE DEF output
  <1>1. CASE media_handler
    <2>1. Frame \in Frames /\ UNCHANGED next
      BY <1>1, Working, FrameType DEF media_handler, At, Steps
    <2> QED  BY <1>1, <2>1 DEF media_handler, return_frame
  <1>2. CASE getter
    <2>1. proc.via \in {Mine, Other} /\ ready[proc.via] # <<>> /\ UNCHANGED next
      BY <1>2, Working DEF getter, Fetched, At, Steps, Work
    <2>2. Head(ready[proc.via]) \in Frames
      BY <2>1, HeadTailProperties DEF TypeOK
    <2> QED  BY <1>2, <2>1, <2>2 DEF getter, return_frame
  <1>3. ASSUME NEW s \in {Mine, Other}, pull_frame(s)
        PROVE  UNCHANGED next /\ (UNCHANGED got \/ \E f \in Frames : got' = Append(got, f))
    <2>1. Head(frames) \in Frames
      BY <1>3, HeadTailProperties DEF pull_frame, TypeOK
    <2> QED  BY <1>3, <2>1 DEF pull_frame
  <1>4. CASE Send
    BY <1>4 DEF Send
  <1>5. CASE \/ (\E p \in net : Vanish(p) \/ Receive(p)) \/ ReceiveForeign \/ install_handler
             \/ clear_stream_from_flow \/ rtp_handler \/ SkipSrtp \/ srtp_handler \/ SkipStatistics
             \/ rtcp_common_handler \/ NullFrame \/ DanglingHandlers \/ SkipMedia \/ NothingFetched
             \/ UNCHANGED vars
    BY <1>5 DEF Vanish, Receive, ReceiveForeign, Dispatch, install_handler, clear_stream_from_flow,
                rtp_handler, SkipSrtp, Skip, srtp_handler, SkipStatistics, rtcp_common_handler,
                NullFrame, DanglingHandlers, SkipMedia, NothingFetched, vars
  <1> QED  BY <1>1, <1>2, <1>3, <1>4, <1>5 DEF Next

LEMMA ChannelStep ==
    ASSUME TypeOK, TypeOK', SecuredInv, SecuredInv', [Next]_vars
    PROVE  [Channel!Next]_<<Sent, Heard>>
  <1>s. (Secured' <=> Secured) /\ scenario' = scenario /\ next \in Nat /\ First \in Nat /\ next >= First
    <2>1. scenario' = scenario /\ next \in Nat
      BY StepsKeep
    <2>2. next \in First .. MaxPackets
      BY DEF TypeOK
    <2> QED  BY <2>1, <2>2, Constants DEF Secured
  <1>1. CASE ~Secured
    BY <1>1, <1>s DEF Sent, Heard
  <1>2. CASE Secured
    <2>1. CASE UNCHANGED <<next, got>>
      <3>1. Sent' = Sent
        BY <1>s, <2>1 DEF Sent
      <3>2. Heard' = Heard
        BY <1>s, <2>1 DEF Heard, Message
      <3> QED  BY <3>1, <3>2
    <2>2. CASE next' = next + 1 /\ UNCHANGED got
      <3>1. Sent' = Sent + 1
        BY <1>2, <1>s, <2>2 DEF Sent
      <3>2. Heard' = Heard
        BY <1>s, <2>2 DEF Heard, Message
      <3> QED  BY <3>1, <3>2 DEF Channel!Next, Channel!Send, Sent, Heard
    <2>3. ASSUME UNCHANGED next, NEW f \in Frames, got' = Append(got, f)
          PROVE  Channel!Receive
      <3>1. got \in Seq(Frames) /\ got' \in Seq(Frames)
        BY DEF TypeOK
      <3>2. /\ Once(got') /\ AllPlain(got') /\ AllOf(got', Mine) /\ Own(got') \subseteq Noted'
            /\ AllOf(got, Mine)
        BY <1>2, <1>s DEF SecuredInv, Sorted, Numbers
      <3>3. /\ Len(got) \in Nat /\ Len(got') = Len(got) + 1 /\ got'[Len(got) + 1] = f
            /\ \A i \in 1 .. Len(got) : got'[i] = got[i]
            /\ DOMAIN got = 1 .. Len(got)
        BY <2>3, <3>1, AppendProperties, LenProperties
      <3>4. Len(got) + 1 \in 1 .. Len(got') /\ \A i \in 1 .. Len(got) : i \in 1 .. Len(got')
        BY <3>3
      <3>5. f.ssrc = Mine /\ f.payload = "plain" /\ f.n \in First .. next - 1
        <4>1. f.ssrc = Mine /\ Plain(f)
          BY <3>2, <3>3, <3>4 DEF AllPlain, AllOf
        <4>2. f.n \in Own(got')
          BY <3>3, <3>4, <4>1 DEF Own
        <4> QED  BY <2>3, <3>2, <4>1, <4>2 DEF Plain, Noted
      <3>6. ASSUME NEW i \in 1 .. Len(got), got[i].ssrc = Mine, got[i].n = f.n PROVE FALSE
        <4>1. i = Len(got) + 1
          BY <3>2, <3>3, <3>4, <3>5, <3>6 DEF Once
        <4> QED  BY <3>3, <4>1
      <3>7. Sent' = Sent /\ Heard' = Append(Heard, f.n - First)
        BY <1>2, <1>s, <2>3, <3>1, <3>5, HeardGrows DEF Sent, Message
      <3>8. f.n - First \in 0 .. Sent - 1
        BY <1>2, <1>s, <3>5 DEF Sent
      <3>9. f.n - First \notin {Heard[i] : i \in DOMAIN Heard}
        <4>1. SUFFICES ASSUME NEW i \in 1 .. Len(got), Message(got[i]) = f.n - First PROVE FALSE
          BY <1>2, <3>3 DEF Heard
        <4>2. got[i] \in Frames
          BY <3>1, ElementOfSeq
        <4>3. got[i].ssrc = Mine /\ got[i].n \in Nat /\ f.n \in Nat
          BY <3>2, <4>2 DEF AllOf, Frames
        <4>4. got[i].n = f.n
          BY <1>s, <3>5, <4>1, <4>3 DEF Message
        <4> QED  BY <3>6, <4>3, <4>4
      <3> QED  BY <3>7, <3>8, <3>9 DEF Channel!Receive, Channel!Received, Sent, Heard
    <2> QED  BY <2>1, <2>2, <2>3, GotGrows DEF Channel!Next
  <1> QED  BY <1>1, <1>2

\* A stream that authenticates and keeps a replay list is a secure channel, for every
\* length of the cycle of sequence numbers: what its application receives was sent so by
\* the peer, and nothing twice (srtp.cc:67-84).  Secured excludes RTCP, ZRTP, timestamps
\* from 0 on, and the only hook on a shared socket.
THEOREM SecuredStreamIsChannel == Spec => ChannelSpec
  <1>1. Init => Channel!Init
    <2> SUFFICES ASSUME Init PROVE Channel!Init
      OBVIOUS
    <2>1. next = First /\ got = <<>> /\ First \in Nat
      BY Constants DEF Init
    <2>2. DOMAIN got = {}
      BY <2>1
    <2>3. [i \in {} |-> Message(got[i])] = <<>>
      OBVIOUS
    <2>4. [i \in DOMAIN got |-> Message(got[i])] = <<>>
      BY <2>2, <2>3
    <2> QED  BY <2>1, <2>4 DEF Channel!Init
  <1>2. TypeOK /\ TypeOK' /\ SecuredInv /\ SecuredInv' /\ [Next]_vars
        => [Channel!Next]_<<Sent, Heard>>
    BY ChannelStep
  <1> QED
    BY <1>1, <1>2, TypesInit, TypesNext, PacketsInit, PacketsNext, HandlersInit, HandlersNext,
       ReceiverInit, ReceiverNext, DeliveryInit, DeliveryNext, SecuredInit, SecuredNext, PTL
       DEF Spec, ChannelSpec, Channel!Spec, Sent, Heard

=============================================================================
