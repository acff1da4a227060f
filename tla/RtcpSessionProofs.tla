-------------------------- MODULE RtcpSessionProofs --------------------------
(***************************************************************************)
(* Theorems about RtcpSession: its types, the deadlock it can run into,    *)
(* the participants that are missing when they are used, the count of the  *)
(* packets of a source, and what a peer reads of a report.                 *)
(***************************************************************************)
EXTENDS RtcpSession, TLAPS, FiniteSetTheorems, SequenceTheorems, WellFoundedInduction

\* Who holds which mutex follows from where the threads are.
Mutual ==
    /\ lock["packet"] \in {"runner", "app", Nobody}
    /\ lock["participants"] = IF pc["app"] = "take" THEN "app" ELSE Nobody
    /\ \A k \in Kinds :
          lock[MutexOf[k]] = IF pc["reader"] = "store" /\ Packet.type = k THEN "reader" ELSE Nobody

\* stop() and the destructor wait for the other threads one after the other.
Ended ==
    /\ ~active => \/ pc["runner"] = "done" /\ ~mapped
                  \/ pc["app"] \in {"join", "unmap", "destroy", "done"}
    /\ pc["app"] \in {"unmap", "destroy", "done"} => pc["runner"] = "done"
    /\ pc["app"] \in {"destroy", "done"} => ~mapped
    /\ ~mapped => pc["reader"] = "idle"
    /\ pc["app"] = "done" => pc["processor"] = "idle"

\* A thread that goes on to use s finds it, or there is an excuse.
TableFull == receivers = MaxParticipants
Found(t, s) == Known(s) \/ s \in gone[t] \/ TableFull
Adding(s) == pc["reader"] = "add" /\ Subject = s
Counted(s) == Known(s) \/ TableFull \/ s \in strays \/ Adding(s)

ProcessorFinds ==
    pc["processor"] \in {"seq", "probation"} => Found("processor", arg["processor"].s)
ReaderFinds ==
    /\ pc["reader"] \in {"stats", "deliver", "store"} => Found("reader", Subject)
    /\ pc["reader"] = "erase" => Found("reader", Head(Packet.ssrcs))
AppFinds == pc["app"] = "take" => Found("app", arg["app"].s)
SilenceCounted == pc["runner"] # "done" => \A s \in DOMAIN ms : Counted(s)
ExpiredCounted ==
    pc["runner"] = "remove" => \A s \in arg["runner"].expired : Counted(s) \/ s \in gone["runner"]

Lookups ==
    /\ ProcessorFinds /\ ReaderFinds /\ AppFinds /\ SilenceCounted /\ ExpiredCounted
    /\ CrashOnlyAfterRemoval

\* What is counted of a source is what it sent, but for a packet of it in the hands of the
\* processor.
Follows(p, o) ==
    /\ o.first <= o.highest
    /\ p.base = Number(o.first) /\ p.max = Number(o.highest)
    /\ p.cycles * RtpSeqMod + p.max - p.base = o.highest - o.first

InHand(labels, s) == pc["processor"] \in labels /\ arg["processor"].s = s

NextOfSource(s) ==
    InHand({"update"}, s) /\ source[s].highest # -1 =>
        \E d \in scenario.steps : arg["processor"].n = source[s].highest + d

WellCounted(s) ==
    LET p == participants[s]  o == source[s]
    IN  /\ Cardinality(o.seen) <= p.received
        /\ p.probation > 0 \/ InHand({"seq", "probation"}, s) => p.cycles = 0
        /\ p.probation = 0 /\ o.first >= 0 /\ ~o.resynced => Follows(p, o)
        /\ Settled(s) => p.lost = 0 \/ p.lost <= Expected(p) - p.received

CountingOf(s) ==
    IsFiniteSet(source[s].seen) /\ NextOfSource(s) /\ (Known(s) => WellCounted(s))
Counting == \A s \in Peers : CountingOf(s)

-----------------------------------------------------------------------------
(* Types.                                                                  *)

LEMMA Constants ==
    /\ RtpSeqMod \in Nat \ {0} /\ MaxDropout \in Nat /\ MaxMisorder \in Nat
    /\ MaxDropout + MaxMisorder < RtpSeqMod /\ MaxParticipants \in Nat \ {0}
    /\ Peers \subseteq Nat /\ Peers \subseteq Ssrcs /\ 0 \in Ssrcs
    /\ Nobody \notin Threads
  BY ConstantsAssumption DEF Ssrcs, Nobody, Threads

LEMMA Numbered == ASSUME NEW n \in Nat PROVE Number(n) \in Sequence
  BY Constants, SMT DEF Number, Sequence

\* What the reader finds in a compound packet is known by its type.
LEMMA ReadableKinds ==
    ASSUME NEW p \in Readable
    PROVE  /\ p.type \in Kinds /\ p.type # SDES => p.ssrc \in Ssrcs
           /\ p.type = BYE => p \in [type : {BYE}, ssrcs : Seq(Ssrcs)]
           /\ p.type >= SR => p.type \in Kinds \cup {BYE}
  BY DEF Readable, Kinds, SR, RR, SDES, APP, BYE, Partial, Invalid

LEMMA NewTypes == NewParticipant \in Participant
  BY Constants DEF NewParticipant, Participant, Sequence, MIN_SEQUENTIAL

LEMMA UnheardTypes == Unheard \in Truth
  BY DEF Unheard, Truth

LEMMA InitSeqTypes ==
    ASSUME NEW p \in Participant, NEW seq \in Sequence
    PROVE  InitSeq(p, seq) \in Participant
  <1>1. RtpSeqMod + 1 \in Nat
    BY Constants
  <1> DEFINE bad == RtpSeqMod + 1
  <1> HIDE DEF bad
  <1>2. [p EXCEPT !.base = seq, !.max = seq, !.bad = bad] \in Participant
    BY <1>1 DEF Participant, bad
  <1> QED  BY <1>2 DEF InitSeq, bad

LEMMA ExpectedTypes == ASSUME NEW p \in Participant PROVE Expected(p) \in Int
  <1>1. p.cycles * RtpSeqMod \in Nat
    BY Constants, SMT DEF Participant
  <1> QED  BY <1>1, Constants DEF Expected, Participant, Sequence

Verdicts == {"not_ready", "valid", "in_order", "resync", "error", "late"}

LEMMA SequenceTypes ==
    ASSUME NEW p \in Participant, NEW seq \in Sequence
    PROVE  /\ update_participant_seq(p, seq).p \in Participant
           /\ update_participant_seq(p, seq).verdict
                 \in Verdicts
  <1>1. OnProbation(p, seq).p \in Participant
    <2>1. CASE seq # p.max + 1
      <3>1. [p EXCEPT !.probation = MIN_SEQUENTIAL - 1, !.max = seq] \in Participant
        <4>1. MIN_SEQUENTIAL - 1 \in 0 .. MIN_SEQUENTIAL
          BY DEF MIN_SEQUENTIAL
        <4> QED  BY <4>1 DEF Participant
      <3> QED  BY <2>1, <3>1 DEF OnProbation
    <2>2. CASE seq = p.max + 1 /\ p.probation > 1
      <3>1. p.probation - 1 \in 0 .. MIN_SEQUENTIAL
        BY <2>2 DEF Participant, MIN_SEQUENTIAL
      <3>2. [p EXCEPT !.probation = @ - 1, !.max = seq] \in Participant
        BY <3>1 DEF Participant
      <3> QED  BY <2>2, <3>2 DEF OnProbation
    <2>3. CASE seq = p.max + 1 /\ ~(p.probation > 1)
      <3>1. [p EXCEPT !.probation = 0] \in Participant
        BY DEF Participant, MIN_SEQUENTIAL
      <3> QED  BY <2>3, <3>1, InitSeqTypes DEF OnProbation
    <2> QED  BY <2>1, <2>2, <2>3
  <1>2. OnProbation(p, seq).verdict \in {"not_ready", "valid"}
    BY DEF OnProbation
  <1>3. InOrder(p, seq) \in Participant
    <2> DEFINE c == IF seq < p.max THEN p.cycles + 1 ELSE p.cycles
    <2>1. c \in Nat
      BY DEF Participant
    <2> HIDE DEF c
    <2>2. [p EXCEPT !.cycles = c, !.max = seq] \in Participant
      BY <2>1 DEF Participant
    <2> QED  BY <2>2 DEF InOrder, c
  <1>4. Jumped(p, seq).p \in Participant
    <2>1. (seq + 1) % RtpSeqMod \in Nat
      BY Constants, SMT DEF Sequence
    <2>2. [p EXCEPT !.bad = (seq + 1) % RtpSeqMod] \in Participant
      BY <2>1 DEF Participant
    <2> QED  BY <2>2, InitSeqTypes DEF Jumped
  <1>5. Jumped(p, seq).verdict \in {"resync", "error"}
    BY DEF Jumped
  <1> QED
    BY <1>1, <1>2, <1>3, <1>4, <1>5 DEF update_participant_seq, Verdicts

LEMMA StatisticsTypes ==
    ASSUME NEW p \in Participant
    PROVE  update_session_statistics(p) \in Participant
  <1> DEFINE dropped == Expected(p) - (p.received + 1)
  <1>1. dropped \in Int /\ p.received + 1 \in Nat
    BY ExpectedTypes DEF Participant
  <1>2. (IF dropped >= 0 THEN dropped ELSE 0) \in Nat
    BY <1>1
  <1> HIDE DEF dropped
  <1>3. [p EXCEPT !.heard = TRUE, !.received = @ + 1,
                  !.lost = IF dropped >= 0 THEN dropped ELSE 0] \in Participant
    BY <1>1, <1>2 DEF Participant
  <1> QED  BY <1>3 DEF update_session_statistics, dropped

LEMMA ReportedTypes == ASSUME NEW p \in Participant PROVE Reported(p) \in Participant
  <1>1. Expected(p) \in Int /\ p.received \in Nat
    BY ExpectedTypes DEF Participant
  <1>2. [p EXCEPT !.heard = FALSE, !.priorExpected = Expected(p),
                  !.priorReceived = p.received] \in Participant
    BY <1>1 DEF Participant
  <1> QED  BY <1>2 DEF Reported

\* A part of the types whose variables a step leaves alone.
LEMMA TableStays == TableOK /\ UNCHANGED table => TableOK'
  BY DEF TableOK, table
LEMMA LocalStays == LocalOK /\ UNCHANGED local => LocalOK'
  BY DEF LocalOK, local
LEMMA ControlStays == ControlOK /\ UNCHANGED <<lock, pc, arg>> => ControlOK'
  BY DEF ControlOK, ProcessorWork, ReaderWork, RunnerWork, AppWork, Packet
LEMMA TruthStays == TruthOK /\ UNCHANGED <<crash, gone, strays, owed, source>> => TruthOK'
  BY DEF TruthOK

\* The participants after a change, an addition or a removal.
LEMMA ChangeTypes ==
    ASSUME TableOK, NEW s, NEW p \in Participant, Change(s, p),
           UNCHANGED <<initials, members, receivers, ms>>
    PROVE  TableOK'
  BY DEF TableOK, Change

Bounds == scenario \in Scenarios /\ budget \in [DOMAIN scenario.budget -> Nat]

LEMMA BoundsStay == Bounds /\ UNCHANGED <<scenario, budget>> => Bounds'
  BY DEF Bounds
LEMMA Spending ==
    ASSUME Bounds, NEW w, Spend(w), UNCHANGED scenario
    PROVE  Bounds'
  <1>1. budget[w] > 0 /\ budget' = [budget EXCEPT ![w] = budget[w] - 1]
    BY DEF Spend
  <1>2. ASSUME w \in DOMAIN scenario.budget PROVE budget[w] - 1 \in Nat
    <2>1. budget[w] \in Nat
      BY <1>2 DEF Bounds
    <2> QED  BY <1>1, <2>1
  <1> DEFINE D == DOMAIN scenario.budget
             v == budget[w] - 1
  <1>3. budget \in [D -> Nat] /\ budget' = [budget EXCEPT ![w] = v]
    BY <1>1 DEF Bounds
  <1>4. w \in D => v \in Nat
    BY <1>2
  <1> HIDE DEF D, v
  <1>5. budget' \in [D -> Nat]
    BY <1>3, <1>4
  <1> QED  BY <1>5 DEF Bounds, D

LEMMA SilenceTypes ==
    ASSUME TableOK, NEW s \in Ssrcs, ms' = With(ms, s, 0)
    PROVE  DOMAIN ms' \subseteq Ssrcs /\ ms' \in [DOMAIN ms' -> Nat]
  BY DEF TableOK, With

LEMMA ForgetTypes ==
    ASSUME TruthOK, NEW s, Forget(s)
    PROVE  strays' \subseteq Ssrcs /\ owed' \subseteq Peers /\ source' \in [Peers -> Truth]
  BY UnheardTypes DEF TruthOK, Forget

LEMMA AddTypes ==
    ASSUME TableOK, TruthOK, NEW s \in Ssrcs, NEW i \in Nat, add_participant(s, i)
    PROVE  /\ DOMAIN participants' \subseteq Ssrcs
           /\ participants' \in [DOMAIN participants' -> Participant]
           /\ initials' \in Nat /\ receivers' \in 0 .. MaxParticipants
           /\ strays' \subseteq Ssrcs /\ owed' \subseteq Peers /\ source' \in [Peers -> Truth]
  <1>1. CASE Addable
    <2>1. Forget(s) /\ participants' = With(participants, s, NewParticipant)
          /\ initials' = (IF i = 0 THEN 0 ELSE i - 1) /\ receivers' = receivers + 1
      BY <1>1 DEF add_participant
    <2>2. initials' \in Nat /\ receivers' \in 0 .. MaxParticipants
      BY <1>1, <2>1, Constants DEF Addable, TableOK
    <2>3. /\ DOMAIN participants' \subseteq Ssrcs
          /\ participants' \in [DOMAIN participants' -> Participant]
      BY <2>1, NewTypes DEF With, TableOK
    <2> QED  BY <2>1, <2>2, <2>3, ForgetTypes
  <1>2. CASE ~Addable
    BY <1>2 DEF add_participant, TableOK, TruthOK
  <1> QED  BY <1>1, <1>2

LEMMA RemoveTypes ==
    ASSUME TableOK, TruthOK, NEW t \in Threads, NEW s \in Ssrcs, RemoveSource(t, s),
           UNCHANGED <<initials, receivers, crash>>, members' \in Nat
    PROVE  TableOK' /\ TruthOK'
  <1>1. TableOK'
    BY DEF TableOK, RemoveSource, Erase
  <1>2. gone' \in [Threads -> SUBSET Ssrcs]
    BY DEF TruthOK, RemoveSource, RemovedBy
  <1>3. Forget(s)
    BY DEF RemoveSource
  <1> QED  BY <1>1, <1>2, <1>3, ForgetTypes DEF TruthOK

LEMMA LeavesTypes == TableOK /\ MemberLeaves => members' \in Nat
  BY DEF TableOK, MemberLeaves

LEMMA LookedTypes ==
    ASSUME TruthOK, NEW t \in Threads, NEW s, Looked(t, s)
    PROVE  gone' \in [Threads -> SUBSET Ssrcs]
  BY DEF TruthOK, Looked

LEMMA DereferenceTypes ==
    ASSUME TypeOK, NEW t \in Threads, NEW s \in Ssrcs, Dereference(t, s)
    PROVE  TypeOK'
  <1>1. TableOK' /\ LocalOK' /\ ControlOK'
    BY TableStays, LocalStays, ControlStays DEF TypeOK, Dereference, control
  <1>2. TruthOK'
    BY DEF TypeOK, TruthOK, Dereference
  <1> QED  BY <1>1, <1>2 DEF TypeOK, Dereference

\* The processor moves on its own.
LEMMA ProcessorMoves ==
    ASSUME ControlOK, NEW l \in Labels["processor"], Goto("processor", l), UNCHANGED lock,
           \/ UNCHANGED arg /\ pc["processor"] # "idle"
           \/ arg' = [arg EXCEPT !["processor"] = Nothing] /\ l = "idle"
           \/ \E s \in Peers, n \in Nat :
                 arg' = [arg EXCEPT !["processor"] = [s |-> s, n |-> n]]
    PROVE  ControlOK'
  <1>1. /\ DOMAIN pc = Threads /\ DOMAIN pc' = Threads /\ pc'["processor"] = l
        /\ \A t \in Threads \ {"processor"} : pc'[t] = pc[t]
    BY DEF ControlOK, Goto, Threads
  <1>2. /\ DOMAIN arg = Threads /\ DOMAIN arg' = Threads
        /\ \A t \in Threads \ {"processor"} : arg'[t] = arg[t]
    BY DEF ControlOK, Threads
  <1>3. \A t \in Threads : pc'[t] \in Labels[t]
    BY <1>1 DEF ControlOK
  <1>4. ProcessorWork'
    BY <1>1, <1>2 DEF ControlOK, ProcessorWork, Threads
  <1>5. ReaderWork' /\ RunnerWork' /\ AppWork'
    BY <1>1, <1>2 DEF ControlOK, ReaderWork, RunnerWork, AppWork, Packet, Threads
  <1> QED  BY <1>1, <1>2, <1>3, <1>4, <1>5 DEF ControlOK, Threads

LEMMA ProcessedMoves ==
    ASSUME ControlOK, Processed, UNCHANGED lock
    PROVE  ControlOK'
  BY ProcessorMoves DEF Processed, Labels

LEMMA ProcessorTypes == ASSUME TypeOK, ProcessorStep PROVE TypeOK'
  <1> DEFINE s == arg["processor"].s
             n == arg["processor"].n
  <1> USE DEF Threads
  <1>0. TableOK /\ LocalOK /\ ControlOK /\ TruthOK /\ Bounds
    BY DEF TypeOK, Bounds
  <1>a. ASSUME pc["processor"] # "idle" PROVE s \in Peers /\ n \in Nat /\ s \in Ssrcs
    BY <1>0, <1>a, Constants DEF ControlOK, ProcessorWork
  <1> SUFFICES TableOK' /\ LocalOK' /\ ControlOK' /\ TruthOK' /\ Bounds'
    BY DEF TypeOK, Bounds
  <1>1. ASSUME NEW x \in scenario.senders, NEW y \in Indexes(x), RtpPacket(x, y)
        PROVE  TableOK' /\ LocalOK' /\ ControlOK' /\ TruthOK' /\ Bounds'
    <2>1. x \in Peers /\ y \in Nat
      BY <1>0, ScenariosAssumption DEF Bounds, Indexes
    <2>2. TableOK' /\ LocalOK' /\ Bounds'
      BY <1>0, <1>1, TableStays, LocalStays, Spending DEF RtpPacket
    <2>3. ControlOK'
      BY <1>0, <1>1, <2>1, ProcessorMoves DEF RtpPacket, Labels
    <2>4. TruthOK'
      BY <1>0, <1>1, LookedTypes DEF RtpPacket, TruthOK
    <2> QED  BY <2>2, <2>3, <2>4
  <1>2. CASE init_new_participant
    <2>1. pc["processor"] = "new" /\ add_participant(s, initials + 1) /\ ms' = With(ms, s, 0)
          /\ members' = members + 1
      BY <1>2 DEF init_new_participant
    <2>2. initials + 1 \in Nat /\ members' \in Nat
      BY <1>0, <2>1 DEF TableOK
    <2>3. TableOK' /\ TruthOK'
      BY <1>0, <1>2, <1>a, <2>1, <2>2, AddTypes, SilenceTypes
      DEF init_new_participant, TableOK, TruthOK
    <2>4. LocalOK' /\ Bounds'
      BY <1>0, <1>2, LocalStays, BoundsStay DEF init_new_participant
    <2>5. ControlOK'
      BY <1>0, <1>2, ProcessorMoves, ProcessedMoves DEF init_new_participant, Labels
    <2> QED  BY <2>3, <2>4, <2>5
  <1>3. CASE init_participant_seq
    <2>1. LocalOK' /\ Bounds'
      BY <1>0, <1>3, LocalStays, BoundsStay DEF init_participant_seq
    <2>2. ControlOK'
      BY <1>0, <1>3, ProcessorMoves, ProcessedMoves DEF init_participant_seq, Labels
    <2>3. CASE Known(s)
      <3>1. participants[s] \in Participant /\ Number(n) \in Sequence /\ n \in Nat
        BY <1>0, <1>3, <1>a, <2>3, Numbered DEF init_participant_seq, TableOK, Known
      <3>2. TableOK'
        BY <1>0, <1>3, <2>3, <3>1, InitSeqTypes, ChangeTypes DEF init_participant_seq
      <3>3. [Unheard EXCEPT !.first = n, !.highest = n] \in Truth
        BY <3>1 DEF Unheard, Truth
      <3>4. TruthOK'
        BY <1>0, <1>3, <2>3, <3>3 DEF init_participant_seq, TruthOK
      <3> QED  BY <2>1, <2>2, <3>2, <3>4
    <2>4. CASE ~Known(s)
      BY <1>0, <1>3, <2>1, <2>2, <2>4, TableStays, TruthStays
      DEF init_participant_seq, table
    <2> QED  BY <2>3, <2>4
  <1>4. CASE Probation
    <2>1. s \in Ssrcs
      BY <1>4, <1>a DEF Probation
    <2>2. CASE Dereference("processor", s)
      BY <2>1, <2>2, DereferenceTypes DEF TypeOK, Bounds
    <2>3. CASE Known(s) /\ Change(s, [participants[s] EXCEPT !.probation = MIN_SEQUENTIAL])
               /\ Goto("processor", "statistics")
               /\ UNCHANGED <<initials, members, receivers, ms, local, lock, arg, draft, wire,
                              truth, budget>>
      <3>1. [participants[s] EXCEPT !.probation = MIN_SEQUENTIAL] \in Participant
        BY <1>0, <2>3 DEF TableOK, Known, Participant, MIN_SEQUENTIAL
      <3>2. TableOK'
        BY <1>0, <2>3, <3>1, ChangeTypes
      <3>3. ControlOK'
        BY <1>0, <1>4, <2>3, ProcessorMoves DEF Labels, Probation
      <3> QED  BY <1>0, <2>3, <3>2, <3>3, LocalStays, TruthStays, BoundsStay DEF truth
    <2> QED  BY <1>4, <2>2, <2>3 DEF Probation
  <1>5. CASE UpdateSeq
    <2>1. LocalOK' /\ Bounds'
      BY <1>0, <1>5, LocalStays, BoundsStay DEF UpdateSeq
    <2>2. ControlOK'
      BY <1>0, <1>5, ProcessorMoves, ProcessedMoves DEF UpdateSeq, Labels
    <2>3. CASE Known(s)
      <3> DEFINE u == update_participant_seq(participants[s], Number(n))
      <3>1. participants[s] \in Participant /\ Number(n) \in Sequence /\ n \in Nat /\ s \in Peers
        BY <1>0, <1>5, <1>a, <2>3, Numbered DEF UpdateSeq, TableOK, Known
      <3>2. u.p \in Participant
        BY <3>1, SequenceTypes
      <3>3. Change(s, u.p) /\ source' = [source EXCEPT ![s] = Witness(@, n, u.verdict)]
        BY <1>5, <2>3 DEF UpdateSeq
      <3> HIDE DEF u
      <3>4. TableOK'
        BY <1>0, <1>5, <3>2, <3>3, ChangeTypes DEF UpdateSeq
      <3>5. \A o \in Truth, v \in Verdicts : Witness(o, n, v) \in Truth
        <4> SUFFICES ASSUME NEW o \in Truth, NEW v \in Verdicts PROVE Witness(o, n, v) \in Truth
          OBVIOUS
        <4>1. /\ [o EXCEPT !.highest = n] \in Truth
              /\ [o EXCEPT !.first = n, !.highest = n, !.seen = {}] \in Truth
              /\ [o EXCEPT !.first = n, !.highest = n, !.seen = {}, !.resynced = TRUE] \in Truth
          BY <3>1 DEF Truth
        <4> QED  BY <4>1 DEF Witness
      <3>6. u.verdict \in Verdicts
        BY <3>1, SequenceTypes DEF u
      <3>7. TruthOK'
        BY <1>0, <1>5, <3>1, <3>3, <3>5, <3>6 DEF UpdateSeq, TruthOK
      <3> QED  BY <2>1, <2>2, <3>4, <3>7
    <2>4. CASE ~Known(s)
      BY <1>0, <1>5, <2>1, <2>2, <2>4, TableStays, TruthStays DEF UpdateSeq, table
    <2> QED  BY <2>3, <2>4
  <1>6. CASE Statistics
    <2>1. LocalOK' /\ Bounds'
      BY <1>0, <1>6, LocalStays, BoundsStay DEF Statistics
    <2>2. ControlOK'
      BY <1>0, <1>6, ProcessedMoves DEF Statistics
    <2>3. CASE Known(s)
      <3>1. participants[s] \in Participant /\ n \in Nat /\ s \in Peers
        BY <1>0, <1>6, <1>a, <2>3 DEF Statistics, TableOK, Known
      <3>2. TableOK'
        BY <1>0, <1>6, <2>3, <3>1, StatisticsTypes, ChangeTypes DEF Statistics
      <3>3. [source[s] EXCEPT !.seen = @ \cup {n}] \in Truth
        BY <1>0, <3>1 DEF Truth, TruthOK
      <3>4. TruthOK'
        BY <1>0, <1>6, <2>3, <3>1, <3>3 DEF Statistics, TruthOK
      <3> QED  BY <2>1, <2>2, <3>2, <3>4
    <2>4. CASE ~Known(s)
      BY <1>0, <1>6, <2>1, <2>2, <2>4, TableStays, TruthStays DEF Statistics, table
    <2> QED  BY <2>3, <2>4
  <1> QED
    BY <1>1, <1>2, <1>3, <1>4, <1>5, <1>6 DEF ProcessorStep

\* The packet in the hands of the reader.
LEMMA Reading ==
    ASSUME ControlOK, pc["reader"] # "idle", arg["reader"].rest # <<>>
    PROVE  /\ arg["reader"] \in [s : Ssrcs, rest : Seq(Readable)] /\ Sender \in Ssrcs
           /\ Packet \in Readable /\ Packet = arg["reader"].rest[1]
           /\ Tail(arg["reader"].rest) \in Seq(Readable)
           /\ Packet.type \in Kinds => Subject \in Ssrcs
  <1> DEFINE rest == arg["reader"].rest
  <1>1. arg["reader"] \in [s : Ssrcs, rest : Seq(Readable)]
    BY DEF ControlOK, ReaderWork
  <1>2. rest \in Seq(Readable) /\ rest # <<>> /\ arg["reader"].s \in Ssrcs
    BY <1>1
  <1> HIDE DEF rest
  <1>3. Head(rest) \in Readable /\ Tail(rest) \in Seq(Readable) /\ Head(rest) = rest[1]
    BY <1>2, HeadTailProperties
  <1>4. Packet \in Readable
    BY <1>3 DEF Packet, rest
  <1>5. Packet.type \in Kinds => Subject \in Ssrcs
    BY <1>2, <1>4, ReadableKinds DEF Subject, Sender
  <1> QED  BY <1>1, <1>2, <1>3, <1>4, <1>5 DEF Packet, Sender, rest

\* The reader moves on its own.
LEMMA ReaderMoves ==
    ASSUME ControlOK, NEW l \in Labels["reader"], Goto("reader", l),
           lock' \in [Mutexes -> Threads \cup {Nobody}], lock'["packet"] = lock["packet"],
           DOMAIN arg' = Threads, \A t \in Threads \ {"reader"} : arg'[t] = arg[t], ReaderWork'
    PROVE  ControlOK'
  <1>1. /\ DOMAIN pc = Threads /\ DOMAIN pc' = Threads /\ pc'["reader"] = l
        /\ \A t \in Threads \ {"reader"} : pc'[t] = pc[t]
    BY DEF ControlOK, Goto, Threads
  <1>2. \A t \in Threads : pc'[t] \in Labels[t]
    BY <1>1 DEF ControlOK
  <1>3. ProcessorWork' /\ RunnerWork' /\ AppWork'
    BY <1>1 DEF ControlOK, ProcessorWork, RunnerWork, AppWork, Threads
  <1> QED  BY <1>1, <1>2, <1>3 DEF ControlOK, Threads

\* With the packet in its hands unchanged.
LEMMA ReaderGoes ==
    ASSUME ControlOK, NEW l \in Labels["reader"], Goto("reader", l), UNCHANGED arg,
           lock' \in [Mutexes -> Threads \cup {Nobody}], lock'["packet"] = lock["packet"],
           pc["reader"] # "idle",
           l \in {"add", "stats", "deliver", "store"} =>
              arg["reader"].rest # <<>> /\ Packet.type \in Kinds,
           l = "stats" => Packet.type = SR,
           l \in {"bye", "erase"} => arg["reader"].rest # <<>> /\ Packet.type = BYE,
           l = "erase" => Packet.ssrcs # <<>>
    PROVE  ControlOK'
  <1>1. pc'["reader"] = l /\ DOMAIN arg' = Threads
    BY DEF ControlOK, Goto, Threads
  <1>2. ReaderWork'
    BY <1>1 DEF ControlOK, ReaderWork, Packet
  <1> QED  BY <1>1, <1>2, ReaderMoves

LEMMA AdvanceMoves ==
    ASSUME ControlOK, Advance, pc["reader"] # "idle", arg["reader"].rest # <<>>,
           lock' \in [Mutexes -> Threads \cup {Nobody}], lock'["packet"] = lock["packet"]
    PROVE  ControlOK'
  <1> DEFINE tail == Tail(arg["reader"].rest)
  <1>1. arg["reader"] \in [s : Ssrcs, rest : Seq(Readable)] /\ tail \in Seq(Readable)
    BY Reading
  <1>2. arg' = [arg EXCEPT !["reader"] = [arg["reader"] EXCEPT !.rest = tail]]
    BY DEF Advance
  <1> HIDE DEF tail
  <1>3. [arg["reader"] EXCEPT !.rest = tail] \in [s : Ssrcs, rest : Seq(Readable)]
    BY <1>1
  <1>4. /\ DOMAIN arg' = Threads /\ \A t \in Threads \ {"reader"} : arg'[t] = arg[t]
        /\ arg'["reader"] \in [s : Ssrcs, rest : Seq(Readable)]
    BY <1>2, <1>3 DEF ControlOK, Threads
  <1>5. pc'["reader"] = "next"
    BY DEF ControlOK, Advance, Goto, Threads
  <1>6. ReaderWork'
    BY <1>4, <1>5 DEF ReaderWork
  <1> QED  BY <1>4, <1>6, ReaderMoves DEF Advance, Labels

LEMMA ReturnMoves ==
    ASSUME ControlOK, Return, UNCHANGED lock
    PROVE  ControlOK'
  <1>1. /\ DOMAIN arg' = Threads /\ \A t \in Threads \ {"reader"} : arg'[t] = arg[t]
        /\ pc'["reader"] = "idle"
    BY DEF ControlOK, Return, Goto, Threads
  <1>2. ReaderWork'
    BY <1>1 DEF ReaderWork
  <1> QED  BY <1>1, <1>2, ReaderMoves DEF Return, Labels, ControlOK

\* A source of a BYE packet is done with.
LEMMA ByeRest ==
    ASSUME ControlOK, pc["reader"] \in {"bye", "erase"}, Packet.ssrcs # <<>>,
           arg' = [arg EXCEPT !["reader"].rest[1].ssrcs = Tail(@)]
    PROVE  /\ Packet.ssrcs \in Seq(Ssrcs) /\ Head(Packet.ssrcs) \in Ssrcs
           /\ DOMAIN arg' = Threads /\ \A t \in Threads \ {"reader"} : arg'[t] = arg[t]
           /\ arg'["reader"] \in [s : Ssrcs, rest : Seq(Readable)]
           /\ arg'["reader"].rest # <<>> /\ Packet'.type = BYE
  <1> DEFINE r    == arg["reader"]
             bye  == [r.rest[1] EXCEPT !.ssrcs = Tail(r.rest[1].ssrcs)]
             left == [r.rest EXCEPT ![1] = bye]
  <1>1. r.rest # <<>> /\ Packet.type = BYE /\ pc["reader"] # "idle"
    BY DEF ControlOK, ReaderWork
  <1>2. /\ r \in [s : Ssrcs, rest : Seq(Readable)] /\ Packet \in Readable /\ Packet = r.rest[1]
    BY <1>1, Reading
  <1>3. Packet \in [type : {BYE}, ssrcs : Seq(Ssrcs)]
    BY <1>1, <1>2, ReadableKinds
  <1>4. Packet.ssrcs \in Seq(Ssrcs)
    BY <1>3
  <1>5. Tail(Packet.ssrcs) \in Seq(Ssrcs) /\ Head(Packet.ssrcs) \in Ssrcs
    BY <1>4, HeadTailProperties
  <1>6. bye \in [type : {BYE}, ssrcs : Seq(Ssrcs)]
    BY <1>2, <1>3, <1>5
  <1>7. bye \in Readable /\ bye.type = BYE
    BY <1>6 DEF Readable
  <1>8. arg' = [arg EXCEPT !["reader"] = [r EXCEPT !.rest = left]]
    OBVIOUS
  <1> HIDE DEF bye
  <1>9. 1 \in DOMAIN r.rest
    <2>1. r.rest \in Seq(Readable)
      BY <1>2
    <2> QED  BY <1>1, <2>1, EmptySeq, LenProperties
  <1>10. left \in Seq(Readable) /\ left # <<>> /\ left[1] = bye
    <2>1. r.rest \in Seq(Readable)
      BY <1>2
    <2>2. left \in Seq(Readable) /\ Len(left) = Len(r.rest) /\ left[1] = bye
      BY <1>7, <1>9, <2>1, ExceptSeq
    <2> QED  BY <1>1, <2>1, <2>2, EmptySeq
  <1> HIDE DEF left
  <1>11. [r EXCEPT !.rest = left] \in [s : Ssrcs, rest : Seq(Readable)]
    BY <1>2, <1>10
  <1>12. /\ DOMAIN arg' = Threads /\ \A t \in Threads \ {"reader"} : arg'[t] = arg[t]
         /\ arg'["reader"] = [r EXCEPT !.rest = left]
    BY <1>8 DEF ControlOK, Threads
  <1>13. arg'["reader"].rest = left
    BY <1>2, <1>12
  <1>14. Packet' = bye
    <2>1. Head(left) = left[1]
      BY <1>10, HeadTailProperties
    <2> QED  BY <1>10, <1>13, <2>1 DEF Packet
  <1> QED  BY <1>4, <1>5, <1>7, <1>10, <1>11, <1>12, <1>13, <1>14

LEMMA Mutexed ==
    ASSUME ControlOK, NEW k \in Kinds,
           Lock(MutexOf[k], "reader") \/ Unlock(MutexOf[k])
    PROVE  lock' \in [Mutexes -> Threads \cup {Nobody}] /\ lock'["packet"] = lock["packet"]
  <1>1. MutexOf[k] # "packet"
    BY DEF MutexOf, Kinds, SR, RR, SDES, APP
  <1> QED  BY <1>1 DEF ControlOK, Lock, Unlock, Threads, Mutexes

LEMMA ReaderTypes == ASSUME TypeOK, ReaderStep PROVE TypeOK'
  <1> USE DEF Threads
  <1>0. TableOK /\ LocalOK /\ ControlOK /\ TruthOK /\ Bounds
    BY DEF TypeOK, Bounds
  <1> DEFINE Locks == lock \in [Mutexes -> Threads \cup {Nobody}]
  <1>a. Locks
    BY <1>0 DEF ControlOK
  <1>b. ASSUME pc["reader"] # "idle", arg["reader"].rest # <<>>
        PROVE  Sender \in Ssrcs /\ Packet \in Readable /\ (Packet.type \in Kinds => Subject \in Ssrcs)
    BY <1>0, <1>b, Reading
  <1>c. ASSUME pc["reader"] \in {"add", "stats", "deliver", "store"}
        PROVE  arg["reader"].rest # <<>> /\ Packet.type \in Kinds /\ Subject \in Ssrcs
    BY <1>0, <1>b, <1>c DEF ControlOK, ReaderWork
  <1> SUFFICES TableOK' /\ LocalOK' /\ ControlOK' /\ TruthOK' /\ Bounds'
    BY DEF TypeOK, Bounds
  <1>1. ASSUME NEW frame \in scenario.frames, Receive(frame)
        PROVE  TableOK' /\ LocalOK' /\ ControlOK' /\ TruthOK' /\ Bounds'
    <2>1. read_sender(frame) \in Ssrcs /\ read_compound(frame) \in Seq(Readable)
      BY <1>0, ScenariosAssumption DEF Bounds
    <2>2. TableOK' /\ LocalOK' /\ TruthOK' /\ Bounds'
      BY <1>0, <1>1, TableStays, LocalStays, TruthStays, Spending DEF Receive, truth
    <2> DEFINE r == [s |-> read_sender(frame), rest |-> read_compound(frame)]
    <2>3. r \in [s : Ssrcs, rest : Seq(Readable)]
      BY <2>1
    <2>4. arg' = [arg EXCEPT !["reader"] = r] /\ Goto("reader", "next") /\ UNCHANGED lock
      BY <1>1 DEF Receive
    <2> HIDE DEF r
    <2>5. /\ DOMAIN arg' = Threads /\ \A t \in Threads \ {"reader"} : arg'[t] = arg[t]
          /\ arg'["reader"] = r /\ pc'["reader"] = "next"
      BY <1>0, <2>4 DEF ControlOK, Goto
    <2>6. ReaderWork'
      BY <2>3, <2>5 DEF ReaderWork
    <2>7. ControlOK'
      BY <1>0, <1>a, <2>4, <2>5, <2>6, ReaderMoves DEF Labels
    <2> QED  BY <2>2, <2>7
  <1>2. CASE EndOfCompound
    <2>1. LocalOK' /\ ControlOK' /\ Bounds'
      BY <1>0, <1>2, LocalStays, ReturnMoves, BoundsStay DEF EndOfCompound
    <2>2. CASE UNCHANGED <<ms, strays>>
      BY <1>0, <1>2, <2>1, <2>2, TableStays, TruthStays DEF EndOfCompound, table
    <2>3. CASE arg["reader"].rest # <<>> /\ CountSilence(Known(Sender))
      <3>1. Sender \in Ssrcs
        BY <1>2, <1>b, <2>3 DEF EndOfCompound
      <3>2. TableOK'
        BY <1>0, <1>2, <2>3, <3>1, SilenceTypes DEF EndOfCompound, TableOK, CountSilence
      <3>3. TruthOK'
        BY <1>0, <1>2, <2>3, <3>1 DEF EndOfCompound, TruthOK, CountSilence
      <3> QED  BY <2>1, <3>2, <3>3
    <2> QED  BY <1>2, <2>2, <2>3 DEF EndOfCompound
  <1>3. CASE NextPacket
    <2>1. pc["reader"] = "next" /\ arg["reader"].rest # <<>> /\ Packet.type >= SR
      BY <1>3 DEF NextPacket
    <2>2. Packet.type \in Kinds \cup {BYE} /\ Sender \in Ssrcs
      BY <1>b, <2>1, ReadableKinds
    <2>3. LocalOK' /\ Bounds'
      BY <1>0, <1>3, LocalStays, BoundsStay DEF NextPacket
    <2>4. TableOK'
      BY <1>0, <1>3, <2>2, SilenceTypes DEF NextPacket, TableOK, CountSilence
    <2>5. strays' \subseteq Ssrcs
      BY <1>0, <1>3, <2>2 DEF NextPacket, TruthOK, CountSilence
    <2>6. CASE Packet.type = BYE
      <3>1. Goto("reader", "bye") /\ UNCHANGED <<gone, arg, lock>>
        BY <1>3, <2>6 DEF NextPacket
      <3>2. ControlOK'
        BY <1>0, <1>a, <2>1, <2>6, <3>1, ReaderGoes DEF Labels
      <3>3. TruthOK'
        BY <1>0, <1>3, <2>5, <3>1 DEF NextPacket, TruthOK
      <3> QED  BY <2>3, <2>4, <3>2, <3>3
    <2>7. CASE Packet.type # BYE
      <3> DEFINE l == IF Known(Subject) THEN AfterLookup ELSE "add"
      <3>1. Goto("reader", l) /\ UNCHANGED <<arg, lock>> /\ Looked("reader", Subject)
        BY <1>3, <2>7 DEF NextPacket
      <3>2. l \in {"stats", "deliver", "add"} /\ (l = "stats" => Packet.type = SR)
        BY DEF AfterLookup
      <3> HIDE DEF l
      <3>3. ControlOK'
        BY <1>0, <1>a, <2>1, <2>2, <2>7, <3>1, <3>2, ReaderGoes DEF Labels
      <3>4. TruthOK'
        BY <1>0, <1>3, <2>5, <3>1, LookedTypes DEF NextPacket, TruthOK
      <3> QED  BY <2>3, <2>4, <3>3, <3>4
    <2> QED  BY <2>6, <2>7
  <1>4. CASE AddUnknown
    <2> DEFINE i == IF Packet.type = RR THEN initials + 1 ELSE initials
    <2>1. pc["reader"] = "add" /\ add_participant(Subject, i) /\ Goto("reader", AfterLookup)
          /\ UNCHANGED <<arg, lock>>
      BY <1>4 DEF AddUnknown
    <2>2. i \in Nat /\ members' \in Nat /\ Subject \in Ssrcs
      BY <1>0, <1>4, <1>c, <2>1 DEF AddUnknown, TableOK
    <2> HIDE DEF i
    <2>3. TableOK' /\ TruthOK'
      BY <1>0, <1>4, <2>1, <2>2, AddTypes DEF AddUnknown, TableOK, TruthOK
    <2>4. AfterLookup \in {"stats", "deliver"} /\ (AfterLookup = "stats" => Packet.type = SR)
      BY DEF AfterLookup
    <2>5. ControlOK'
      BY <1>0, <1>a, <1>c, <2>1, <2>4, ReaderGoes DEF Labels
    <2> QED  BY <1>0, <1>4, <2>3, <2>5, LocalStays, BoundsStay DEF AddUnknown
  <1>5. CASE SenderReport
    <2>1. pc["reader"] = "stats"
      BY <1>5 DEF SenderReport
    <2>2. CASE Dereference("reader", Subject)
      BY <1>c, <2>1, <2>2, DereferenceTypes DEF TypeOK, Bounds
    <2>3. CASE Known(Subject) /\ Change(Subject, [participants[Subject] EXCEPT !.lsr = TRUE])
               /\ Goto("reader", "deliver")
               /\ UNCHANGED <<initials, members, receivers, ms, local, lock, arg, draft, wire,
                              truth, budget>>
      <3>1. [participants[Subject] EXCEPT !.lsr = TRUE] \in Participant
        BY <1>0, <2>3 DEF TableOK, Known, Participant
      <3>2. TableOK'
        BY <1>0, <2>3, <3>1, ChangeTypes
      <3>3. ControlOK'
        BY <1>0, <1>a, <1>c, <2>1, <2>3, ReaderGoes DEF Labels
      <3> QED  BY <1>0, <2>3, <3>2, <3>3, LocalStays, TruthStays, BoundsStay DEF truth
    <2> QED  BY <1>5, <2>2, <2>3 DEF SenderReport
  <1>6. CASE CallHook
    <2>1. ControlOK'
      BY <1>0, <1>a, <1>c, <1>6, AdvanceMoves DEF CallHook
    <2> QED
      BY <1>0, <1>6, <2>1, TableStays, LocalStays, TruthStays, BoundsStay DEF CallHook, truth
  <1>7. CASE HoldReport
    <2>1. ControlOK'
      BY <1>0, <1>c, <1>7, Mutexed, ReaderGoes DEF HoldReport, Labels
    <2> QED
      BY <1>0, <1>7, <2>1, TableStays, LocalStays, TruthStays, BoundsStay DEF HoldReport, truth
  <1>8. CASE StoreReport
    <2>1. pc["reader"] = "store"
      BY <1>8 DEF StoreReport
    <2>2. CASE Dereference("reader", Subject)
      BY <1>c, <2>1, <2>2, DereferenceTypes DEF TypeOK, Bounds
    <2>3. CASE Known(Subject)
               /\ Change(Subject, [participants[Subject] EXCEPT !.held = @ \cup {Packet.type}])
               /\ Unlock(MutexOf[Packet.type]) /\ Advance
               /\ UNCHANGED <<initials, members, receivers, ms, local, draft, wire, truth, budget>>
      <3>1. [participants[Subject] EXCEPT !.held = @ \cup {Packet.type}] \in Participant
        BY <1>0, <1>c, <2>1, <2>3 DEF TableOK, Known, Participant
      <3>2. TableOK'
        BY <1>0, <2>3, <3>1, ChangeTypes
      <3>3. ControlOK'
        BY <1>0, <1>c, <2>1, <2>3, Mutexed, AdvanceMoves
      <3> QED  BY <1>0, <2>3, <3>2, <3>3, LocalStays, TruthStays, BoundsStay DEF truth
    <2> QED  BY <1>8, <2>2, <2>3 DEF StoreReport
  <1>9. CASE LookUpBye
    <2> DEFINE s == Head(Packet.ssrcs)
    <2>1. pc["reader"] = "bye" /\ Packet.ssrcs # <<>> /\ Looked("reader", s) /\ UNCHANGED lock
      BY <1>9 DEF LookUpBye
    <2>2. TableOK' /\ LocalOK' /\ TruthOK' /\ Bounds'
      BY <1>0, <1>9, <2>1, TableStays, LocalStays, LookedTypes, BoundsStay DEF LookUpBye, TruthOK
    <2>3. arg["reader"].rest # <<>> /\ Packet.type = BYE
      BY <1>0, <2>1 DEF ControlOK, ReaderWork
    <2>4. CASE Known(s)
      BY <1>0, <1>a, <1>9, <2>1, <2>2, <2>3, <2>4, ReaderGoes DEF LookUpBye, Labels
    <2>5. CASE ~Known(s)
      <3>1. arg' = [arg EXCEPT !["reader"].rest[1].ssrcs = Tail(@)] /\ UNCHANGED pc
        BY <1>9, <2>5 DEF LookUpBye
      <3>2. /\ DOMAIN arg' = Threads /\ \A t \in Threads \ {"reader"} : arg'[t] = arg[t]
            /\ arg'["reader"] \in [s : Ssrcs, rest : Seq(Readable)]
            /\ arg'["reader"].rest # <<>> /\ Packet'.type = BYE
        BY <1>0, <2>1, <3>1, ByeRest
      <3>3. ReaderWork'
        BY <2>1, <3>1, <3>2 DEF ReaderWork
      <3>4. ControlOK'
        BY <1>0, <2>1, <3>1, <3>2, <3>3
        DEF ControlOK, ProcessorWork, RunnerWork, AppWork
      <3> QED  BY <2>2, <3>4
    <2> QED  BY <2>4, <2>5
  <1>10. CASE EraseBye
    <2> DEFINE s == Head(Packet.ssrcs)
    <2>1. pc["reader"] = "erase" /\ Packet.ssrcs # <<>>
      BY <1>0, <1>10 DEF EraseBye, ControlOK, ReaderWork
    <2>2. s \in Ssrcs
      <3>1. Packet \in [type : {BYE}, ssrcs : Seq(Ssrcs)]
        BY <1>0, <1>b, <2>1, ReadableKinds DEF ControlOK, ReaderWork
      <3>2. Packet.ssrcs \in Seq(Ssrcs)
        BY <3>1
      <3> QED  BY <2>1, <3>2, HeadTailProperties
    <2>3. CASE Dereference("reader", s)
      BY <2>2, <2>3, DereferenceTypes DEF TypeOK, Bounds
    <2>4. CASE Known(s) /\ RemoveSource("reader", s) /\ Goto("reader", "bye")
               /\ arg' = [arg EXCEPT !["reader"].rest[1].ssrcs = Tail(@)]
               /\ UNCHANGED <<initials, members, receivers, local, lock, draft, wire, crash,
                              scenario, budget>>
      <3>1. members' \in Nat
        BY <1>0, <2>4 DEF TableOK
      <3>2. TableOK' /\ TruthOK'
        BY <1>0, <2>2, <2>4, <3>1, RemoveTypes
      <3>3. /\ DOMAIN arg' = Threads /\ \A t \in Threads \ {"reader"} : arg'[t] = arg[t]
            /\ arg'["reader"] \in [s : Ssrcs, rest : Seq(Readable)]
            /\ arg'["reader"].rest # <<>> /\ Packet'.type = BYE
        BY <1>0, <2>1, <2>4, ByeRest
      <3>4. pc'["reader"] = "bye"
        BY <1>0, <2>4 DEF ControlOK, Goto
      <3>5. ReaderWork'
        BY <3>3, <3>4 DEF ReaderWork
      <3>6. ControlOK'
        BY <1>0, <1>a, <2>4, <3>3, <3>5, ReaderMoves DEF Labels
      <3> QED  BY <1>0, <2>4, <3>2, <3>6, LocalStays, BoundsStay
    <2> QED  BY <1>10, <2>3, <2>4 DEF EraseBye
  <1>11. CASE EndOfBye
    <2>1. pc["reader"] = "bye" /\ arg["reader"].rest # <<>>
      BY <1>0, <1>11 DEF EndOfBye, ControlOK, ReaderWork
    <2>2. ControlOK'
      BY <1>0, <1>a, <1>11, <2>1, AdvanceMoves DEF EndOfBye
    <2>3. TableOK'
      BY <1>0, <1>11, LeavesTypes DEF EndOfBye, TableOK
    <2> QED
      BY <1>0, <1>11, <2>2, <2>3, LocalStays, TruthStays, BoundsStay DEF EndOfBye, truth
  <1> QED
    BY <1>1, <1>2, <1>3, <1>4, <1>5, <1>6, <1>7, <1>8, <1>9, <1>10, <1>11 DEF ReaderStep

\* The runner or the application moves on, with what it needs there.
LEMMA ReporterMoves ==
    ASSUME ControlOK, NEW t \in {"runner", "app"}, NEW l \in Labels[t], Goto(t, l),
           lock' \in [Mutexes -> Threads \cup {Nobody}],
           l \in {"role", "blocks", "send"} <=> lock'["packet"] = t,
           \A u \in {"runner", "app"} \ {t} : lock'["packet"] = u <=> lock["packet"] = u,
           DOMAIN arg' = Threads, \A u \in Threads \ {t} : arg'[u] = arg[u],
           l = "remove" => arg'["runner"] \in [s : {0}, expired : SUBSET Ssrcs],
           l = "take" => arg'["app"] \in [s : Peers, k : Kinds]
    PROVE  ControlOK'
  <1>1. /\ DOMAIN pc = Threads /\ DOMAIN pc' = Threads /\ pc'[t] = l
        /\ \A u \in Threads \ {t} : pc'[u] = pc[u]
    BY DEF ControlOK, Goto, Threads
  <1>2. \A u \in Threads : pc'[u] \in Labels[u]
    BY <1>1 DEF ControlOK
  <1>3. ProcessorWork' /\ ReaderWork'
    BY <1>1 DEF ControlOK, ProcessorWork, ReaderWork, Packet, Threads
  <1>4. RunnerWork' /\ AppWork'
    BY <1>1 DEF ControlOK, RunnerWork, AppWork, Threads
  <1>5. \A u \in {"runner", "app"} :
           pc'[u] \in {"role", "blocks", "send"} <=> lock'["packet"] = u
    BY <1>1 DEF ControlOK, Threads
  <1> QED  BY <1>1, <1>2, <1>3, <1>4, <1>5 DEF ControlOK

\* It moves on without a mutex and without anything to work on.
LEMMA ReporterGoes ==
    ASSUME ControlOK, NEW t \in {"runner", "app"}, NEW l \in Labels[t], Goto(t, l), UNCHANGED <<lock, arg>>,
           l \in {"role", "blocks", "send"} <=> pc[t] \in {"role", "blocks", "send"},
           l \notin {"remove", "take"}
    PROVE  ControlOK'
  <1>1. /\ lock' \in [Mutexes -> Threads \cup {Nobody}]
        /\ l \in {"role", "blocks", "send"} <=> lock'["packet"] = t
        /\ DOMAIN arg' = Threads
    BY DEF ControlOK
  <1> QED  BY <1>1, ReporterMoves

LEMMA AfterReportLabels ==
    ASSUME NEW t \in {"runner", "app"}
    PROVE  /\ AfterReport(t) \in Labels[t]
           /\ AfterReport(t) \notin {"remove", "take", "role", "blocks", "send", "report"}
           /\ {"role", "blocks", "send"} \subseteq Labels[t]
  BY DEF AfterReport, Labels, ReportLabels

LEMMA AbandonMoves ==
    ASSUME ControlOK, NEW t \in {"runner", "app"}, AbandonReport(t), UNCHANGED arg,
           pc[t] \in {"role", "blocks", "send"}
    PROVE  ControlOK'
  <1>1. lock["packet"] = t
    BY DEF ControlOK
  <1>2. lock' \in [Mutexes -> Threads \cup {Nobody}] /\ lock'["packet"] = Nobody
        /\ DOMAIN arg' = Threads
    BY DEF AbandonReport, Unlock, ControlOK, Mutexes
  <1>3. AfterReport(t) \in Labels[t]
        /\ AfterReport(t) \notin {"remove", "take", "role", "blocks", "send", "report"}
    BY AfterReportLabels
  <1>4. Goto(t, AfterReport(t))
    BY DEF AbandonReport
  <1>5. \A u \in {"runner", "app"} \ {t} : lock'["packet"] = u <=> lock["packet"] = u
    BY <1>1, <1>2 DEF Nobody
  <1>6. lock'["packet"] # t
    BY <1>2 DEF Nobody
  <1> DEFINE l == AfterReport(t)
  <1>7. l \in Labels[t] /\ Goto(t, l) /\ l \notin {"remove", "take", "role", "blocks", "send"}
    BY <1>3, <1>4
  <1> HIDE DEF l
  <1> QED  BY <1>2, <1>5, <1>6, <1>7, ReporterMoves

LEMMA ReportTypes ==
    ASSUME TypeOK, NEW t \in {"runner", "app"}, ReportStep(t)
    PROVE  TypeOK'
  <1>0. TableOK /\ LocalOK /\ ControlOK /\ TruthOK /\ Bounds
    BY DEF TypeOK, Bounds
  <1> SUFFICES TableOK' /\ LocalOK' /\ ControlOK' /\ TruthOK' /\ Bounds'
    BY DEF TypeOK, Bounds
  <1>1. CASE NoParticipants(t)
    <2>1. Goto(t, AfterReport(t)) /\ pc[t] = "report" /\ UNCHANGED <<lock, arg>>
      BY <1>1 DEF NoParticipants
    <2> DEFINE l == AfterReport(t)
    <2>2. l \in Labels[t] /\ Goto(t, l) /\ l \notin {"remove", "take", "role", "blocks", "send"}
      BY <2>1, AfterReportLabels
    <2> HIDE DEF l
    <2>3. ControlOK'
      BY <1>0, <2>1, <2>2, ReporterGoes
    <2> QED
      BY <1>0, <1>1, <2>3, TableStays, LocalStays, TruthStays, BoundsStay
      DEF NoParticipants, truth
  <1>2. CASE SenderRole(t)
    <2>1. Lock("packet", t) /\ Goto(t, "role") /\ UNCHANGED arg
      BY <1>2 DEF SenderRole
    <2>2. lock' \in [Mutexes -> Threads \cup {Nobody}] /\ lock'["packet"] = t /\ DOMAIN arg' = Threads
      BY <1>0, <2>1 DEF Lock, ControlOK, Mutexes, Threads
    <2>3. \A u \in {"runner", "app"} \ {t} : lock'["packet"] = u <=> lock["packet"] = u
      BY <2>1, <2>2 DEF Lock, Free, Nobody
    <2>4. "role" \in Labels[t]
      BY AfterReportLabels
    <2>5. ControlOK'
      BY <1>0, <2>1, <2>2, <2>3, <2>4, ReporterMoves
    <2> QED
      BY <1>0, <1>2, <2>5, TableStays, LocalStays, TruthStays, BoundsStay DEF SenderRole, truth
  <1>3. CASE ReceiverRole(t)
    <2>1. Goto(t, "blocks") /\ pc[t] = "role" /\ UNCHANGED <<lock, arg>> /\ "blocks" \in Labels[t]
      BY <1>3, AfterReportLabels DEF ReceiverRole
    <2>2. ControlOK'
      BY <1>0, <2>1, ReporterGoes
    <2> QED
      BY <1>0, <1>3, <2>2, TableStays, LocalStays, TruthStays, BoundsStay DEF ReceiverRole, truth
  <1>4. CASE ReportBlocks(t)
    <2>1. /\ pc[t] = "blocks" /\ UNCHANGED <<initials, members, receivers, ms, arg, crash, gone,
                                            strays, source, scenario, budget, hooks, active, mapped>>
      BY <1>4 DEF ReportBlocks
    <2>2. Bounds'
      BY <1>0, <2>1, BoundsStay
    <2>3. CASE AbandonReport(t) /\ UNCHANGED <<participants, our, owed>>
      <3>1. ControlOK'
        BY <1>0, <2>1, <2>3, AbandonMoves
      <3>2. TableOK' /\ LocalOK' /\ TruthOK'
        BY <1>0, <2>1, <2>3, TableStays, TruthStays DEF table, LocalOK
      <3> QED  BY <2>2, <3>1, <3>2
    <2>4. CASE /\ participants' = [s \in DOMAIN participants |-> Reported(participants[s])]
               /\ our' = IF draft.kind = SR THEN [our EXCEPT !.sent = FALSE] ELSE our
               /\ owed' = {} /\ Goto(t, "send") /\ UNCHANGED lock
      <3>1. ControlOK'
        BY <1>0, <2>1, <2>4, AfterReportLabels, ReporterGoes
      <3>2. TableOK'
        BY <1>0, <2>1, <2>4, ReportedTypes DEF TableOK
      <3>3. LocalOK'
        BY <1>0, <2>1, <2>4 DEF LocalOK
      <3>4. TruthOK'
        BY <1>0, <2>1, <2>4 DEF TruthOK
      <3> QED  BY <2>2, <3>1, <3>2, <3>3, <3>4
    <2> QED  BY <1>4, <2>3, <2>4 DEF ReportBlocks
  <1>5. CASE SendReport(t)
    <2>1. AbandonReport(t) /\ pc[t] = "send" /\ UNCHANGED arg
      BY <1>5 DEF SendReport
    <2>2. ControlOK'
      BY <1>0, <2>1, AbandonMoves
    <2>3. LocalOK'
      BY <1>0, <1>5 DEF SendReport, LocalOK
    <2> QED
      BY <1>0, <1>5, <2>2, <2>3, TableStays, TruthStays, BoundsStay DEF SendReport
  <1> QED  BY <1>1, <1>2, <1>3, <1>4, <1>5 DEF ReportStep

LEMMA RunnerTypes == ASSUME TypeOK, RunnerStep PROVE TypeOK'
  <1>0. TableOK /\ LocalOK /\ ControlOK /\ TruthOK /\ Bounds
    BY DEF TypeOK, Bounds
  <1> SUFFICES TableOK' /\ LocalOK' /\ ControlOK' /\ TruthOK' /\ Bounds'
    BY DEF TypeOK, Bounds
  <1>a. ASSUME NEW r, arg' = [arg EXCEPT !["runner"] = r]
        PROVE  /\ DOMAIN arg' = Threads /\ arg'["runner"] = r
               /\ \A u \in Threads \ {"runner"} : arg'[u] = arg[u]
    BY <1>0, <1>a DEF ControlOK, Threads
  <1>b. \A l \in {"sleep", "done", "timeouts", "remove", "report"} : l \in Labels["runner"]
    BY DEF Labels, ReportLabels
  <1>c. ASSUME pc["runner"] \notin {"role", "blocks", "send"}, UNCHANGED lock
        PROVE  lock' \in [Mutexes -> Threads \cup {Nobody}] /\ lock'["packet"] # "runner"
               /\ lock'["packet"] = lock["packet"]
    BY <1>0, <1>c DEF ControlOK
  <1>1. CASE Wake
    <2>1. ControlOK'
      BY <1>0, <1>1, <1>b, ReporterGoes DEF Wake
    <2> QED
      BY <1>0, <1>1, <2>1, TableStays, LocalStays, TruthStays, Spending DEF Wake, truth
  <1>2. CASE Exit
    <2>1. ControlOK'
      BY <1>0, <1>2, <1>b, ReporterGoes DEF Exit
    <2> QED
      BY <1>0, <1>2, <2>1, TableStays, LocalStays, TruthStays, BoundsStay DEF Exit, truth
  <1>3. CASE ReportStep("runner")
    BY <1>3, ReportTypes DEF TypeOK, Bounds
  <1>4. CASE Timeouts
    <2> DEFINE longer  == [s \in DOMAIN ms |-> ms[s] + 1]
               expired == {s \in DOMAIN ms : longer[s] > TimeoutTicks}
    <2>1. /\ pc["runner"] = "timeouts" /\ ms' = longer /\ Goto("runner", "remove") /\ UNCHANGED lock
          /\ arg' = [arg EXCEPT !["runner"] = [s |-> 0, expired |-> expired]]
      BY <1>4 DEF Timeouts
    <2>2. expired \subseteq Ssrcs /\ longer \in [DOMAIN ms -> Nat] /\ DOMAIN longer = DOMAIN ms
      BY <1>0 DEF TableOK
    <2> DEFINE w == [s |-> 0, expired |-> expired]
    <2> HIDE DEF longer, expired
    <2>3. TableOK'
      BY <1>0, <1>4, <2>1, <2>2 DEF Timeouts, TableOK
    <2>4. TruthOK'
      BY <1>0, <1>4 DEF Timeouts, TruthOK
    <2>5. ControlOK'
      <3>1. w \in [s : {0}, expired : SUBSET Ssrcs]
        BY <2>2
      <3>2. arg' = [arg EXCEPT !["runner"] = w]
        BY <2>1
      <3> HIDE DEF w
      <3>3. /\ DOMAIN arg' = Threads /\ arg'["runner"] \in [s : {0}, expired : SUBSET Ssrcs]
            /\ \A u \in Threads \ {"runner"} : arg'[u] = arg[u]
        BY <1>a, <3>1, <3>2
      <3>4. /\ lock' \in [Mutexes -> Threads \cup {Nobody}] /\ lock'["packet"] # "runner"
            /\ lock'["packet"] = lock["packet"]
        BY <1>c, <2>1
      <3>5. "remove" \in Labels["runner"] /\ Goto("runner", "remove")
        BY <1>b, <2>1
      <3> QED  BY <1>0, <3>3, <3>4, <3>5, ReporterMoves
    <2> QED  BY <1>0, <1>4, <2>3, <2>4, <2>5, LocalStays, BoundsStay DEF Timeouts
  <1>5. CASE remove_timeout_ssrc
    <2> DEFINE r == arg["runner"]
    <2>1. PICK s \in r.expired :
             \/ Dereference("runner", s)
             \/ /\ Known(s) /\ RemoveSource("runner", s) /\ MemberLeaves
                /\ arg' = [arg EXCEPT !["runner"].expired = @ \ {s}]
                /\ UNCHANGED <<initials, receivers, local, lock, pc, draft, wire, crash,
                               scenario, budget>>
      BY <1>5 DEF remove_timeout_ssrc
    <2>2. r \in [s : {0}, expired : SUBSET Ssrcs] /\ pc["runner"] = "remove"
      BY <1>0, <1>5 DEF remove_timeout_ssrc, ControlOK, RunnerWork
    <2>3. s \in Ssrcs
      BY <2>2
    <2>4. CASE Dereference("runner", s)
      BY <2>3, <2>4, DereferenceTypes DEF TypeOK, Bounds, Threads
    <2>5. CASE /\ Known(s) /\ RemoveSource("runner", s) /\ MemberLeaves
               /\ arg' = [arg EXCEPT !["runner"].expired = @ \ {s}]
               /\ UNCHANGED <<initials, receivers, local, lock, pc, draft, wire, crash,
                              scenario, budget>>
      <3>1. TableOK' /\ TruthOK'
        BY <1>0, <2>3, <2>5, LeavesTypes, RemoveTypes DEF Threads
      <3>2. arg' = [arg EXCEPT !["runner"] = [r EXCEPT !.expired = r.expired \ {s}]]
        BY <2>5
      <3>3. [r EXCEPT !.expired = r.expired \ {s}] \in [s : {0}, expired : SUBSET Ssrcs]
        BY <2>2
      <3>4. /\ DOMAIN arg' = Threads /\ arg'["runner"] \in [s : {0}, expired : SUBSET Ssrcs]
            /\ \A u \in Threads \ {"runner"} : arg'[u] = arg[u]
        BY <1>a, <3>2, <3>3
      <3>5. ProcessorWork' /\ ReaderWork' /\ RunnerWork' /\ AppWork'
        BY <1>0, <2>5, <3>4
        DEF ControlOK, ProcessorWork, ReaderWork, RunnerWork, AppWork, Packet, Threads
      <3>6. ControlOK'
        BY <1>0, <2>5, <3>4, <3>5 DEF ControlOK
      <3> QED  BY <1>0, <2>5, <3>1, <3>6, LocalStays, BoundsStay
    <2> QED  BY <2>1, <2>4, <2>5
  <1>6. CASE Sleep
    <2>1. ControlOK'
      BY <1>0, <1>6, <1>a, <1>b, <1>c, ReporterMoves DEF Sleep
    <2> QED
      BY <1>0, <1>6, <2>1, TableStays, LocalStays, TruthStays, BoundsStay DEF Sleep, truth
  <1> QED  BY <1>1, <1>2, <1>3, <1>4, <1>5, <1>6 DEF RunnerStep

LEMMA AppTypes == ASSUME TypeOK, AppStep PROVE TypeOK'
  <1>0. TableOK /\ LocalOK /\ ControlOK /\ TruthOK /\ Bounds
    BY DEF TypeOK, Bounds
  <1> SUFFICES TableOK' /\ LocalOK' /\ ControlOK' /\ TruthOK' /\ Bounds'
    BY DEF TypeOK, Bounds
  <1>a. ASSUME NEW r, arg' = [arg EXCEPT !["app"] = r]
        PROVE  /\ DOMAIN arg' = Threads /\ arg'["app"] = r
               /\ \A u \in Threads \ {"app"} : arg'[u] = arg[u]
    BY <1>0, <1>a DEF ControlOK, Threads
  <1>b. \A l \in {"idle", "take", "stopping", "join", "unmap", "destroy", "done", "report"} :
           l \in Labels["app"]
    BY DEF Labels, ReportLabels
  <1>c. ASSUME pc["app"] \notin {"role", "blocks", "send"}, NEW v \in Threads \cup {Nobody},
               lock' = [lock EXCEPT !["participants"] = v]
        PROVE  lock' \in [Mutexes -> Threads \cup {Nobody}] /\ lock'["packet"] # "app"
               /\ lock'["packet"] = lock["packet"]
    BY <1>0, <1>c DEF ControlOK, Mutexes
  \* A call that changes no more than the state of the session.
  <1>d. ASSUME UNCHANGED <<table, control, truth>>, LocalOK', Bounds'
        PROVE  TableOK' /\ LocalOK' /\ ControlOK' /\ TruthOK' /\ Bounds'
    BY <1>0, <1>d, TableStays, ControlStays, TruthStays DEF control, truth
  <1>1. CASE update_sender_stats
    <2>1. LocalOK'
      BY <1>0, <1>1 DEF update_sender_stats, LocalOK
    <2> QED  BY <1>0, <1>1, <1>d, <2>1, Spending DEF update_sender_stats, truth
  <1>2. ASSUME NEW k \in Kinds, NEW s \in Peers, GetPacket(k, s)
        PROVE  TableOK' /\ LocalOK' /\ ControlOK' /\ TruthOK' /\ Bounds'
    <2> DEFINE r == [s |-> s, k |-> k]
    <2>1. pc["app"] = "idle" /\ arg' = [arg EXCEPT !["app"] = r] /\ Goto("app", "take")
          /\ lock' = [lock EXCEPT !["participants"] = "app"] /\ r \in [s : Peers, k : Kinds]
      BY <1>2 DEF GetPacket, Lock
    <2> HIDE DEF r
    <2>2. ControlOK'
      BY <1>0, <1>a, <1>b, <1>c, <2>1, ReporterMoves DEF Threads
    <2>3. TruthOK'
      BY <1>0, <1>2, LookedTypes DEF GetPacket, TruthOK, Threads
    <2> QED
      BY <1>0, <1>2, <2>2, <2>3, TableStays, LocalStays, Spending DEF GetPacket
  <1>3. CASE TakePacket
    <2> DEFINE s == arg["app"].s
               k == arg["app"].k
    <2>1. pc["app"] = "take" /\ s \in Peers /\ k \in Kinds /\ s \in Ssrcs
      BY <1>0, <1>3, Constants DEF TakePacket, ControlOK, AppWork
    <2>2. CASE Dereference("app", s)
      BY <2>1, <2>2, DereferenceTypes DEF TypeOK, Bounds, Threads
    <2>3. CASE /\ Known(s) /\ Change(s, [participants[s] EXCEPT !.held = @ \ {k}])
               /\ Unlock("participants") /\ Goto("app", "idle")
               /\ arg' = [arg EXCEPT !["app"] = Nothing]
               /\ UNCHANGED <<initials, members, receivers, ms, local, draft, wire, truth, budget>>
      <3>1. [participants[s] EXCEPT !.held = @ \ {k}] \in Participant
        BY <1>0, <2>3 DEF TableOK, Known, Participant
      <3>2. TableOK'
        BY <1>0, <2>3, <3>1, ChangeTypes
      <3>3. lock' = [lock EXCEPT !["participants"] = Nobody]
        BY <2>3 DEF Unlock
      <3>4. ControlOK'
        BY <1>0, <1>a, <1>b, <1>c, <2>1, <2>3, <3>3, ReporterMoves
      <3> QED  BY <1>0, <2>3, <3>2, <3>4, LocalStays, TruthStays, BoundsStay DEF truth
    <2> QED  BY <1>3, <2>2, <2>3 DEF TakePacket
  <1>4. ASSUME NEW length \in scenario.appLengths,
               send_app_packet(length) \/ install_send_app_hook(length)
        PROVE  TableOK' /\ LocalOK' /\ ControlOK' /\ TruthOK' /\ Bounds'
    BY <1>0, <1>4, <1>d, Spending
    DEF send_app_packet, install_send_app_hook, Calling, LocalOK, truth
  <1>5. ASSUME NEW items \in scenario.items, send_sdes_packet(items)
        PROVE  TableOK' /\ LocalOK' /\ ControlOK' /\ TruthOK' /\ Bounds'
    BY <1>0, <1>5, <1>d, Spending DEF send_sdes_packet, Calling, LocalOK, truth
  <1>6. CASE remove_send_app_hook
    BY <1>0, <1>6, <1>d, Spending DEF remove_send_app_hook, Calling, LocalOK, truth
  <1>7. ASSUME NEW k \in scenario.hooks, install_hook(k)
        PROVE  TableOK' /\ LocalOK' /\ ControlOK' /\ TruthOK' /\ Bounds'
    <2>1. k \in Kinds
      BY <1>0, ScenariosAssumption DEF Bounds
    <2> QED  BY <1>0, <1>7, <1>d, <2>1, Spending DEF install_hook, Calling, LocalOK, truth
  <1>8. CASE remove_all_hooks
    BY <1>0, <1>8, <1>d, Spending DEF remove_all_hooks, Calling, LocalOK, truth
  <1>9. CASE Stop
    <2>1. LocalOK'
      BY <1>0, <1>9 DEF Stop, LocalOK
    <2>2. ControlOK'
      BY <1>0, <1>9, <1>b, ReporterGoes DEF Stop, Calling
    <2> QED
      BY <1>0, <1>9, <2>1, <2>2, TableStays, TruthStays, Spending DEF Stop, Calling, truth
  <1>10. CASE ReportStep("app")
    BY <1>10, ReportTypes DEF TypeOK, Bounds
  <1>11. CASE Deactivate
    <2>1. LocalOK'
      BY <1>0, <1>11 DEF Deactivate, LocalOK
    <2>2. ControlOK'
      BY <1>0, <1>11, <1>b, ReporterGoes DEF Deactivate
    <2> QED
      BY <1>0, <1>11, <2>1, <2>2, TableStays, TruthStays, BoundsStay DEF Deactivate, truth
  <1>12. CASE JoinRunner
    <2>1. ControlOK'
      BY <1>0, <1>12, <1>b, ReporterGoes DEF JoinRunner
    <2> QED
      BY <1>0, <1>12, <2>1, TableStays, LocalStays, TruthStays, BoundsStay DEF JoinRunner, truth
  <1>13. CASE Unmap
    <2>1. LocalOK'
      BY <1>0, <1>13 DEF Unmap, LocalOK
    <2>2. ControlOK'
      BY <1>0, <1>13, <1>b, ReporterGoes DEF Unmap
    <2> QED
      BY <1>0, <1>13, <2>1, <2>2, TableStays, TruthStays, BoundsStay DEF Unmap, truth
  <1>14. CASE cleanup_participants
    <2>1. pc["app"] \in {"stopping", "destroy"} /\ Goto("app", "done") /\ UNCHANGED <<lock, arg>>
      BY <1>14 DEF cleanup_participants
    <2>2. ControlOK'
      BY <1>0, <1>b, <2>1, ReporterGoes
    <2>3. DOMAIN participants' = {} /\ participants' \in [{} -> Participant]
      BY <1>14 DEF cleanup_participants
    <2>4. TableOK'
      BY <1>0, <1>14, <2>3 DEF cleanup_participants, TableOK
    <2>5. TruthOK'
      BY <1>0, <1>14, UnheardTypes DEF cleanup_participants, TruthOK
    <2> QED
      BY <1>0, <1>14, <2>2, <2>4, <2>5, LocalStays, BoundsStay DEF cleanup_participants
  <1> QED
    BY <1>1, <1>2, <1>3, <1>4, <1>5, <1>6, <1>7, <1>8, <1>9, <1>10, <1>11, <1>12, <1>13, <1>14
    DEF AppStep

LEMMA TypesInit == Init => TypeOK
  <1> SUFFICES ASSUME Init PROVE TypeOK
    OBVIOUS
  <1>1. Bounds /\ active \in BOOLEAN /\ mapped \in BOOLEAN
    BY ScenariosAssumption DEF Init, Bounds
  <1>2. TableOK
    BY Constants DEF Init, TableOK
  <1>3. LocalOK
    BY <1>1 DEF Init, LocalOK
  <1>4. TruthOK
    BY Constants, UnheardTypes DEF Init, TruthOK, NoCrash
  <1>5. ControlOK
    BY DEF Init, ControlOK, ProcessorWork, ReaderWork, RunnerWork, AppWork, Labels, Threads,
           Nobody, Mutexes
  <1> QED  BY <1>1, <1>2, <1>3, <1>4, <1>5 DEF TypeOK, Bounds

LEMMA TypesStutter == TypeOK /\ UNCHANGED vars => TypeOK'
  BY TableStays, LocalStays, ControlStays, TruthStays DEF TypeOK, vars, control, truth

\* The variables keep to their types, and the threads to where they have what they need:
\* a packet in the hands of the reader, a source, a mutex (rtcp.cc:1199, 1385, 1500).
THEOREM SessionTypes == Spec => []TypeOK
  <1>1. TypeOK /\ [Next]_vars => TypeOK'
    BY ProcessorTypes, ReaderTypes, RunnerTypes, AppTypes, TypesStutter DEF Next
  <1> QED  BY TypesInit, <1>1, PTL DEF Spec

-----------------------------------------------------------------------------
(* Mutexes.                                                                *)

LEMMA MutexesDiffer ==
    /\ \A k \in Kinds : MutexOf[k] \in Mutexes \ {"packet", "participants"}
    /\ \A k, l \in Kinds : MutexOf[k] = MutexOf[l] => k = l
  BY DEF MutexOf, Kinds, Mutexes, SR, RR, SDES, APP

\* A step that takes and releases no mutex.
LEMMA MutualStays ==
    ASSUME Mutual, UNCHANGED lock, pc'["app"] = "take" <=> pc["app"] = "take",
           pc'["reader"] = "store" <=> pc["reader"] = "store",
           pc["reader"] = "store" => Packet' = Packet
    PROVE  Mutual'
  BY DEF Mutual

\* Where a thread is after it has gone on.
LEMMA Gone ==
    ASSUME ControlOK, NEW t \in Threads, NEW l, Goto(t, l)
    PROVE  pc'[t] = l /\ \A u \in Threads \ {t} : pc'[u] = pc[u]
  BY DEF ControlOK, Goto

LEMMA ProcessorMutual == ASSUME TypeOK, Mutual, ProcessorStep PROVE Mutual'
  <1> DEFINE Only == /\ UNCHANGED lock /\ \A u \in Threads \ {"processor"} : pc'[u] = pc[u]
                     /\ arg'["reader"] = arg["reader"]
  <1>0. ControlOK /\ DOMAIN arg = Threads
    BY DEF TypeOK, ControlOK
  <1>a. ASSUME NEW l, Goto("processor", l) PROVE \A u \in Threads \ {"processor"} : pc'[u] = pc[u]
    BY <1>0, <1>a, Gone DEF Threads
  <1>b. ASSUME Processed PROVE /\ \A u \in Threads \ {"processor"} : pc'[u] = pc[u]
                               /\ arg'["reader"] = arg["reader"]
    BY <1>0, <1>a, <1>b DEF Processed, Threads
  <1>1. ASSUME NEW x \in scenario.senders, NEW y \in Indexes(x), RtpPacket(x, y) PROVE Only
    BY <1>0, <1>1, <1>a DEF RtpPacket, Threads
  <1>2. ASSUME init_new_participant PROVE Only
    BY <1>2, <1>a, <1>b DEF init_new_participant
  <1>3. ASSUME init_participant_seq PROVE Only
    BY <1>3, <1>a, <1>b DEF init_participant_seq
  <1>4. ASSUME Probation PROVE Only
    BY <1>4, <1>a DEF Probation, Dereference, control
  <1>5. ASSUME UpdateSeq PROVE Only
    BY <1>5, <1>a, <1>b DEF UpdateSeq
  <1>6. ASSUME Statistics PROVE Only
    BY <1>6, <1>b DEF Statistics
  <1>7. Only
    BY <1>1, <1>2, <1>3, <1>4, <1>5, <1>6 DEF ProcessorStep
  <1> QED  BY <1>7, MutualStays DEF Threads, Packet

LEMMA ReaderMutual == ASSUME TypeOK, Mutual, ReaderStep PROVE Mutual'
  <1> DEFINE Outside == /\ UNCHANGED lock /\ pc'["app"] = pc["app"]
                        /\ pc["reader"] # "store" /\ pc'["reader"] # "store"
  <1>0. ControlOK
    BY DEF TypeOK
  <1>a. ASSUME NEW l, Goto("reader", l)
        PROVE  pc'["reader"] = l /\ \A u \in Threads \ {"reader"} : pc'[u] = pc[u]
    BY <1>0, <1>a, Gone DEF Threads
  <1>b. ASSUME NEW s, Dereference("reader", s) PROVE Mutual'
    BY <1>b, MutualStays DEF Dereference, control, Packet
  <1>c. ASSUME Outside PROVE Mutual'
    BY <1>c, MutualStays
  <1>1. ASSUME NEW frame \in scenario.frames, Receive(frame) PROVE Mutual'
    BY <1>1, <1>a, <1>c DEF Receive, Threads
  <1>2. CASE EndOfCompound
    BY <1>2, <1>a, <1>c DEF EndOfCompound, Return, Threads
  <1>3. CASE NextPacket
    <2>1. UNCHANGED lock /\ pc["reader"] = "next"
          /\ \E l \in {"bye", "add", "stats", "deliver"} : Goto("reader", l)
      BY <1>3 DEF NextPacket, AfterLookup
    <2> QED  BY <1>a, <1>c, <2>1 DEF Threads
  <1>4. CASE AddUnknown
    <2>1. UNCHANGED lock /\ pc["reader"] = "add"
          /\ \E l \in {"stats", "deliver"} : Goto("reader", l)
      BY <1>4 DEF AddUnknown, AfterLookup
    <2> QED  BY <1>a, <1>c, <2>1 DEF Threads
  <1>5. CASE SenderReport
    BY <1>5, <1>a, <1>b, <1>c DEF SenderReport, Threads
  <1>6. CASE CallHook
    BY <1>6, <1>a, <1>c DEF CallHook, Advance, Threads
  <1>7. CASE HoldReport
    <2>1. pc["reader"] = "deliver" /\ pc'["reader"] = "store" /\ pc'["app"] = pc["app"]
          /\ Packet' = Packet /\ lock' = [lock EXCEPT ![MutexOf[Packet.type]] = "reader"]
      BY <1>7, <1>a DEF HoldReport, Lock, Threads, Packet
    <2>2. Packet.type \in Kinds /\ DOMAIN lock = Mutexes
      BY <1>0, <2>1 DEF ControlOK, ReaderWork
    <2> DEFINE k == Packet.type
    <2>3. lock'["packet"] = lock["packet"] /\ lock'["participants"] = lock["participants"]
      BY <2>1, <2>2, MutexesDiffer
    <2>4. \A l \in Kinds : lock'[MutexOf[l]] = IF l = k THEN "reader" ELSE lock[MutexOf[l]]
      BY <2>1, <2>2, MutexesDiffer
    <2> QED  BY <2>1, <2>3, <2>4 DEF Mutual
  <1>8. CASE StoreReport
    <2>1. pc["reader"] = "store"
      BY <1>8 DEF StoreReport
    <2>2. CASE Unlock(MutexOf[Packet.type]) /\ Advance
      <3>1. pc'["reader"] = "next" /\ pc'["app"] = pc["app"]
            /\ lock' = [lock EXCEPT ![MutexOf[Packet.type]] = Nobody]
        BY <2>2, <1>a DEF Unlock, Advance, Threads
      <3>2. Packet.type \in Kinds /\ DOMAIN lock = Mutexes
        BY <1>0, <2>1 DEF ControlOK, ReaderWork
      <3> DEFINE k == Packet.type
      <3>3. lock'["packet"] = lock["packet"] /\ lock'["participants"] = lock["participants"]
        BY <3>1, <3>2, MutexesDiffer
      <3>4. \A l \in Kinds : lock'[MutexOf[l]] = IF l = k THEN Nobody ELSE lock[MutexOf[l]]
        BY <3>1, <3>2, MutexesDiffer
      <3> QED  BY <2>1, <3>1, <3>3, <3>4 DEF Mutual
    <2> QED  BY <1>8, <1>b, <2>2 DEF StoreReport
  <1>9. CASE LookUpBye
    <2>1. UNCHANGED lock /\ pc["reader"] = "bye"
          /\ (Goto("reader", "erase") \/ UNCHANGED pc)
      BY <1>9 DEF LookUpBye
    <2> QED  BY <1>a, <1>c, <2>1 DEF Threads
  <1>10. CASE EraseBye
    BY <1>10, <1>a, <1>b, <1>c DEF EraseBye, Threads
  <1>11. CASE EndOfBye
    BY <1>11, <1>a, <1>c DEF EndOfBye, Advance, Threads
  <1> QED
    BY <1>1, <1>2, <1>3, <1>4, <1>5, <1>6, <1>7, <1>8, <1>9, <1>10, <1>11 DEF ReaderStep

LEMMA ReportMutual ==
    ASSUME TypeOK, Mutual, NEW t \in {"runner", "app"}, ReportStep(t)
    PROVE  Mutual'
  <1>0. ControlOK /\ DOMAIN lock = Mutexes /\ t \in Threads
    BY DEF TypeOK, ControlOK, Threads
  <1>1. \E l : Goto(t, l) /\ l # "take"
    BY DEF ReportStep, NoParticipants, SenderRole, ReceiverRole, ReportBlocks, SendReport,
           AbandonReport, AfterReport
  <1>2. /\ pc[t] # "take" /\ UNCHANGED arg
        /\ UNCHANGED lock \/ \E v \in {t, Nobody} : lock' = [lock EXCEPT !["packet"] = v]
    BY DEF ReportStep, NoParticipants, SenderRole, ReceiverRole, ReportBlocks, SendReport,
           AbandonReport, Lock, Unlock
  <1>3. (pc'["app"] = "take" <=> pc["app"] = "take") /\ pc'["reader"] = pc["reader"]
    BY <1>0, <1>1, <1>2, Gone DEF Threads
  <1>4. lock'["packet"] \in {"runner", "app", Nobody}
    BY <1>0, <1>2 DEF Mutual, Mutexes
  <1>5. \A m \in Mutexes \ {"packet"} : lock'[m] = lock[m]
    BY <1>0, <1>2
  <1>6. lock'["participants"] = lock["participants"]
    BY <1>5 DEF Mutexes
  <1>7. \A k \in Kinds : lock'[MutexOf[k]] = lock[MutexOf[k]]
    BY <1>5, MutexesDiffer
  <1>8. Packet' = Packet
    BY <1>2 DEF Packet
  <1> QED  BY <1>3, <1>4, <1>6, <1>7, <1>8 DEF Mutual

LEMMA RunnerMutual == ASSUME TypeOK, Mutual, RunnerStep PROVE Mutual'
  <1>0. ControlOK /\ DOMAIN arg = Threads
    BY DEF TypeOK, ControlOK
  <1>1. CASE ReportStep("runner")
    BY <1>1, ReportMutual
  <1>2. CASE Wake \/ Exit \/ Timeouts \/ Sleep
    <2>1. UNCHANGED lock /\ arg'["reader"] = arg["reader"]
      BY <1>0, <1>2 DEF Wake, Exit, Timeouts, Sleep, Threads
    <2>2. \E l : Goto("runner", l)
      BY <1>2 DEF Wake, Exit, Timeouts, Sleep
    <2> QED  BY <1>0, <2>1, <2>2, Gone, MutualStays DEF Threads, Packet
  <1>3. CASE remove_timeout_ssrc
    <2>1. UNCHANGED <<lock, pc>> /\ arg'["reader"] = arg["reader"]
      BY <1>0, <1>3 DEF remove_timeout_ssrc, Dereference, control, Threads
    <2> QED  BY <2>1, MutualStays DEF Packet
  <1> QED  BY <1>1, <1>2, <1>3 DEF RunnerStep

LEMMA AppMutual == ASSUME TypeOK, Mutual, AppStep PROVE Mutual'
  <1>0. ControlOK /\ DOMAIN arg = Threads /\ DOMAIN lock = Mutexes
    BY DEF TypeOK, ControlOK
  <1>a. ASSUME NEW l, Goto("app", l)
        PROVE  pc'["app"] = l /\ pc'["reader"] = pc["reader"]
    BY <1>0, <1>a, Gone DEF Threads
  <1>b. ASSUME arg'["reader"] = arg["reader"], NEW v, lock' = [lock EXCEPT !["participants"] = v],
               Goto("app", IF v = "app" THEN "take" ELSE "idle"), v \in {"app", Nobody}
        PROVE  Mutual'
    <2>1. /\ lock'["packet"] = lock["packet"] /\ lock'["participants"] = v
          /\ \A k \in Kinds : lock'[MutexOf[k]] = lock[MutexOf[k]]
      BY <1>0, <1>b, MutexesDiffer DEF Mutexes
    <2>2. pc'["app"] = (IF v = "app" THEN "take" ELSE "idle") /\ pc'["reader"] = pc["reader"]
      BY <1>a, <1>b
    <2>3. Packet' = Packet
      BY <1>b DEF Packet
    <2> QED  BY <1>b, <2>1, <2>2, <2>3 DEF Mutual, Nobody
  <1>1. ASSUME NEW k \in Kinds, NEW s \in Peers, GetPacket(k, s) PROVE Mutual'
    <2>1. /\ arg'["reader"] = arg["reader"] /\ lock' = [lock EXCEPT !["participants"] = "app"]
          /\ Goto("app", "take")
      BY <1>0, <1>1 DEF GetPacket, Lock, Threads
    <2> QED  BY <1>b, <2>1
  <1>2. CASE TakePacket
    <2>1. CASE Dereference("app", arg["app"].s)
      BY <2>1, MutualStays DEF Dereference, control, Packet
    <2>2. CASE Unlock("participants") /\ Goto("app", "idle") /\ arg' = [arg EXCEPT !["app"] = Nothing]
      <3>1. /\ arg'["reader"] = arg["reader"] /\ lock' = [lock EXCEPT !["participants"] = Nobody]
            /\ Goto("app", "idle")
        BY <1>0, <2>2 DEF Unlock, Threads
      <3> QED  BY <1>b, <3>1 DEF Nobody
    <2> QED  BY <1>2, <2>1, <2>2 DEF TakePacket
  <1>3. CASE ReportStep("app")
    BY <1>3, ReportMutual
  <1>4. CASE \/ update_sender_stats \/ remove_send_app_hook \/ remove_all_hooks
             \/ \E length \in scenario.appLengths :
                   send_app_packet(length) \/ install_send_app_hook(length)
             \/ \E items \in scenario.items : send_sdes_packet(items)
             \/ \E k \in scenario.hooks : install_hook(k)
    <2>1. UNCHANGED control
      BY <1>4 DEF update_sender_stats, remove_send_app_hook, remove_all_hooks, send_app_packet,
                  install_send_app_hook, send_sdes_packet, install_hook
    <2> QED  BY <2>1, MutualStays DEF control, Packet
  <1>5. CASE Stop \/ Deactivate \/ JoinRunner \/ Unmap \/ cleanup_participants
    <2>1. UNCHANGED <<lock, arg>> /\ pc["app"] # "take" /\ \E l : Goto("app", l) /\ l # "take"
      BY <1>5 DEF Stop, Deactivate, JoinRunner, Unmap, cleanup_participants, Calling
    <2> QED  BY <1>a, <2>1, MutualStays DEF Packet
  <1> QED  BY <1>1, <1>2, <1>3, <1>4, <1>5 DEF AppStep

LEMMA MutexInvariant == Spec => [](TypeOK /\ Mutual)
  <1>1. Init => Mutual
    <2> SUFFICES ASSUME Init PROVE Mutual
      OBVIOUS
    <2>1. \A m \in Mutexes : lock[m] = Nobody
      BY DEF Init
    <2>2. pc["app"] = "idle" /\ pc["reader"] = "idle"
      BY DEF Init, Threads
    <2> QED  BY <2>1, <2>2, MutexesDiffer DEF Mutual, Mutexes
  <1>2. TypeOK /\ Mutual /\ [Next]_vars => Mutual'
    <2> SUFFICES ASSUME TypeOK, Mutual, [Next]_vars PROVE Mutual'
      OBVIOUS
    <2>1. CASE UNCHANGED vars
      BY <2>1, MutualStays DEF vars, control, Packet
    <2> QED
      BY <2>1, ProcessorMutual, ReaderMutual, RunnerMutual, AppMutual DEF Next
  <1> QED  BY <1>1, <1>2, SessionTypes, PTL DEF Spec

\* Nobody waits for the processor, and nobody whom others wait for waits for the runner.
LEMMA CircleOfTwo ==
    ASSUME TypeOK, Mutual, NEW D \in SUBSET Threads, D # {}, Circle(D)
    PROVE  /\ D = {"app", "reader"}
           /\ pc["app"] = "take" /\ pc["reader"] = "store" /\ arg["app"].k = Packet.type
  <1>0. ControlOK
    BY DEF TypeOK
  <1>1. ASSUME NEW t \in D, NEW u \in D, WaitsFor(t, u)
        PROVE  \/ u = "app" /\ pc["app"] = "take" /\ "participants" \in Wants(t)
               \/ u = "reader" /\ pc["reader"] = "store" /\ MutexOf[Packet.type] \in Wants(t)
               \/ u \in {"runner", "app"} /\ "packet" \in Wants(t)
                     /\ pc[u] \in {"role", "blocks", "send"}
    <2>1. PICK m \in Wants(t) : lock[m] = u
      BY <1>1 DEF WaitsFor
    <2>2. u \in Threads /\ u # Nobody
      BY Constants
    <2>3. Wants(t) \subseteq {"packet", "participants"} \cup {MutexOf[k] : k \in Kinds}
      <3>1. ASSUME pc[t] = "deliver" PROVE Packet.type \in Kinds
        BY <1>0, <3>1 DEF ControlOK, ReaderWork, Labels, ReportLabels, Threads
      <3>2. ASSUME pc[t] = "take" PROVE arg[t].k \in Kinds
        BY <1>0, <3>2 DEF ControlOK, AppWork, Labels, ReportLabels, Threads
      <3> QED  BY <3>1, <3>2 DEF Wants
    <2>4. CASE m = "packet"
      BY <1>0, <2>1, <2>2, <2>4 DEF Mutual, ControlOK, Nobody
    <2>5. CASE m = "participants"
      BY <2>1, <2>2, <2>5 DEF Mutual
    <2>6. CASE \E k \in Kinds : m = MutexOf[k]
      BY <2>1, <2>2, <2>6 DEF Mutual
    <2> QED  BY <2>1, <2>3, <2>4, <2>5, <2>6
  <1>2. \A t \in D : (\E u \in D : WaitsFor(t, u)) /\ (\E u \in D : WaitsFor(u, t))
    BY DEF Circle
  <1>3. \A t \in D : t \in {"app", "reader", "runner"}
    BY <1>1, <1>2
  <1>4. ASSUME NEW t \in Threads, "packet" \in Wants(t) PROVE pc[t] = "report"
    <2>1. \A k \in Kinds : MutexOf[k] # "packet"
      BY MutexesDiffer
    <2>2. ASSUME pc[t] = "deliver" PROVE Packet.type \in Kinds
      BY <1>0, <2>2 DEF ControlOK, ReaderWork, Labels, ReportLabels, Threads
    <2>3. ASSUME pc[t] = "take" PROVE arg[t].k \in Kinds
      BY <1>0, <2>3 DEF ControlOK, AppWork, Labels, ReportLabels, Threads
    <2> QED  BY <1>4, <2>1, <2>2, <2>3 DEF Wants
  <1>5. \A t \in D : pc[t] # "report"
    <2> SUFFICES ASSUME NEW t \in D, pc[t] = "report" PROVE FALSE
      OBVIOUS
    <2>1. PICK u \in D : WaitsFor(u, t)
      BY <1>2
    <2> QED  BY <1>1, <2>1
  <1>6. \A t \in D, u \in D : WaitsFor(t, u) =>
           \/ u = "app" /\ pc["app"] = "take" /\ "participants" \in Wants(t)
           \/ u = "reader" /\ pc["reader"] = "store" /\ MutexOf[Packet.type] \in Wants(t)
    BY <1>1, <1>4, <1>5
  <1>7. D \subseteq {"app", "reader"}
    BY <1>2, <1>6
  <1>8. "app" \in D => /\ pc["app"] = "take" /\ Wants("app") = {MutexOf[arg["app"].k]}
                       /\ arg["app"].k \in Kinds
    <2>1. "app" \in D => pc["app"] = "take"
      BY <1>2, <1>6
    <2>2. pc["app"] = "take" => Wants("app") = {MutexOf[arg["app"].k]} /\ arg["app"].k \in Kinds
      BY <1>0 DEF Wants, ControlOK, AppWork
    <2> QED  BY <2>1, <2>2
  <1>9. "reader" \in D => /\ pc["reader"] = "store" /\ Wants("reader") = {"participants"}
                          /\ Packet.type \in Kinds
    <2>1. "reader" \in D => pc["reader"] = "store"
      BY <1>2, <1>6
    <2>2. pc["reader"] = "store" => Wants("reader") = {"participants"} /\ Packet.type \in Kinds
      BY <1>0 DEF Wants, ControlOK, ReaderWork
    <2> QED  BY <2>1, <2>2
  <1>10. "app" \in D => "reader" \in D /\ arg["app"].k = Packet.type
    <2> SUFFICES ASSUME "app" \in D PROVE "reader" \in D /\ arg["app"].k = Packet.type
      OBVIOUS
    <2>1. PICK u \in D : WaitsFor("app", u)
      BY <1>2
    <2>2. "participants" \notin Wants("app")
      BY <1>8, MutexesDiffer
    <2>3. u = "reader" /\ MutexOf[Packet.type] \in Wants("app")
      BY <1>6, <2>1, <2>2
    <2> QED  BY <1>8, <1>9, <2>3, MutexesDiffer
  <1>11. "reader" \in D => "app" \in D
    <2> SUFFICES ASSUME "reader" \in D PROVE "app" \in D
      OBVIOUS
    <2>1. PICK u \in D : WaitsFor("reader", u)
      BY <1>2
    <2>2. MutexOf[Packet.type] \notin Wants("reader")
      BY <1>9, MutexesDiffer
    <2> QED  BY <1>6, <2>1, <2>2
  <1> QED  BY <1>7, <1>8, <1>9, <1>10, <1>11

\* The only deadlock of the threads of an rtcp object is that of a getter and the reader
\* that stores a packet of the same kind (rtcp.cc:703, 1425), for all the peers may send
\* and the application may do.
THEOREM OneDeadlock == Spec => []OnlyGettersDeadlock
  <1>1. TypeOK /\ Mutual => OnlyGettersDeadlock
    <2> SUFFICES ASSUME TypeOK, Mutual, Deadlocked # {}
                 PROVE  /\ Deadlocked = {"app", "reader"}
                        /\ pc["app"] = "take" /\ pc["reader"] = "store"
                        /\ arg["app"].k = Packet.type
      BY DEF OnlyGettersDeadlock
    <2>1. PICK D \in SUBSET Threads : Circle(D) /\ D # {}
      BY DEF Deadlocked
    <2>2. \A E \in SUBSET Threads : Circle(E) /\ E # {} => E = {"app", "reader"}
      BY CircleOfTwo
    <2>3. Deadlocked = {"app", "reader"}
      BY <2>1, <2>2 DEF Deadlocked
    <2> QED  BY <2>1, <2>3, CircleOfTwo
  <1> QED  BY <1>1, MutexInvariant, PTL

-----------------------------------------------------------------------------
(* Lookups.                                                                *)

LEMMA ProcessorEnded == ASSUME TypeOK, Ended, ProcessorStep PROVE Ended'
  <1>0. ControlOK
    BY DEF TypeOK
  <1>1. /\ UNCHANGED <<active, mapped>> /\ pc["app"] # "done" /\ \E l : Goto("processor", l) \/ UNCHANGED pc
    BY DEF ProcessorStep, RtpPacket, init_new_participant, init_participant_seq, Probation,
           UpdateSeq, Statistics, Processed, Dereference, control, local, Ended
  <1>2. \A u \in Threads \ {"processor"} : pc'[u] = pc[u]
    BY <1>0, <1>1, Gone DEF Threads
  <1> QED  BY <1>1, <1>2 DEF Ended, Threads

LEMMA ReaderEnded == ASSUME TypeOK, Ended, ReaderStep PROVE Ended'
  <1>0. ControlOK
    BY DEF TypeOK
  <1>1. /\ UNCHANGED <<active, mapped>> /\ mapped /\ \E l : Goto("reader", l) \/ UNCHANGED pc
    BY DEF ReaderStep, Receive, EndOfCompound, NextPacket, AddUnknown, SenderReport, CallHook,
           HoldReport, StoreReport, LookUpBye, EraseBye, EndOfBye, Advance, Return, Dereference,
           control, local, Ended
  <1>2. \A u \in Threads \ {"reader"} : pc'[u] = pc[u]
    BY <1>0, <1>1, Gone DEF Threads
  <1> QED  BY <1>1, <1>2 DEF Ended, Threads

LEMMA ReportEnded ==
    ASSUME TypeOK, Ended, NEW t \in {"runner", "app"}, ReportStep(t)
    PROVE  Ended'
  <1>0. ControlOK /\ t \in Threads
    BY DEF TypeOK, Threads
  <1>1. /\ UNCHANGED <<active, mapped>> /\ pc[t] \in ReportLabels
        /\ \E l : Goto(t, l) /\ l \in {"timeouts", "stopping"} \cup ReportLabels
    BY DEF ReportStep, NoParticipants, SenderRole, ReceiverRole, ReportBlocks, SendReport,
           AbandonReport, AfterReport, ReportLabels, local
  <1>2. PICK l : pc'[t] = l /\ l \in {"timeouts", "stopping"} \cup ReportLabels
                 /\ \A u \in Threads \ {t} : pc'[u] = pc[u]
    BY <1>0, <1>1, Gone
  <1> QED  BY <1>1, <1>2 DEF Ended, Threads, ReportLabels

LEMMA RunnerEnded == ASSUME TypeOK, Ended, RunnerStep PROVE Ended'
  <1>0. ControlOK
    BY DEF TypeOK
  <1>1. CASE ReportStep("runner")
    BY <1>1, ReportEnded
  <1>2. CASE ~ReportStep("runner")
    <2>1. /\ UNCHANGED <<active, mapped>> /\ pc["runner"] # "done"
          /\ \E l : Goto("runner", l) \/ UNCHANGED pc
      BY <1>2 DEF RunnerStep, Wake, Exit, Timeouts, remove_timeout_ssrc, Sleep, Dereference,
                  control, local
    <2>2. \A u \in Threads \ {"runner"} : pc'[u] = pc[u]
      BY <1>0, <2>1, Gone DEF Threads
    <2> QED  BY <2>1, <2>2 DEF Ended, Threads
  <1> QED  BY <1>1, <1>2

LEMMA AppEnded == ASSUME TypeOK, Ended, AppStep PROVE Ended'
  <1>0. ControlOK /\ LocalOK
    BY DEF TypeOK
  <1>a. ASSUME NEW l, Goto("app", l)
        PROVE  pc'["app"] = l /\ \A u \in Threads \ {"app"} : pc'[u] = pc[u]
    BY <1>0, <1>a, Gone DEF Threads
  <1>1. CASE \/ update_sender_stats \/ remove_send_app_hook \/ remove_all_hooks
             \/ \E length \in scenario.appLengths :
                   send_app_packet(length) \/ install_send_app_hook(length)
             \/ \E items \in scenario.items : send_sdes_packet(items)
             \/ \E k \in scenario.hooks : install_hook(k)
    <2>1. UNCHANGED <<pc, active, mapped>>
      BY <1>1 DEF update_sender_stats, remove_send_app_hook, remove_all_hooks, send_app_packet,
                  install_send_app_hook, send_sdes_packet, install_hook, control
    <2> QED  BY <2>1 DEF Ended
  <1>2. CASE \/ \E k \in Kinds, s \in Peers : GetPacket(k, s)
             \/ TakePacket \/ Stop
    <2>1. UNCHANGED <<active, mapped>> /\ pc["app"] \in {"idle", "take"}
          /\ (UNCHANGED pc \/ \E l \in {"idle", "take", "report"} : Goto("app", l))
      BY <1>2 DEF GetPacket, TakePacket, Stop, Calling, Dereference, local, control
    <2> QED  BY <1>a, <2>1 DEF Ended, Threads
  <1>3. CASE ReportStep("app")
    BY <1>3, ReportEnded
  <1>4. CASE Deactivate
    BY <1>0, <1>4, <1>a DEF Deactivate, Ended, Threads
  <1>5. CASE JoinRunner
    BY <1>5, <1>a DEF JoinRunner, Ended, Threads, local
  <1>6. CASE Unmap
    BY <1>6, <1>a DEF Unmap, Ended, Threads
  <1>7. CASE cleanup_participants
    BY <1>7, <1>a DEF cleanup_participants, Ended, Threads, local
  <1> QED  BY <1>1, <1>2, <1>3, <1>4, <1>5, <1>6, <1>7 DEF AppStep

LEMMA EndedInvariant == Spec => [](TypeOK /\ Ended)
  <1>1. Init => Ended
    <2> SUFFICES ASSUME Init PROVE Ended
      OBVIOUS
    <2>1. active = scenario.started /\ mapped = scenario.started
          /\ pc["app"] = "idle" /\ pc["reader"] = "idle"
          /\ pc["runner"] = IF active THEN "sleep" ELSE "done"
      BY DEF Init, Threads
    <2> QED  BY <2>1 DEF Ended
  <1>2. TypeOK /\ Ended /\ [Next]_vars => Ended'
    <2> SUFFICES ASSUME TypeOK, Ended, [Next]_vars PROVE Ended'
      OBVIOUS
    <2>1. CASE UNCHANGED vars
      BY <2>1 DEF vars, control, local, Ended
    <2> QED
      BY <2>1, ProcessorEnded, ReaderEnded, RunnerEnded, AppEnded DEF Next
  <1> QED  BY <1>1, <1>2, SessionTypes, PTL DEF Spec

\* Nothing is forgotten of the table but what is added to it.
Grows ==
    /\ DOMAIN participants \subseteq DOMAIN participants' /\ (TableFull => TableFull')
    /\ \A x \in strays : x \in strays' \/ Known(x)' \/ TableFull'

LEMMA AddGrows ==
    ASSUME TypeOK, NEW s, NEW i, add_participant(s, i)
    PROVE  Grows /\ (s \in DOMAIN participants' \/ TableFull')
  <1>1. receivers \in 0 .. MaxParticipants /\ MaxParticipants \in Nat
    BY Constants DEF TypeOK, TableOK
  <1>2. CASE Addable
    <2>1. DOMAIN participants' = DOMAIN participants \cup {s} /\ strays' = strays \ {s}
      BY <1>2 DEF add_participant, With, Forget
    <2>2. ~TableFull
      BY <1>1, <1>2 DEF Addable, TableFull
    <2> QED  BY <2>1, <2>2 DEF Grows, Known
  <1>3. CASE ~Addable
    <2>1. UNCHANGED <<participants, receivers, strays>> /\ TableFull
      BY <1>1, <1>3 DEF add_participant, Addable, TableFull
    <2> QED  BY <2>1 DEF Grows, TableFull
  <1> QED  BY <1>2, <1>3

LEMMA SameGrows ==
    ASSUME UNCHANGED <<receivers, strays>>, DOMAIN participants' = DOMAIN participants
    PROVE  Grows /\ \A x : Counted(x) => Counted(x)' \/ Adding(x)
  BY DEF Grows, TableFull, Counted, Known

\* A step of t that forgets nothing.
LEMMA LookupsKept ==
    ASSUME Lookups, UNCHANGED crash, Grows, NEW t \in Threads,
           \A u \in Threads \ {t} : pc'[u] = pc[u] /\ arg'[u] = arg[u] /\ gone'[u] = gone[u],
           \A x \in DOMAIN ms' \ DOMAIN ms : Counted(x)',
           \A x : Adding(x) => Counted(x)',
           crash = NoCrash,
           t = "processor" => ProcessorFinds',
           t = "reader"    => ReaderFinds',
           t = "app"       => AppFinds',
           t = "runner"    => ExpiredCounted' /\ (pc["runner"] = "done" => pc'["runner"] = "done")
    PROVE  Lookups'
  <1>1. \A x, u : Found(u, x) /\ gone'[u] = gone[u] => Found(u, x)'
    BY DEF Found, Known, Grows
  <1>2. \A x : Counted(x) => Counted(x)'
    BY DEF Counted, Known, Grows
  <1>3. ProcessorFinds'
    BY <1>1 DEF Lookups, ProcessorFinds, Threads
  <1>4. ReaderFinds'
    BY <1>1 DEF Lookups, ReaderFinds, Threads, Subject, Packet, Sender
  <1>5. AppFinds'
    BY <1>1 DEF Lookups, AppFinds, Threads
  <1>6. SilenceCounted'
    BY <1>2 DEF Lookups, SilenceCounted, Threads
  <1>7. ExpiredCounted'
    BY <1>2 DEF Lookups, ExpiredCounted, Threads
  <1> QED
    BY <1>3, <1>4, <1>5, <1>6, <1>7 DEF Lookups, CrashOnlyAfterRemoval

\* A source is removed by t, which has not looked it up for later.
LEMMA LookupsRemoved ==
    ASSUME TypeOK, Lookups, UNCHANGED <<crash, receivers>>, crash = NoCrash,
           NEW t \in {"reader", "runner"}, NEW s, RemoveSource(t, s),
           \A u \in Threads \ {t} : pc'[u] = pc[u] /\ arg'[u] = arg[u],
           t = "reader" => pc["reader"] = "erase" /\ pc'["reader"] = "bye",
           t = "runner" => /\ pc["runner"] = "remove" /\ pc'["runner"] = "remove"
                           /\ arg'["runner"].expired = arg["runner"].expired \ {s}
    PROVE  Lookups'
  <1>1. /\ DOMAIN participants' = DOMAIN participants \ {s} /\ DOMAIN ms' = DOMAIN ms \ {s}
        /\ strays' = strays \ {s} /\ gone'[t] = gone[t]
        /\ \A u \in Threads \ {t} : gone'[u] = gone[u] \cup {s}
    BY DEF RemoveSource, Erase, Forget, RemovedBy, Threads
  <1>2. \A u \in Threads \ {t} : \A x : Found(u, x) => Found(u, x)'
    BY <1>1 DEF Found, Known, TableFull
  <1>3. \A x : Counted(x) => Counted(x)' \/ x = s
    <2> SUFFICES ASSUME NEW x, Counted(x), x # s PROVE Counted(x)'
      OBVIOUS
    <2>1. Adding(x) => Adding(x)'
      BY DEF Adding, Subject, Packet, Sender, Threads
    <2> QED  BY <1>1, <2>1 DEF Counted, Known, TableFull
  <1>4. ProcessorFinds'
    BY <1>2 DEF Lookups, ProcessorFinds, Threads
  <1>5. ReaderFinds'
    BY <1>2 DEF Lookups, ReaderFinds, Threads, Subject, Packet, Sender
  <1>6. AppFinds'
    BY <1>2 DEF Lookups, AppFinds, Threads
  <1>7. SilenceCounted'
    BY <1>1, <1>3 DEF Lookups, SilenceCounted, Threads
  <1>8. ExpiredCounted'
    <2>1. CASE t = "runner"
      BY <1>1, <1>3, <2>1 DEF Lookups, ExpiredCounted, Threads
    <2>2. CASE t = "reader"
      BY <1>1, <1>3, <2>2 DEF Lookups, ExpiredCounted, Threads
    <2> QED  BY <2>1, <2>2
  <1> QED
    BY <1>4, <1>5, <1>6, <1>7, <1>8 DEF Lookups, CrashOnlyAfterRemoval

\* A thread uses a participant that is not there.
LEMMA LookupsCrash ==
    ASSUME Lookups, NEW t \in Threads, NEW s, Dereference(t, s),
           \/ Found(t, s)
           \/ t = "runner" /\ (Counted(s) \/ s \in gone["runner"])
    PROVE  Lookups'
  <1>1. /\ UNCHANGED <<participants, receivers, ms, pc, arg, gone, strays>>
        /\ crash' = [thread |-> t, ssrc |-> s] /\ ~Known(s)
    BY DEF Dereference, table, control
  <1>2. UNCHANGED <<ProcessorFinds, ReaderFinds, AppFinds, SilenceCounted, ExpiredCounted>>
    <2>1. \A x : Adding(x)' = Adding(x) /\ Subject' = Subject
      BY <1>1 DEF Adding, Subject, Packet, Sender
    <2>2. \A x, u : Found(u, x)' = Found(u, x) /\ Counted(x)' = Counted(x)
      BY <1>1, <2>1 DEF Found, Counted, Known, TableFull
    <2> QED
      BY <1>1, <2>1, <2>2 DEF ProcessorFinds, ReaderFinds, AppFinds, SilenceCounted,
                              ExpiredCounted, Packet
  <1>3. CrashOnlyAfterRemoval'
    BY <1>1 DEF CrashOnlyAfterRemoval, Found, Counted, TableFull, Adding, Subject, Packet,
                Sender
  <1> QED  BY <1>2, <1>3 DEF Lookups

LEMMA ProcessorLookups ==
    ASSUME TypeOK, Lookups, crash = NoCrash, ProcessorStep
    PROVE  Lookups'
  <1> DEFINE Alone == \A u \in Threads \ {"processor"} : pc'[u] = pc[u] /\ arg'[u] = arg[u]
             s == arg["processor"].s
  <1>0. ControlOK /\ TableOK
    BY DEF TypeOK
  <1>a. ASSUME NEW l, Goto("processor", l)
        PROVE  pc'["processor"] = l /\ \A u \in Threads \ {"processor"} : pc'[u] = pc[u]
    BY <1>0, <1>a, Gone DEF Threads
  <1>b. ASSUME Processed PROVE Alone /\ pc'["processor"] = "idle"
    BY <1>0, <1>a, <1>b DEF Processed, ControlOK
  <1>c. ASSUME Alone, UNCHANGED <<receivers, strays, ms, gone, crash>>,
               DOMAIN participants' = DOMAIN participants,
               ProcessorFinds'
        PROVE  Lookups'
    <2>1. Grows
      BY <1>c, SameGrows
    <2>2. \A x : Adding(x) => Counted(x)'
      BY <1>c DEF Counted, Adding, Subject, Packet, Sender, Threads
    <2> QED  BY <1>c, <2>1, <2>2, LookupsKept DEF Threads
  <1>d. ASSUME NEW x, NEW p, Known(x), Change(x, p)
        PROVE  DOMAIN participants' = DOMAIN participants
    BY <1>d DEF Change, Known
  <1>1. ASSUME NEW x \in scenario.senders, NEW y \in Indexes(x), RtpPacket(x, y) PROVE Lookups'
    <2>1. /\ Alone /\ ProcessorFinds' /\ UNCHANGED table /\ UNCHANGED <<strays, crash>>
          /\ \A u \in Threads \ {"processor"} : gone'[u] = gone[u]
      BY <1>0, <1>1, <1>a DEF RtpPacket, ControlOK, ProcessorFinds, Looked
    <2>2. Grows
      BY <2>1, SameGrows DEF table
    <2>3. \A z : Adding(z) => Counted(z)'
      BY <2>1 DEF Counted, Adding, Subject, Packet, Sender, Threads
    <2> QED  BY <2>1, <2>2, <2>3, LookupsKept DEF Threads, table
  <1>2. CASE init_new_participant
    <2>1. /\ add_participant(s, initials + 1) /\ ms' = With(ms, s, 0) /\ UNCHANGED <<gone, crash>>
          /\ IF Addable THEN Goto("processor", "seq") /\ UNCHANGED arg ELSE Processed
      BY <1>2 DEF init_new_participant
    <2>2. Grows /\ (s \in DOMAIN participants' \/ TableFull')
      BY <2>1, AddGrows
    <2>3. Alone /\ (pc'["processor"] = "idle" \/ UNCHANGED arg)
      BY <2>1, <1>a, <1>b
    <2>4. ProcessorFinds'
      BY <2>2, <2>3 DEF ProcessorFinds, Found, Known
    <2>5. \A x \in DOMAIN ms' \ DOMAIN ms : Counted(x)'
      BY <2>1, <2>2 DEF With, Counted, Known
    <2>6. \A z : Adding(z) => Counted(z)'
      BY <2>3 DEF Counted, Adding, Subject, Packet, Sender, Threads
    <2> QED  BY <2>1, <2>2, <2>3, <2>4, <2>5, <2>6, LookupsKept DEF Threads
  <1>3. CASE init_participant_seq
    <2>1. UNCHANGED <<receivers, strays, ms, gone, crash>>
      BY <1>3 DEF init_participant_seq
    <2>2. CASE Known(s)
      <3>1. /\ Change(s, InitSeq(participants[s], Number(arg["processor"].n)))
            /\ Goto("processor", "probation") /\ UNCHANGED arg
        BY <1>3, <2>2 DEF init_participant_seq
      <3>2. DOMAIN participants' = DOMAIN participants
        BY <1>d, <2>2, <3>1
      <3>3. ProcessorFinds'
        BY <2>2, <3>1, <3>2 DEF ProcessorFinds, Found, Known
      <3> QED  BY <1>a, <1>c, <2>1, <3>1, <3>2, <3>3
    <2>3. CASE ~Known(s)
      BY <1>3, <1>b, <1>c, <2>1, <2>3 DEF init_participant_seq, ProcessorFinds
    <2> QED  BY <2>2, <2>3
  <1>4. CASE Probation
    <2>1. CASE Dereference("processor", s)
      <3>1. Found("processor", s)
        BY <1>4 DEF Probation, Lookups, ProcessorFinds
      <3> QED  BY <2>1, <3>1, LookupsCrash DEF Threads
    <2>2. CASE ~Dereference("processor", s)
      <3>1. /\ Known(s) /\ Change(s, [participants[s] EXCEPT !.probation = MIN_SEQUENTIAL])
            /\ Goto("processor", "statistics") /\ UNCHANGED arg
            /\ UNCHANGED <<receivers, strays, ms, gone, crash>>
        BY <1>4, <2>2 DEF Probation, truth
      <3>2. DOMAIN participants' = DOMAIN participants
        BY <1>d, <3>1
      <3>3. Alone /\ ProcessorFinds'
        BY <1>a, <3>1 DEF ProcessorFinds
      <3> QED  BY <1>c, <3>1, <3>2, <3>3
    <2> QED  BY <2>1, <2>2
  <1>5. CASE UpdateSeq
    <2>1. /\ UNCHANGED <<receivers, strays, ms, gone, crash>>
          /\ Processed \/ (Goto("processor", "statistics") /\ UNCHANGED arg)
      <3>1. UNCHANGED <<receivers, strays, ms, gone, crash>>
        BY <1>5 DEF UpdateSeq
      <3>2. CASE Known(s)
        BY <1>5, <3>2, Zenon DEF UpdateSeq
      <3>3. CASE ~Known(s)
        BY <1>5, <3>3 DEF UpdateSeq
      <3> QED  BY <3>1, <3>2, <3>3
    <2>2. DOMAIN participants' = DOMAIN participants
      <3>1. CASE Known(s)
        <4>1. \E p : Change(s, p)
          BY <1>5, <3>1 DEF UpdateSeq
        <4> QED  BY <1>d, <3>1, <4>1
      <3>2. CASE ~Known(s)
        BY <1>5, <3>2 DEF UpdateSeq
      <3> QED  BY <3>1, <3>2
    <2>3. Alone /\ ProcessorFinds'
      BY <1>a, <1>b, <2>1 DEF ProcessorFinds
    <2> QED  BY <1>c, <2>1, <2>2, <2>3
  <1>6. CASE Statistics
    <2>1. UNCHANGED <<receivers, strays, ms, gone, crash>> /\ Processed
      BY <1>6 DEF Statistics
    <2>2. DOMAIN participants' = DOMAIN participants
      BY <1>6, <1>d DEF Statistics
    <2>3. Alone /\ ProcessorFinds'
      BY <1>b, <2>1 DEF ProcessorFinds
    <2> QED  BY <1>c, <2>1, <2>2, <2>3
  <1> QED  BY <1>1, <1>2, <1>3, <1>4, <1>5, <1>6 DEF ProcessorStep

LEMMA ReaderLookups ==
    ASSUME TypeOK, Lookups, crash = NoCrash, ReaderStep
    PROVE  Lookups'
  <1> DEFINE Alone == \A u \in Threads \ {"reader"} :
                         pc'[u] = pc[u] /\ arg'[u] = arg[u] /\ gone'[u] = gone[u]
  <1>0. ControlOK /\ TableOK /\ TruthOK
    BY DEF TypeOK
  <1>a. ASSUME NEW l, Goto("reader", l)
        PROVE  pc'["reader"] = l /\ \A u \in Threads \ {"reader"} : pc'[u] = pc[u]
    BY <1>0, <1>a, Gone DEF Threads
  <1>b. ASSUME Advance PROVE /\ pc'["reader"] = "next"
                             /\ \A u \in Threads \ {"reader"} : pc'[u] = pc[u] /\ arg'[u] = arg[u]
    BY <1>0, <1>a, <1>b DEF Advance, ControlOK
  <1>c. ASSUME Alone, UNCHANGED <<receivers, strays, ms, crash>>,
               DOMAIN participants' = DOMAIN participants,
               pc["reader"] # "add", ReaderFinds'
        PROVE  Lookups'
    <2>1. Grows
      BY <1>c, SameGrows
    <2> QED  BY <1>c, <2>1, LookupsKept DEF Threads, Adding
  <1>d. ASSUME NEW x, NEW p, Known(x), Change(x, p)
        PROVE  DOMAIN participants' = DOMAIN participants
    BY <1>d DEF Change, Known
  <1>1. ASSUME NEW frame \in scenario.frames, Receive(frame) PROVE Lookups'
    <2>1. Alone /\ ReaderFinds' /\ pc["reader"] = "idle"
      BY <1>0, <1>1, <1>a DEF Receive, ControlOK, ReaderFinds, truth
    <2> QED  BY <1>1, <1>c, <2>1 DEF Receive, truth, table
  <1>2. CASE EndOfCompound
    <2>1. /\ Return /\ UNCHANGED <<participants, receivers, crash, gone>> /\ pc["reader"] = "next"
          /\ UNCHANGED <<ms, strays>> \/ CountSilence(Known(Sender))
      BY <1>2 DEF EndOfCompound
    <2>2. Alone /\ pc'["reader"] = "idle"
      BY <1>0, <1>a, <2>1 DEF Return, ControlOK
    <2>3. Grows
      BY <2>1 DEF Grows, TableFull, CountSilence
    <2>4. \A x \in DOMAIN ms' \ DOMAIN ms : Counted(x)'
      BY <2>1 DEF CountSilence, With, Counted, Known
    <2> QED  BY <2>1, <2>2, <2>3, <2>4, LookupsKept DEF Threads, Adding, ReaderFinds
  <1>3. CASE NextPacket
    <2>1. /\ UNCHANGED <<participants, receivers, crash, arg>> /\ pc["reader"] = "next"
          /\ CountSilence(Known(Sender) \/ (Packet.type # BYE /\ Subject = Sender))
      BY <1>3 DEF NextPacket
    <2>2. CASE Packet.type = BYE
      <3>1. Goto("reader", "bye") /\ UNCHANGED gone
        BY <1>3, <2>2 DEF NextPacket
      <3>2. Grows
        BY <2>1 DEF Grows, TableFull, CountSilence
      <3>3. \A x \in DOMAIN ms' \ DOMAIN ms : Counted(x)'
        BY <2>1, <2>2 DEF CountSilence, With, Counted, Known
      <3>4. ReaderFinds'
        BY <1>a, <3>1 DEF ReaderFinds
      <3> QED  BY <1>a, <2>1, <3>1, <3>2, <3>3, <3>4, LookupsKept DEF Threads, Adding
    <2>3. CASE Packet.type # BYE
      <3>1. /\ Looked("reader", Subject)
            /\ Goto("reader", IF Known(Subject) THEN AfterLookup ELSE "add")
        BY <1>3, <2>3 DEF NextPacket
      <3>2. /\ pc'["reader"] = (IF Known(Subject) THEN AfterLookup ELSE "add") /\ Alone
        BY <1>0, <1>a, <2>1, <3>1 DEF Looked, TruthOK
      <3>3. Subject' = Subject /\ (Known(Subject) <=> Known(Subject)')
            /\ AfterLookup \in {"stats", "deliver"}
        BY <2>1 DEF Subject, Packet, Sender, Known, AfterLookup
      <3>4. Grows
        BY <2>1 DEF Grows, TableFull, CountSilence
      <3>5. \A x \in DOMAIN ms' \ DOMAIN ms : Counted(x)'
        <4>1. \A x \in DOMAIN ms' \ DOMAIN ms : x = Sender
          BY <2>1 DEF CountSilence, With
        <4>2. Known(Sender) \/ Sender \in strays' \/ Subject = Sender
          BY <2>1 DEF CountSilence
        <4>3. Subject \in DOMAIN participants' \/ pc'["reader"] = "add"
          BY <2>1, <3>2 DEF Known
        <4>4. ASSUME NEW x, x = Sender PROVE Counted(x)'
          BY <2>1, <3>3, <4>2, <4>3, <4>4 DEF Counted, Adding, Known
        <4> QED  BY <4>1, <4>4
      <3>6. ReaderFinds'
        BY <2>1, <3>2, <3>3 DEF ReaderFinds, Found, Known
      <3> QED  BY <2>1, <3>2, <3>4, <3>5, <3>6, LookupsKept DEF Threads, Adding
    <2> QED  BY <2>2, <2>3
  <1>4. CASE AddUnknown
    <2> DEFINE i == IF Packet.type = RR THEN initials + 1 ELSE initials
    <2>1. /\ add_participant(Subject, i) /\ UNCHANGED <<ms, arg, crash, gone>>
          /\ Goto("reader", AfterLookup) /\ pc["reader"] = "add"
      BY <1>4 DEF AddUnknown
    <2>2. Grows /\ (Subject \in DOMAIN participants' \/ TableFull')
      BY <2>1, AddGrows
    <2>3. Subject' = Subject /\ AfterLookup \in {"stats", "deliver"} /\ Alone
          /\ pc'["reader"] = AfterLookup
      BY <1>a, <2>1 DEF Subject, Packet, Sender, AfterLookup
    <2>4. ReaderFinds' /\ \A x : Adding(x) => Counted(x)'
      <3>1. Found("reader", Subject)'
        BY <2>2, <2>3 DEF Found, Known
      <3>2. \A x : Adding(x) => Counted(x)'
        BY <2>2 DEF Adding, Counted, Known
      <3> QED  BY <2>3, <3>1, <3>2 DEF ReaderFinds
    <2> QED  BY <2>1, <2>2, <2>3, <2>4, LookupsKept DEF Threads
  <1>5. CASE SenderReport
    <2>1. pc["reader"] = "stats"
      BY <1>5 DEF SenderReport
    <2>2. CASE Dereference("reader", Subject)
      BY <2>1, <2>2, LookupsCrash DEF Threads, Lookups, ReaderFinds
    <2>3. CASE ~Dereference("reader", Subject)
      <3>1. /\ Known(Subject) /\ Change(Subject, [participants[Subject] EXCEPT !.lsr = TRUE])
            /\ Goto("reader", "deliver") /\ UNCHANGED <<arg, gone, receivers, strays, ms, crash>>
        BY <1>5, <2>3 DEF SenderReport, truth
      <3>2. DOMAIN participants' = DOMAIN participants
        BY <1>d, <3>1
      <3>3. Subject' = Subject /\ Alone /\ pc'["reader"] = "deliver"
        BY <1>a, <3>1 DEF Subject, Packet, Sender
      <3>4. ReaderFinds'
        BY <3>1, <3>2, <3>3 DEF ReaderFinds, Found, Known
      <3> QED  BY <1>c, <2>1, <3>1, <3>2, <3>3, <3>4
    <2> QED  BY <2>2, <2>3
  <1>6. CASE CallHook
    <2>1. Alone /\ pc["reader"] # "add" /\ pc'["reader"] = "next"
      BY <1>6, <1>b DEF CallHook, truth
    <2> QED  BY <1>6, <1>c, <2>1 DEF CallHook, truth, table, ReaderFinds
  <1>7. CASE HoldReport
    <2>1. /\ UNCHANGED <<table, truth, arg>> /\ Goto("reader", "store")
          /\ pc["reader"] = "deliver"
      BY <1>7 DEF HoldReport
    <2>2. /\ Alone /\ pc'["reader"] = "store" /\ Subject' = Subject
      BY <1>a, <2>1 DEF truth, Subject, Packet, Sender
    <2>3. ReaderFinds'
      BY <2>1, <2>2 DEF ReaderFinds, Lookups, Found, Known, TableFull, truth, table
    <2> QED  BY <1>c, <2>1, <2>2, <2>3 DEF truth, table
  <1>8. CASE StoreReport
    <2>1. pc["reader"] = "store"
      BY <1>8 DEF StoreReport
    <2>2. CASE Dereference("reader", Subject)
      BY <2>1, <2>2, LookupsCrash DEF Threads, Lookups, ReaderFinds
    <2>3. CASE ~Dereference("reader", Subject)
      <3> DEFINE p == [participants[Subject] EXCEPT !.held = @ \cup {Packet.type}]
      <3>1. /\ Known(Subject) /\ Change(Subject, p) /\ Advance
            /\ UNCHANGED <<gone, receivers, strays, ms, crash>>
        BY <1>8, <2>3 DEF StoreReport, truth
      <3> HIDE DEF p
      <3>2. DOMAIN participants' = DOMAIN participants
        BY <1>d, <3>1
      <3>3. Alone /\ ReaderFinds'
        BY <1>b, <3>1 DEF ReaderFinds
      <3> QED  BY <1>c, <2>1, <3>1, <3>2, <3>3
    <2> QED  BY <2>2, <2>3
  <1>9. CASE LookUpBye
    <2> DEFINE s == Head(Packet.ssrcs)
    <2>1. /\ pc["reader"] = "bye" /\ Looked("reader", s) /\ Packet.ssrcs # <<>>
          /\ UNCHANGED <<participants, receivers, strays, ms, crash>>
      BY <1>9 DEF LookUpBye, table
    <2>2. CASE Known(s)
      <3>1. Goto("reader", "erase") /\ UNCHANGED arg
        BY <1>9, <2>2 DEF LookUpBye
      <3>2. Alone /\ pc'["reader"] = "erase" /\ Packet' = Packet
        BY <1>0, <1>a, <2>1, <3>1 DEF Looked, TruthOK, Packet
      <3>3. ReaderFinds'
        BY <2>1, <2>2, <3>2 DEF ReaderFinds, Found, Known
      <3> QED  BY <1>c, <2>1, <3>2, <3>3
    <2>3. CASE ~Known(s)
      <3>1. arg' = [arg EXCEPT !["reader"].rest[1].ssrcs = Tail(@)] /\ UNCHANGED pc
        BY <1>9, <2>3 DEF LookUpBye
      <3>2. Alone /\ ReaderFinds'
        BY <1>0, <2>1, <3>1 DEF Looked, TruthOK, ReaderFinds, ControlOK
      <3> QED  BY <1>c, <2>1, <3>2
    <2> QED  BY <2>2, <2>3
  <1>10. CASE EraseBye
    <2> DEFINE s == Head(Packet.ssrcs)
    <2>1. pc["reader"] = "erase"
      BY <1>10 DEF EraseBye
    <2>2. CASE Dereference("reader", s)
      BY <2>1, <2>2, LookupsCrash DEF Threads, Lookups, ReaderFinds
    <2>3. CASE ~Dereference("reader", s)
      <3>1. /\ RemoveSource("reader", s) /\ Goto("reader", "bye")
            /\ arg' = [arg EXCEPT !["reader"].rest[1].ssrcs = Tail(@)]
            /\ UNCHANGED <<crash, receivers>>
        BY <1>10, <2>3 DEF EraseBye
      <3>2. /\ pc'["reader"] = "bye"
            /\ \A u \in Threads \ {"reader"} : pc'[u] = pc[u] /\ arg'[u] = arg[u]
        BY <1>0, <1>a, <3>1 DEF ControlOK
      <3> QED  BY <2>1, <3>1, <3>2, LookupsRemoved
    <2> QED  BY <2>2, <2>3
  <1>11. CASE EndOfBye
    <2>1. Alone /\ pc["reader"] # "add" /\ pc'["reader"] = "next"
      BY <1>11, <1>b DEF EndOfBye, truth
    <2> QED  BY <1>11, <1>c, <2>1 DEF EndOfBye, truth, ReaderFinds
  <1> QED
    BY <1>1, <1>2, <1>3, <1>4, <1>5, <1>6, <1>7, <1>8, <1>9, <1>10, <1>11 DEF ReaderStep

LEMMA ReportLookups ==
    ASSUME TypeOK, Lookups, crash = NoCrash, NEW t \in {"runner", "app"}, ReportStep(t)
    PROVE  Lookups'
  <1>0. ControlOK
    BY DEF TypeOK
  <1>1. /\ UNCHANGED <<receivers, strays, ms, gone, crash, arg>>
        /\ pc[t] \in ReportLabels
        /\ \E l \in {"role", "blocks", "send", "timeouts", "stopping"} : Goto(t, l)
    BY DEF ReportStep, NoParticipants, SenderRole, ReceiverRole, ReportBlocks, SendReport,
           AbandonReport, AfterReport, ReportLabels, table, truth
  <1>2. DOMAIN participants' = DOMAIN participants
    BY DEF ReportStep, NoParticipants, SenderRole, ReceiverRole, ReportBlocks, SendReport,
           AbandonReport, table
  <1>3. /\ pc'[t] \in {"role", "blocks", "send", "timeouts", "stopping"}
        /\ \A u \in Threads \ {t} : pc'[u] = pc[u]
    BY <1>0, <1>1, Gone DEF Threads
  <1>4. Grows
    BY <1>1, <1>2, SameGrows
  <1>5. \A x : Adding(x) => Counted(x)'
    BY <1>1, <1>3 DEF Counted, Adding, Subject, Packet, Sender, Threads
  <1>6. t = "app" => AppFinds'
    BY <1>3 DEF AppFinds
  <1>7. t = "runner" => ExpiredCounted' /\ pc["runner"] # "done"
    BY <1>1, <1>3 DEF ExpiredCounted, ReportLabels
  <1> QED
    BY <1>1, <1>3, <1>4, <1>5, <1>6, <1>7, LookupsKept DEF Threads

LEMMA RunnerLookups ==
    ASSUME TypeOK, Lookups, crash = NoCrash, RunnerStep
    PROVE  Lookups'
  <1> DEFINE Alone == \A u \in Threads \ {"runner"} :
                         pc'[u] = pc[u] /\ arg'[u] = arg[u] /\ gone'[u] = gone[u]
  <1>0. ControlOK /\ TruthOK
    BY DEF TypeOK
  <1>a. ASSUME NEW l, Goto("runner", l)
        PROVE  pc'["runner"] = l /\ \A u \in Threads \ {"runner"} : pc'[u] = pc[u]
    BY <1>0, <1>a, Gone DEF Threads
  <1>c. ASSUME Alone, UNCHANGED <<participants, receivers, strays, crash>>,
               DOMAIN ms' = DOMAIN ms, pc["runner"] # "done", ExpiredCounted'
        PROVE  Lookups'
    <2>1. Grows
      BY <1>c, SameGrows
    <2>2. \A x : Adding(x) => Counted(x)'
      BY <1>c DEF Counted, Adding, Subject, Packet, Sender, Threads
    <2> QED  BY <1>c, <2>1, <2>2, LookupsKept DEF Threads
  <1>1. CASE Wake \/ Exit
    <2>1. /\ UNCHANGED <<table, truth, arg>> /\ pc["runner"] = "sleep"
          /\ \E l \in {"report", "done"} : Goto("runner", l)
      BY <1>1 DEF Wake, Exit
    <2>2. Alone /\ ExpiredCounted'
      BY <1>a, <2>1 DEF truth, ExpiredCounted
    <2> QED  BY <1>c, <2>1, <2>2 DEF table, truth
  <1>2. CASE ReportStep("runner")
    BY <1>2, ReportLookups
  <1>3. CASE Timeouts
    <2> DEFINE longer  == [s \in DOMAIN ms |-> ms[s] + 1]
               expired == {s \in DOMAIN ms : longer[s] > TimeoutTicks}
    <2>1. /\ pc["runner"] = "timeouts" /\ ms' = longer /\ Goto("runner", "remove")
          /\ arg' = [arg EXCEPT !["runner"] = [s |-> 0, expired |-> expired]]
          /\ gone' = [gone EXCEPT !["runner"] = {}]
          /\ UNCHANGED <<participants, receivers, strays, crash>>
      BY <1>3 DEF Timeouts
    <2>2. Alone /\ DOMAIN ms' = DOMAIN ms
      BY <1>0, <1>a, <2>1 DEF ControlOK, TruthOK
    <2>3. arg'["runner"].expired \subseteq DOMAIN ms
      BY <1>0, <2>1 DEF ControlOK, Threads
    <2>4. \A x \in DOMAIN ms : Counted(x)'
      BY <2>1, <2>2 DEF Lookups, SilenceCounted, Counted, Known, TableFull, Adding, Subject,
                        Packet, Sender, Threads
    <2>5. ExpiredCounted'
      BY <2>3, <2>4 DEF ExpiredCounted
    <2> HIDE DEF longer, expired
    <2> QED  BY <1>c, <2>1, <2>2, <2>5
  <1>4. CASE remove_timeout_ssrc
    <2>1. PICK s \in arg["runner"].expired :
             \/ Dereference("runner", s)
             \/ /\ RemoveSource("runner", s)
                /\ arg' = [arg EXCEPT !["runner"].expired = @ \ {s}]
                /\ UNCHANGED <<receivers, pc, crash>>
      BY <1>4 DEF remove_timeout_ssrc
    <2>2. pc["runner"] = "remove"
      BY <1>4 DEF remove_timeout_ssrc
    <2>3. CASE Dereference("runner", s)
      <3>1. Counted(s) \/ s \in gone["runner"]
        BY <2>2 DEF Lookups, ExpiredCounted
      <3> QED  BY <2>3, <3>1, LookupsCrash DEF Threads
    <2>4. CASE ~Dereference("runner", s)
      <3>1. /\ \A u \in Threads \ {"runner"} : pc'[u] = pc[u] /\ arg'[u] = arg[u]
            /\ pc'["runner"] = "remove"
        BY <1>0, <2>1, <2>2, <2>4 DEF ControlOK
      <3>2. arg["runner"] \in [s : {0}, expired : SUBSET Ssrcs]
        BY <1>0, <2>2 DEF ControlOK, RunnerWork
      <3>3. arg'["runner"] = [arg["runner"] EXCEPT !.expired = @ \ {s}]
        BY <1>0, <2>1, <2>4 DEF ControlOK, Threads
      <3>4. arg'["runner"].expired = arg["runner"].expired \ {s}
        BY <3>2, <3>3
      <3> QED  BY <2>1, <2>2, <2>4, <3>1, <3>4, LookupsRemoved
    <2> QED  BY <2>3, <2>4
  <1>5. CASE Sleep
    <2>1. /\ UNCHANGED <<table, truth>> /\ pc["runner"] = "remove" /\ Goto("runner", "sleep")
          /\ arg' = [arg EXCEPT !["runner"] = Nothing]
      BY <1>5 DEF Sleep
    <2>2. Alone /\ ExpiredCounted'
      BY <1>0, <1>a, <2>1 DEF truth, ExpiredCounted, ControlOK
    <2> QED  BY <1>c, <2>1, <2>2 DEF table, truth
  <1> QED  BY <1>1, <1>2, <1>3, <1>4, <1>5 DEF RunnerStep

LEMMA AppLookups ==
    ASSUME TypeOK, Lookups, Ended, crash = NoCrash, AppStep
    PROVE  Lookups'
  <1> DEFINE Alone == \A u \in Threads \ {"app"} :
                         pc'[u] = pc[u] /\ arg'[u] = arg[u] /\ gone'[u] = gone[u]
  <1>0. ControlOK /\ TruthOK
    BY DEF TypeOK
  <1>a. ASSUME NEW l, Goto("app", l)
        PROVE  pc'["app"] = l /\ \A u \in Threads \ {"app"} : pc'[u] = pc[u]
    BY <1>0, <1>a, Gone DEF Threads
  <1>c. ASSUME Alone, UNCHANGED <<receivers, ms, strays, crash>>,
               DOMAIN participants' = DOMAIN participants, AppFinds'
        PROVE  Lookups'
    <2>1. Grows
      BY <1>c, SameGrows
    <2>2. \A x : Adding(x) => Counted(x)'
      BY <1>c DEF Counted, Adding, Subject, Packet, Sender, Threads
    <2> QED  BY <1>c, <2>1, <2>2, LookupsKept DEF Threads
  <1>1. ASSUME NEW k \in Kinds, NEW s \in Peers, GetPacket(k, s) PROVE Lookups'
    <2>1. /\ Known(s) /\ Looked("app", s) /\ Goto("app", "take") /\ UNCHANGED table
          /\ arg' = [arg EXCEPT !["app"] = [s |-> s, k |-> k]] /\ UNCHANGED <<crash, strays>>
      BY <1>1 DEF GetPacket
    <2>2. Alone
      BY <1>0, <1>a, <2>1 DEF ControlOK, TruthOK, Looked
    <2>3. arg'["app"].s = s /\ s \in DOMAIN participants'
      BY <1>0, <2>1 DEF ControlOK, Threads, Known, table
    <2>4. AppFinds'
      BY <2>3 DEF AppFinds, Found, Known
    <2> QED  BY <1>c, <2>1, <2>2, <2>4 DEF table
  <1>2. CASE TakePacket
    <2> DEFINE s == arg["app"].s
               p == [participants[s] EXCEPT !.held = @ \ {arg["app"].k}]
    <2>1. pc["app"] = "take"
      BY <1>2 DEF TakePacket
    <2>2. CASE Dereference("app", s)
      BY <2>1, <2>2, LookupsCrash DEF Threads, Lookups, AppFinds
    <2>3. CASE ~Dereference("app", s)
      <3>1. /\ Known(s) /\ Change(s, p) /\ Goto("app", "idle")
            /\ arg' = [arg EXCEPT !["app"] = Nothing]
            /\ UNCHANGED <<receivers, ms, strays, crash, gone>>
        BY <1>2, <2>3 DEF TakePacket, truth
      <3>2. DOMAIN participants' = DOMAIN participants
        BY <3>1 DEF Change
      <3>3. Alone /\ AppFinds'
        BY <1>0, <1>a, <3>1 DEF AppFinds, ControlOK
      <3> QED  BY <1>c, <3>1, <3>2, <3>3
    <2> QED  BY <2>2, <2>3
  <1>3. CASE ReportStep("app")
    BY <1>3, ReportLookups
  <1>4. CASE \/ update_sender_stats \/ remove_send_app_hook \/ remove_all_hooks
             \/ \E length \in scenario.appLengths :
                   send_app_packet(length) \/ install_send_app_hook(length)
             \/ \E items \in scenario.items : send_sdes_packet(items)
             \/ \E k \in scenario.hooks : install_hook(k)
    <2>1. UNCHANGED <<table, control, truth>>
      BY <1>4 DEF update_sender_stats, remove_send_app_hook, remove_all_hooks, send_app_packet,
                  install_send_app_hook, send_sdes_packet, install_hook
    <2>2. AppFinds'
      BY <2>1 DEF Lookups, AppFinds, Found, Known, TableFull, table, control, truth
    <2> QED  BY <1>c, <2>1, <2>2 DEF table, control, truth
  <1>5. CASE Stop \/ Deactivate \/ JoinRunner \/ Unmap
    <2>1. /\ UNCHANGED <<table, truth, arg>>
          /\ \E l \in {"report", "join", "unmap", "destroy"} : Goto("app", l)
      BY <1>5 DEF Stop, Deactivate, JoinRunner, Unmap
    <2>2. Alone /\ AppFinds'
      BY <1>a, <2>1 DEF truth, AppFinds
    <2> QED  BY <1>c, <2>1, <2>2 DEF table, truth
  <1>6. CASE cleanup_participants
    <2>1. pc["runner"] = "done" /\ pc["reader"] = "idle" /\ pc["processor"] = "idle"
      BY <1>6 DEF cleanup_participants, Ended
    <2>2. pc'["app"] = "done" /\ \A u \in Threads \ {"app"} : pc'[u] = pc[u]
      BY <1>6, <1>a DEF cleanup_participants
    <2>3. pc'["runner"] = "done" /\ pc'["reader"] = "idle" /\ pc'["processor"] = "idle"
      BY <2>1, <2>2 DEF Threads
    <2>4. crash' = NoCrash
      BY <1>6 DEF cleanup_participants
    <2> QED
      BY <2>2, <2>3, <2>4 DEF Lookups, ProcessorFinds, ReaderFinds, AppFinds, SilenceCounted,
                              ExpiredCounted, CrashOnlyAfterRemoval
  <1> QED  BY <1>1, <1>2, <1>3, <1>4, <1>5, <1>6 DEF AppStep

\* A thread of the library uses a participant that is not there only in three ways:
\* another thread has removed it since the lookup (rtcp.cc:2116), the table is full
\* (rtcp.cc:1399), or the reader has counted the silence of a source that it does not add
\* or has yet to add (rtcp.cc:1207).
THEOREM CrashesExplained == Spec => []CrashOnlyAfterRemoval
  <1>1. Init => Lookups
    <2> SUFFICES ASSUME Init PROVE Lookups
      OBVIOUS
    <2>1. /\ pc["processor"] = "idle" /\ pc["reader"] = "idle" /\ pc["app"] = "idle"
          /\ pc["runner"] # "remove" /\ ms = << >> /\ crash = NoCrash
      BY DEF Init, Threads
    <2> QED
      BY <2>1 DEF Lookups, ProcessorFinds, ReaderFinds, AppFinds, SilenceCounted,
                  ExpiredCounted, CrashOnlyAfterRemoval
  <1>2. TypeOK /\ Ended /\ Lookups /\ [Next]_vars => Lookups'
    <2> SUFFICES ASSUME TypeOK, Ended, Lookups, [Next]_vars PROVE Lookups'
      OBVIOUS
    <2>1. CASE UNCHANGED vars
      <3>1. /\ UNCHANGED <<ProcessorFinds, ReaderFinds, AppFinds>>
            /\ UNCHANGED <<SilenceCounted, ExpiredCounted, CrashOnlyAfterRemoval>>
        BY <2>1 DEF vars, table, control, truth, ProcessorFinds, ReaderFinds, AppFinds,
                    SilenceCounted, ExpiredCounted, CrashOnlyAfterRemoval, Found, Counted,
                    Adding, Known, TableFull, Subject, Packet, Sender
      <3> QED  BY <3>1 DEF Lookups
    <2> QED
      BY <2>1, ProcessorLookups, ReaderLookups, RunnerLookups, AppLookups DEF Next
  <1>3. Lookups => CrashOnlyAfterRemoval
    BY DEF Lookups
  <1> QED  BY <1>1, <1>2, <1>3, EndedInvariant, PTL DEF Spec

-----------------------------------------------------------------------------
(* Losses.                                                                 *)

SameCounts(p, q) ==
    /\ p.max = q.max /\ p.base = q.base /\ p.cycles = q.cycles
    /\ p.probation = q.probation /\ p.received = q.received /\ p.lost = q.lost

\* The processor has a packet of s in its hands.
Mine(s) == pc["processor"] # "idle" /\ arg["processor"].s = s

\* A step that does not touch what is counted of s.
LEMMA CountingKept ==
    ASSUME NEW s \in Peers, CountingOf(s), source'[s] = source[s], UNCHANGED scenario,
           s \in DOMAIN participants' => /\ s \in DOMAIN participants
                                        /\ SameCounts(participants[s], participants'[s]),
           \/ ~Mine(s) /\ ~Mine(s)'
           \/ pc'["processor"] = pc["processor"] /\ arg'["processor"] = arg["processor"]
    PROVE  CountingOf(s)'
  <1>1. \A labels : "idle" \notin labels => (InHand(labels, s)' <=> InHand(labels, s))
    BY DEF InHand, Mine
  <1>2. NextOfSource(s)'
    <2>1. CASE InHand({"update"}, s)
      BY <2>1 DEF CountingOf, NextOfSource, InHand, Mine
    <2>2. CASE ~InHand({"update"}, s)
      BY <1>1, <2>2 DEF NextOfSource
    <2> QED  BY <2>1, <2>2
  <1>3. ASSUME Known(s)' PROVE WellCounted(s)'
    <2> DEFINE p == participants[s]
               q == participants'[s]
               o == source[s]
    <2>1. Known(s) /\ WellCounted(s) /\ SameCounts(p, q) /\ source'[s] = o
      BY <1>3 DEF Known, CountingOf
    <2>2. Settled(s)' => Settled(s)
      <3>1. /\ InHand({"seq", "probation", "statistics"}, s)'
               <=> InHand({"seq", "probation", "statistics"}, s)
        BY <1>1
      <3> QED  BY <2>1, <3>1 DEF Settled, SameCounts, InHand
    <2>3. Expected(q) = Expected(p)
      BY <2>1 DEF Expected, SameCounts
    <2>4. InHand({"seq", "probation"}, s)' <=> InHand({"seq", "probation"}, s)
      BY <1>1
    <2>5. Follows(p, o) => Follows(q, o)
      BY <2>1 DEF Follows, SameCounts
    <2> QED  BY <2>1, <2>2, <2>3, <2>4, <2>5 DEF WellCounted, SameCounts
  <1> QED  BY <1>2, <1>3 DEF CountingOf

\* A step that forgets or adds s.
LEMMA CountingFresh ==
    ASSUME NEW s \in Peers, source'[s] = Unheard,
           s \in DOMAIN participants' => participants'[s] = NewParticipant
    PROVE  CountingOf(s)'
  <1>1. IsFiniteSet({}) /\ Cardinality({}) = 0
    BY FS_EmptySet
  <1>2. NextOfSource(s)' /\ IsFiniteSet(source'[s].seen)
    BY <1>1 DEF NextOfSource, Unheard
  <1>3. Known(s)' => WellCounted(s)'
    BY <1>1 DEF WellCounted, NewParticipant, Unheard, Settled, Known
  <1> QED  BY <1>2, <1>3 DEF CountingOf

\* A step of others than the processor.
LEMMA OthersCount ==
    ASSUME Counting, UNCHANGED scenario,
           pc'["processor"] = pc["processor"], arg'["processor"] = arg["processor"],
           \A s \in Peers :
              \/ /\ source'[s] = source[s]
                 /\ s \in DOMAIN participants' => /\ s \in DOMAIN participants
                                                 /\ SameCounts(participants[s], participants'[s])
              \/ /\ source'[s] = Unheard
                 /\ s \in DOMAIN participants' => participants'[s] = NewParticipant
    PROVE  Counting'
  BY CountingKept, CountingFresh, Zenon DEF Counting

LEMMA SameItself == \A p : SameCounts(p, p)
  BY DEF SameCounts

LEMMA Divided ==
    ASSUME NEW n \in Nat, NEW m \in Nat \ {0}
    PROVE  \E q \in Int : n = q * m + (n % m)
  <1>1. n \div m \in Nat /\ n % m \in 0 .. m - 1 /\ (n \div m) * m + (n % m) = n
    BY SMTT(60)
  <1> DEFINE q == n \div m
  <1>2. q \in Int /\ n = q * m + (n % m)
    BY <1>1
  <1>3. ASSUME NEW r PROVE r \in Int /\ n = r * m + (n % m) => \E i \in Int : n = i * m + (n % m)
    OBVIOUS
  <1> QED  BY <1>2, <1>3

\* The counts of a source as the sequence number goes on by d.
LEMMA GoingOn ==
    ASSUME NEW h \in Nat, NEW d \in MaxDropout - RtpSeqMod .. RtpSeqMod - 1, h + d \in Nat,
           (Number(h + d) - Number(h)) % RtpSeqMod < MaxDropout
    PROVE  /\ d >= 0
           /\ Number(h + d) - Number(h)
                 = IF Number(h + d) < Number(h) THEN d - RtpSeqMod ELSE d
  <1> DEFINE M == RtpSeqMod
             a == h % M
             b == (h + d) % M
  <1>1. M \in Nat \ {0} /\ MaxDropout \in Nat /\ MaxDropout < M
    BY Constants
  <1> HIDE DEF M
  <1>2. PICK q \in Int : h = q * M + a
    BY <1>1, Divided
  <1>3. PICK r \in Int : h + d = r * M + b
    BY <1>1, Divided
  <1>4. a \in 0 .. M - 1 /\ b \in 0 .. M - 1
    BY <1>1
  <1> HIDE DEF a, b
  <1>5. (b - a) % M = IF b >= a THEN b - a ELSE b - a + M
    <2>1. CASE b >= a
      BY <1>1, <1>4, <2>1
    <2>2. CASE b < a
      BY <1>1, <1>4, <2>2
    <2> QED  BY <1>4, <2>1, <2>2
  <1> DEFINE k == r - q
  <1>6. d = k * M + (b - a) /\ k \in Int
    BY <1>1, <1>2, <1>3, <1>4
  <1>7. (b - a) % M < MaxDropout /\ d >= MaxDropout - M /\ d < M /\ d \in Int
    BY <1>1 DEF Number, M, a, b
  <1> HIDE DEF k
  <1>8. /\ k <= -1 => k * M <= -M
        /\ k >= 1 => k * M >= M
        /\ k >= 2 => k * M >= 2 * M
        /\ k = 0 => k * M = 0
        /\ k = 1 => k * M = M
        /\ k <= 0 => k * M <= 0
    BY <1>1, <1>6
  <1>9. k * M \in Int
    BY <1>1, <1>6
  <1> DEFINE kM == k * M
  <1> HIDE DEF kM
  <1>10. d >= 0 /\ b - a = IF b < a THEN d - M ELSE d
    <2>1. CASE b >= a
      <3>1. k = 0
        BY <1>1, <1>4, <1>5, <1>6, <1>7, <1>8, <1>9, <2>1 DEF kM
      <3> QED  BY <1>1, <1>4, <1>6, <1>8, <2>1, <3>1
    <2>2. CASE b < a
      <3>1. k = 1
        BY <1>1, <1>4, <1>5, <1>6, <1>7, <1>8, <1>9, <2>2 DEF kM
      <3>2. d = M + (b - a)
        BY <1>1, <1>4, <1>6, <1>8, <3>1
      <3> QED  BY <1>1, <1>4, <2>2, <3>2
    <2> QED  BY <1>4, <2>1, <2>2
  <1> QED
    BY <1>10 DEF Number, M, a, b

\* What update_participant_seq() keeps of the counts, and what it starts anew.
LEMMA Judged ==
    ASSUME NEW p \in Participant, NEW o \in Truth, NEW n \in Nat, IsFiniteSet(o.seen),
           Cardinality(o.seen) <= p.received, p.probation > 0 => p.cycles = 0,
           p.probation = 0 /\ o.first >= 0 /\ ~o.resynced => Follows(p, o),
           o.highest # -1 =>
              \E d \in MaxDropout - RtpSeqMod .. RtpSeqMod - 1 : n = o.highest + d,
           NEW u, u = update_participant_seq(p, Number(n)),
           NEW v, v = Witness(o, n, u.verdict)
    PROVE  /\ IsFiniteSet(v.seen) /\ Cardinality(v.seen) <= u.p.received
           /\ u.p.probation > 0 => u.p.cycles = 0
           /\ u.p.probation = 0 /\ v.first >= 0 /\ ~v.resynced => Follows(u.p, v)
           /\ u.verdict = "not_ready" => u.p.probation > 0
           /\ u.verdict = "error" => v = o /\ SameCounts(p, u.p)
           /\ u.verdict \in Verdicts
  <1> DEFINE seq == Number(n)
             udelta == (seq - p.max) % RtpSeqMod
  <1>0. /\ IsFiniteSet({}) /\ Cardinality({}) = 0 /\ seq \in Sequence
        /\ p.probation \in 0 .. MIN_SEQUENTIAL /\ p.received \in Nat /\ MIN_SEQUENTIAL = 2
        /\ p.cycles \in Nat /\ p.max \in Int /\ p.base \in Int /\ seq \in Int
    BY FS_EmptySet, Numbered DEF Participant, MIN_SEQUENTIAL, Sequence
  <1>a. u.p \in Participant
    BY <1>0, SequenceTypes
  <1>1. CASE p.probation > 0
    <2> DEFINE w == OnProbation(p, seq)
    <2>1. u = w
      BY <1>1 DEF update_participant_seq
    <2>2. CASE seq = p.max + 1 /\ ~(p.probation > 1)
      <3> DEFINE p0 == [p EXCEPT !.probation = 0]
                 b  == RtpSeqMod + 1
      <3>1. w.verdict = "valid" /\ w.p = InitSeq(p0, seq)
        BY <2>2 DEF OnProbation
      <3>2. p0 \in Participant /\ p0.probation = 0 /\ p0.cycles = p.cycles
            /\ p0.received = p.received
        BY <1>0 DEF Participant
      <3>3. v = [o EXCEPT !.first = n, !.highest = n, !.seen = {}]
        BY <2>1, <3>1 DEF Witness
      <3>4. v.first = n /\ v.highest = n /\ v.seen = {}
        BY <3>3 DEF Truth
      <3> HIDE DEF p0, b
      <3>5. w.p = [p0 EXCEPT !.base = seq, !.max = seq, !.bad = b]
        BY <3>1 DEF InitSeq, b
      <3>6. w.p.base = seq /\ w.p.max = seq /\ w.p.probation = 0 /\ w.p.cycles = 0
            /\ w.p.received = p.received
        BY <1>1, <3>2, <3>5 DEF Participant
      <3>7. Follows(w.p, v)
        <4>1. 0 * RtpSeqMod = 0
          BY Constants
        <4> QED  BY <1>0, <3>4, <3>6, <4>1 DEF Follows
      <3> QED
        BY <1>0, <2>1, <3>1, <3>4, <3>6, <3>7 DEF Verdicts
    <2>3. CASE ~(seq = p.max + 1 /\ ~(p.probation > 1))
      <3>1. w.verdict = "not_ready"
        BY <2>3 DEF OnProbation
      <3>2. w.p.probation > 0 /\ w.p.cycles = p.cycles /\ w.p.received = p.received
        <4>1. CASE seq # p.max + 1
          <5>1. w.p = [p EXCEPT !.probation = MIN_SEQUENTIAL - 1, !.max = seq]
            BY <4>1 DEF OnProbation
          <5> QED  BY <1>0, <5>1 DEF Participant
        <4>2. CASE seq = p.max + 1
          <5>1. w.p = [p EXCEPT !.probation = p.probation - 1, !.max = seq] /\ p.probation > 1
            BY <2>3, <4>2 DEF OnProbation
          <5>2. w.p.probation = p.probation - 1 /\ w.p.cycles = p.cycles
                /\ w.p.received = p.received
            BY <5>1 DEF Participant
          <5> QED  BY <1>0, <5>1, <5>2
        <4> QED  BY <4>1, <4>2
      <3>3. v.seen = o.seen
        BY <2>1, <3>1 DEF Witness, Truth
      <3> HIDE DEF w
      <3>4. u.p.probation # 0
        BY <2>1, <3>2
      <3> QED
        BY <1>1, <2>1, <3>1, <3>2, <3>3, <3>4 DEF Verdicts
    <2> QED  BY <2>2, <2>3
  <1>2. CASE ~(p.probation > 0) /\ udelta < MaxDropout
    <2> DEFINE c == IF seq < p.max THEN p.cycles + 1 ELSE p.cycles
    <2>1. u.verdict = "in_order" /\ u.p = InOrder(p, seq)
      BY <1>2 DEF update_participant_seq
    <2>2. v = [o EXCEPT !.highest = n]
      BY <2>1 DEF Witness
    <2>3. v.highest = n /\ v.first = o.first /\ v.seen = o.seen /\ v.resynced = o.resynced
      BY <2>2 DEF Truth
    <2>4. u.p = [p EXCEPT !.cycles = c, !.max = seq]
      BY <2>1 DEF InOrder
    <2> HIDE DEF c
    <2>5. u.p.cycles = c /\ u.p.max = seq /\ u.p.base = p.base /\ u.p.probation = p.probation
          /\ u.p.received = p.received
      BY <2>4 DEF Participant
    <2>6. ASSUME o.first >= 0, ~o.resynced PROVE Follows(u.p, v)
      <3>1. Follows(p, o) /\ o.first \in Int /\ o.highest \in Int
        BY <1>0, <1>2, <2>6 DEF Truth
      <3>2. o.highest \in Nat /\ o.first <= o.highest
        BY <2>6, <3>1 DEF Follows
      <3>3. PICK d \in MaxDropout - RtpSeqMod .. RtpSeqMod - 1 : n = o.highest + d
        BY <3>2
      <3>4. p.max = Number(o.highest) /\ p.base = Number(o.first)
            /\ p.cycles * RtpSeqMod + p.max - p.base = o.highest - o.first
        BY <3>1 DEF Follows
      <3>5. d >= 0 /\ seq - p.max = IF seq < p.max THEN d - RtpSeqMod ELSE d
        BY <1>2, <3>2, <3>3, <3>4, GoingOn
      <3>6. c * RtpSeqMod = IF seq < p.max THEN p.cycles * RtpSeqMod + RtpSeqMod
                            ELSE p.cycles * RtpSeqMod
        BY <1>0, Constants DEF c
      <3> DEFINE pM == p.cycles * RtpSeqMod
                 cM == c * RtpSeqMod
      <3>7. pM \in Int /\ cM \in Int /\ RtpSeqMod \in Int /\ d \in Int
        BY <1>0, Constants DEF c
      <3> HIDE DEF pM, cM, seq, c
      <3>8. cM + seq - p.base = n - o.first
        <4>1. cM = (IF seq < p.max THEN pM + RtpSeqMod ELSE pM)
          BY <3>6 DEF pM, cM
        <4>2. pM + p.max - p.base = o.highest - o.first
          BY <3>4 DEF pM
        <4> QED  BY <1>0, <3>1, <3>3, <3>5, <3>7, <4>1, <4>2
      <3>9. o.first <= n
        BY <3>1, <3>2, <3>3, <3>5, <3>7
      <3> QED
        BY <2>3, <2>5, <3>4, <3>8, <3>9 DEF Follows, cM, seq
    <2> QED
      BY <1>0, <1>2, <2>1, <2>3, <2>5, <2>6 DEF Verdicts
  <1>3. CASE ~(p.probation > 0) /\ ~(udelta < MaxDropout) /\ udelta <= RtpSeqMod - MaxMisorder
    <2>1. u = Jumped(p, seq)
      BY <1>3 DEF update_participant_seq
    <2>2. CASE seq = p.bad
      <3> DEFINE b == RtpSeqMod + 1
      <3>1. u.verdict = "resync" /\ u.p = InitSeq(p, seq)
        BY <2>1, <2>2 DEF Jumped
      <3>2. v.seen = {} /\ v.resynced
        BY <3>1 DEF Witness, Truth
      <3> HIDE DEF b
      <3>3. u.p.received = p.received /\ u.p.probation = p.probation
        <4>1. u.p = [p EXCEPT !.base = seq, !.max = seq, !.bad = b]
          BY <3>1 DEF InitSeq, b
        <4> QED  BY <4>1 DEF Participant
      <3>4. ~(u.p.probation > 0)
        BY <1>3, <3>3
      <3>5. Cardinality(v.seen) <= u.p.received /\ IsFiniteSet(v.seen)
        BY <1>0, <3>2, <3>3
      <3> QED  BY <3>1, <3>2, <3>4, <3>5 DEF Verdicts
    <2>3. CASE seq # p.bad
      <3> DEFINE b == (seq + 1) % RtpSeqMod
      <3>1. u.verdict = "error" /\ u.p = [p EXCEPT !.bad = b]
        BY <2>1, <2>3 DEF Jumped
      <3> HIDE DEF b
      <3>2. SameCounts(p, u.p)
        BY <3>1 DEF Participant, SameCounts
      <3>3. v = o
        BY <3>1 DEF Witness
      <3>4. Follows(p, o) => Follows(u.p, o)
        BY <3>2 DEF Follows, SameCounts
      <3> QED  BY <1>0, <1>3, <3>1, <3>2, <3>3, <3>4 DEF Verdicts, SameCounts
    <2> QED  BY <2>2, <2>3
  <1>4. CASE /\ ~(p.probation > 0) /\ ~(udelta < MaxDropout)
             /\ ~(udelta <= RtpSeqMod - MaxMisorder)
    <2>1. u.verdict = "late" /\ u.p = p
      BY <1>4 DEF update_participant_seq
    <2>2. v = o
      BY <2>1 DEF Witness
    <2> QED  BY <1>0, <1>4, <2>1, <2>2 DEF Verdicts
  <1> QED  BY <1>1, <1>2, <1>3, <1>4

\* For the sources whose packets the processor does not have in its hands.
LEMMA OtherSources ==
    ASSUME Counting, UNCHANGED scenario, NEW s, NEW x \in Peers, x # s,
           pc["processor"] = "idle" \/ arg["processor"].s = s,
           pc'["processor"] = "idle" \/ arg'["processor"].s = s,
           source'[x] = source[x],
           x \in DOMAIN participants' => /\ x \in DOMAIN participants
                                        /\ participants'[x] = participants[x]
    PROVE  CountingOf(x)'
  <1>1. ~Mine(x) /\ ~Mine(x)'
    BY DEF Mine
  <1> QED  BY <1>1, CountingKept, SameItself DEF Counting

\* The counts p of x and the truth o about it after a step of the processor.
LEMMA CountedAs ==
    ASSUME NEW x \in Peers, NEW p, NEW o, source'[x] = o,
           x \in DOMAIN participants' => participants'[x] = p,
           IsFiniteSet(o.seen), Cardinality(o.seen) <= p.received,
           p.probation > 0 \/ pc'["processor"] \in {"seq", "probation"} => p.cycles = 0,
           p.probation = 0 /\ o.first >= 0 /\ ~o.resynced => Follows(p, o),
           Settled(x)' => p.lost = 0 \/ p.lost <= Expected(p) - p.received,
           pc'["processor"] # "update"
    PROVE  CountingOf(x)'
  <1>1. NextOfSource(x)' /\ IsFiniteSet(source'[x].seen)
    BY DEF NextOfSource, InHand
  <1>2. ASSUME Known(x)' PROVE WellCounted(x)'
    <2>1. participants'[x] = p /\ source'[x] = o
      BY <1>2 DEF Known
    <2>2. (Follows(participants[x], source[x]))' <=> Follows(p, o)
      BY <2>1 DEF Follows, Number
    <2>3. Expected(participants[x])' = Expected(p)
      BY <2>1 DEF Expected
    <2>4. InHand({"seq", "probation"}, x)' => pc'["processor"] \in {"seq", "probation"}
      BY DEF InHand
    <2> QED  BY <2>1, <2>2, <2>3, <2>4 DEF WellCounted
  <1> QED  BY <1>1, <1>2 DEF CountingOf

LEMMA ProcessorCounts ==
    ASSUME TypeOK, Counting, ProcessorStep
    PROVE  Counting'
  <1> DEFINE s == arg["processor"].s
             n == arg["processor"].n
  <1>0. /\ ControlOK /\ TableOK /\ TruthOK /\ scenario \in Scenarios
        /\ DOMAIN pc = Threads /\ DOMAIN arg = Threads
    BY DEF TypeOK, ControlOK
  <1>a. ASSUME NEW l, Goto("processor", l) PROVE pc'["processor"] = l
    BY <1>0, <1>a, Gone DEF Threads
  <1>b. ASSUME Processed PROVE pc'["processor"] = "idle"
    BY <1>a, <1>b DEF Processed
  <1>c. ASSUME pc["processor"] # "idle" PROVE s \in Peers /\ n \in Nat
    BY <1>0, <1>c DEF ControlOK, ProcessorWork
  <1>d. UNCHANGED scenario
    BY DEF ProcessorStep, RtpPacket, init_new_participant, init_participant_seq, Probation,
           UpdateSeq, Statistics, Dereference, truth
  <1>e. ASSUME NEW x, NEW p, x \in DOMAIN participants, Change(x, p)
        PROVE  /\ DOMAIN participants' = DOMAIN participants /\ participants'[x] = p
               /\ \A y \in DOMAIN participants : y # x => participants'[y] = participants[y]
    BY <1>e DEF Change
  <1>f. DOMAIN source = Peers
    BY <1>0 DEF TruthOK
  <1>1. ASSUME NEW x \in scenario.senders, NEW y \in Indexes(x), RtpPacket(x, y) PROVE Counting'
    <2>1. /\ UNCHANGED <<participants, source>> /\ pc["processor"] = "idle"
          /\ pc'["processor"] \in {"update", "new"}
          /\ arg'["processor"] = [s |-> x, n |-> y]
      BY <1>0, <1>1, <1>a DEF RtpPacket, table, Threads
    <2>2. x \in Peers
      BY <1>0, ScenariosAssumption
    <2>3. ASSUME NEW z \in Peers, z # x PROVE CountingOf(z)'
      BY <1>d, <2>1, <2>3, OtherSources
    <2>4. CountingOf(x)'
      <3>1. CountingOf(x)
        BY <2>2 DEF Counting
      <3>2. NextOfSource(x)'
        <4>1. source[x].highest # -1 => \E d \in scenario.steps : y = source[x].highest + d
          BY DEF Indexes
        <4> QED  BY <1>d, <2>1, <4>1 DEF NextOfSource
      <3>3. Known(x) => WellCounted(x)'
        <4>1. ~InHand({"seq", "probation"}, x)' /\ (Settled(x)' => Settled(x))
          BY <2>1 DEF InHand, Settled, Known
        <4>2. Expected(participants[x])' = Expected(participants[x])
          BY <2>1 DEF Expected
        <4>3. ASSUME NEW q, NEW o PROVE Follows(q, o)' <=> Follows(q, o)
          BY DEF Follows
        <4>4. UNCHANGED <<participants[x], source[x]>>
          BY <2>1
        <4> QED  BY <3>1, <4>1, <4>2, <4>3, <4>4 DEF WellCounted, CountingOf
      <3> QED  BY <2>1, <3>1, <3>2, <3>3 DEF CountingOf, Known
    <2> QED  BY <2>3, <2>4 DEF Counting
  <1>2. CASE init_new_participant
    <2>1. /\ pc["processor"] = "new" /\ add_participant(s, initials + 1)
          /\ IF Addable THEN Goto("processor", "seq") /\ UNCHANGED arg ELSE Processed
      BY <1>2 DEF init_new_participant
    <2>2. CASE Addable
      <3>1. /\ participants' = With(participants, s, NewParticipant)
            /\ source' = [source EXCEPT ![s] = Unheard] /\ UNCHANGED arg /\ s \in Peers
        BY <1>c, <2>1, <2>2 DEF add_participant, Forget
      <3>2. ASSUME NEW x \in Peers, x # s PROVE CountingOf(x)'
        BY <1>d, <1>f, <3>1, <3>2, OtherSources DEF With
      <3>3. ASSUME NEW x \in Peers, x = s PROVE CountingOf(x)'
        BY <1>f, <3>1, <3>3, CountingFresh DEF With
      <3> QED  BY <3>2, <3>3 DEF Counting
    <2>3. CASE ~Addable
      <3>1. UNCHANGED <<participants, source>> /\ pc'["processor"] = "idle"
        BY <1>b, <2>1, <2>3 DEF add_participant
      <3>2. ASSUME NEW x \in Peers, x # s PROVE CountingOf(x)'
        BY <1>d, <3>1, <3>2, OtherSources
      <3>3. ASSUME NEW x \in Peers, x = s PROVE CountingOf(x)'
        <4>1. CountingOf(x) /\ ~InHand({"update", "seq", "probation", "statistics"}, x)
              /\ ~InHand({"update"}, x)' /\ ~InHand({"seq", "probation"}, x)'
          BY <2>1, <3>1, <3>3 DEF InHand, Counting
        <4>2. Settled(x)' => Settled(x)
          BY <2>1, <3>1 DEF Settled, Known
        <4> QED
          BY <3>1, <4>1, <4>2 DEF CountingOf, NextOfSource, WellCounted, Known, Follows, Expected
      <3> QED  BY <3>2, <3>3 DEF Counting
    <2> QED  BY <2>2, <2>3
  <1>3. CASE init_participant_seq
    <2>1. pc["processor"] = "seq" /\ s \in Peers /\ n \in Nat /\ CountingOf(s)
      BY <1>3, <1>c DEF init_participant_seq, Counting
    <2>2. CASE Known(s)
      <3> DEFINE p == InitSeq(participants[s], Number(n))
                 o == [Unheard EXCEPT !.first = n, !.highest = n]
      <3>1. /\ Change(s, p) /\ source' = [source EXCEPT ![s] = o]
            /\ Goto("processor", "probation") /\ UNCHANGED arg
        BY <1>3, <2>2 DEF init_participant_seq
      <3> DEFINE q == participants[s]
                 b == RtpSeqMod + 1
                 seq == Number(n)
      <3>2. q \in Participant /\ WellCounted(s) /\ InHand({"seq", "probation"}, s)
        BY <1>0, <2>1, <2>2 DEF TableOK, Known, CountingOf, InHand
      <3>3. q.cycles = 0 /\ q.received \in Nat
        BY <3>2 DEF WellCounted, Participant
      <3> HIDE DEF b, q, seq
      <3>4. p = [q EXCEPT !.base = seq, !.max = seq, !.bad = b]
        BY DEF InitSeq, b, q, seq
      <3>5. p.base = seq /\ p.max = seq /\ p.cycles = 0 /\ p.received = q.received
        BY <3>2, <3>3, <3>4 DEF Participant
      <3>6. o.first = n /\ o.highest = n /\ o.seen = {}
        BY DEF Unheard
      <3> HIDE DEF p, o
      <3>7. ASSUME NEW x \in Peers, x # s PROVE CountingOf(x)'
        BY <1>d, <1>e, <1>f, <2>1, <2>2, <3>1, <3>7, OtherSources DEF Known
      <3>8. ASSUME NEW x \in Peers, x = s PROVE CountingOf(x)'
        <4>1. source'[x] = o /\ participants'[x] = p /\ pc'["processor"] = "probation"
              /\ arg'["processor"].s = x
          BY <1>a, <1>e, <1>f, <2>1, <2>2, <3>1, <3>8 DEF Known
        <4>2. Follows(p, o)
          <5>1. 0 * RtpSeqMod = 0 /\ seq \in Int
            BY <2>1, Constants, Numbered DEF seq, Sequence
          <5> QED  BY <2>1, <3>5, <3>6, <5>1 DEF Follows, seq
        <4>3. IsFiniteSet({}) /\ Cardinality({}) = 0
          BY FS_EmptySet
        <4>4. ~Settled(x)'
          BY <4>1 DEF Settled
        <4>5. IsFiniteSet(o.seen) /\ Cardinality(o.seen) <= p.received
          BY <3>3, <3>5, <3>6, <4>3
        <4> QED  BY <3>5, <4>1, <4>2, <4>4, <4>5, CountedAs
      <3> QED  BY <3>7, <3>8 DEF Counting
    <2>3. CASE ~Known(s)
      <3>1. UNCHANGED <<participants, source>> /\ pc'["processor"] = "idle"
        BY <1>3, <1>b, <2>3 DEF init_participant_seq
      <3>2. ASSUME NEW x \in Peers, x # s PROVE CountingOf(x)'
        BY <1>d, <3>1, <3>2, OtherSources
      <3>3. CountingOf(s) /\ s \notin DOMAIN participants'
        BY <2>1, <2>3, <3>1 DEF Known
      <3>4. ASSUME NEW x \in Peers, x = s PROVE CountingOf(x)'
        BY <3>1, <3>3, <3>4 DEF CountingOf, NextOfSource, InHand, Known
      <3> QED  BY <3>2, <3>4 DEF Counting
    <2> QED  BY <2>2, <2>3
  <1>4. CASE Probation
    <2>1. pc["processor"] = "probation" /\ s \in Peers /\ CountingOf(s)
      BY <1>4, <1>c DEF Probation, Counting
    <2>2. CASE Dereference("processor", s)
      <3>1. UNCHANGED <<participants, source, pc, arg>>
        BY <2>2 DEF Dereference, table, control
      <3>2. \A x \in Peers : CountingOf(x)'
        BY <1>d, <3>1, CountingKept, SameItself DEF Counting
      <3> QED  BY <3>2 DEF Counting
    <2>3. CASE ~Dereference("processor", s)
      <3> DEFINE q == participants[s]
                 p == [q EXCEPT !.probation = MIN_SEQUENTIAL]
                 o == source[s]
      <3>1. /\ Known(s) /\ Change(s, p) /\ UNCHANGED <<source, arg>>
            /\ Goto("processor", "statistics")
        BY <1>4, <2>3 DEF Probation, truth
      <3>2. q \in Participant /\ WellCounted(s) /\ InHand({"seq", "probation"}, s)
        BY <1>0, <2>1, <3>1 DEF TableOK, Known, CountingOf, InHand
      <3>3. q.cycles = 0 /\ Cardinality(o.seen) <= q.received /\ IsFiniteSet(o.seen)
        BY <2>1, <3>2 DEF WellCounted, CountingOf
      <3> HIDE DEF q, o
      <3>4. p.cycles = 0 /\ p.received = q.received /\ p.probation = 2
        BY <3>2, <3>3 DEF Participant, MIN_SEQUENTIAL
      <3> HIDE DEF p
      <3>5. ASSUME NEW x \in Peers, x # s PROVE CountingOf(x)'
        BY <1>d, <1>e, <2>1, <3>1, <3>5, OtherSources DEF Known
      <3>6. ASSUME NEW x \in Peers, x = s PROVE CountingOf(x)'
        <4>1. source'[x] = o /\ participants'[x] = p /\ pc'["processor"] = "statistics"
              /\ arg'["processor"].s = x
          BY <1>a, <1>e, <3>1, <3>6 DEF Known, o
        <4>2. ~Settled(x)'
          BY <4>1 DEF Settled
        <4> QED  BY <3>3, <3>4, <4>1, <4>2, CountedAs
      <3> QED  BY <3>5, <3>6 DEF Counting
    <2> QED  BY <2>2, <2>3
  <1>5. CASE UpdateSeq
    <2>1. pc["processor"] = "update" /\ s \in Peers /\ n \in Nat /\ CountingOf(s)
      BY <1>5, <1>c DEF UpdateSeq, Counting
    <2>2. CASE Known(s)
      <3> DEFINE q == participants[s]
                 t == source[s]
                 u == update_participant_seq(q, Number(n))
                 o == Witness(t, n, u.verdict)
      <3>1. /\ Change(s, u.p) /\ source' = [source EXCEPT ![s] = o]
            /\ IF u.verdict \in {"not_ready", "error"} THEN Processed
               ELSE Goto("processor", "statistics") /\ UNCHANGED arg
        BY <1>5, <2>2, Zenon DEF UpdateSeq
      <3>2. q \in Participant /\ t \in Truth /\ WellCounted(s) /\ NextOfSource(s)
            /\ InHand({"update"}, s)
        BY <1>0, <2>1, <2>2 DEF TableOK, TruthOK, Known, CountingOf, InHand
      <3> HIDE DEF q, t
      <3>3. t.highest # -1 =>
               \E d \in MaxDropout - RtpSeqMod .. RtpSeqMod - 1 : n = t.highest + d
        BY <1>0, <3>2, ScenariosAssumption DEF NextOfSource, t
      <3>4. /\ IsFiniteSet(t.seen) /\ Cardinality(t.seen) <= q.received
            /\ q.probation > 0 => q.cycles = 0
            /\ q.probation = 0 /\ t.first >= 0 /\ ~t.resynced => Follows(q, t)
            /\ Settled(s) => q.lost = 0 \/ q.lost <= Expected(q) - q.received
        BY <2>1, <3>2 DEF WellCounted, CountingOf, q, t
      <3> HIDE DEF u, o
      <3>5. /\ IsFiniteSet(o.seen) /\ Cardinality(o.seen) <= u.p.received
            /\ u.p.probation > 0 => u.p.cycles = 0
            /\ u.p.probation = 0 /\ o.first >= 0 /\ ~o.resynced => Follows(u.p, o)
            /\ u.verdict = "not_ready" => u.p.probation > 0
            /\ u.verdict = "error" => o = t /\ SameCounts(q, u.p)
            /\ u.verdict \in Verdicts
        BY <2>1, <3>2, <3>3, <3>4, Judged DEF u, o
      <3>6. ASSUME NEW x \in Peers, x # s PROVE CountingOf(x)'
        <4>1. pc'["processor"] = "idle" \/ arg'["processor"].s = s
          BY <1>b, <3>1
        <4> QED  BY <1>d, <1>e, <1>f, <2>1, <2>2, <3>1, <3>6, <4>1, OtherSources DEF Known
      <3>7. ASSUME NEW x \in Peers, x = s PROVE CountingOf(x)'
        <4>1. source'[x] = o /\ participants'[x] = u.p
          BY <1>e, <1>f, <2>1, <2>2, <3>1, <3>7 DEF Known
        <4>2. /\ pc'["processor"] \in {"idle", "statistics"}
              /\ pc'["processor"] = "idle" => u.verdict \in {"not_ready", "error"}
              /\ pc'["processor"] = "statistics" => arg'["processor"].s = x
          BY <1>a, <1>b, <3>1, <3>7
        <4>3. Settled(x)' => u.p.lost = 0 \/ u.p.lost <= Expected(u.p) - u.p.received
          <5> SUFFICES ASSUME Settled(x)'
                       PROVE  u.p.lost = 0 \/ u.p.lost <= Expected(u.p) - u.p.received
            OBVIOUS
          <5>1. u.verdict = "error"
            <6>1. pc'["processor"] = "idle" /\ participants'[x].probation = 0
              BY <4>2 DEF Settled
            <6> QED  BY <3>5, <4>1, <4>2, <6>1
          <5>2. o = t /\ SameCounts(q, u.p)
            BY <3>5, <5>1
          <5>3. Settled(s)
            BY <2>1, <2>2, <3>7, <4>1, <5>2 DEF Settled, SameCounts, q, t
          <5>4. Expected(u.p) = Expected(q)
            BY <5>2 DEF Expected, SameCounts
          <5> QED  BY <3>4, <5>2, <5>3, <5>4 DEF SameCounts
        <4> QED  BY <3>5, <4>1, <4>2, <4>3, CountedAs
      <3> QED  BY <3>6, <3>7 DEF Counting
    <2>3. CASE ~Known(s)
      <3>1. UNCHANGED <<participants, source>> /\ pc'["processor"] = "idle"
        BY <1>5, <1>b, <2>3 DEF UpdateSeq
      <3>2. ASSUME NEW x \in Peers, x # s PROVE CountingOf(x)'
        BY <1>d, <3>1, <3>2, OtherSources
      <3>3. CountingOf(s) /\ s \notin DOMAIN participants'
        BY <2>1, <2>3, <3>1 DEF Known
      <3>4. ASSUME NEW x \in Peers, x = s PROVE CountingOf(x)'
        BY <3>1, <3>3, <3>4 DEF CountingOf, NextOfSource, InHand, Known
      <3> QED  BY <3>2, <3>4 DEF Counting
    <2> QED  BY <2>2, <2>3
  <1>6. CASE Statistics
    <2>1. pc["processor"] = "statistics" /\ s \in Peers /\ n \in Nat /\ CountingOf(s)
          /\ pc'["processor"] = "idle"
      BY <1>6, <1>b, <1>c DEF Statistics, Counting
    <2>2. CASE Known(s)
      <3> DEFINE q == participants[s]
                 t == source[s]
                 p == update_session_statistics(q)
                 dropped == Expected(q) - (q.received + 1)
                 o == [t EXCEPT !.seen = @ \cup {n}]
      <3>1. Change(s, p) /\ source' = [source EXCEPT ![s].seen = @ \cup {n}]
        BY <1>6, <2>2 DEF Statistics
      <3>2. q \in Participant /\ t \in Truth /\ WellCounted(s)
        BY <1>0, <2>1, <2>2 DEF TableOK, TruthOK, Known, CountingOf
      <3> HIDE DEF q, t
      <3>3. /\ IsFiniteSet(t.seen) /\ Cardinality(t.seen) <= q.received
            /\ q.probation > 0 => q.cycles = 0
            /\ q.probation = 0 /\ t.first >= 0 /\ ~t.resynced => Follows(q, t)
        BY <2>1, <3>2 DEF WellCounted, CountingOf, q, t
      <3>4. Expected(q) \in Int /\ q.received \in Nat /\ dropped \in Int
        BY <3>2, ExpectedTypes DEF Participant
      <3> DEFINE l == IF dropped >= 0 THEN dropped ELSE 0
      <3>5. p = [q EXCEPT !.heard = TRUE, !.received = q.received + 1, !.lost = l]
        BY DEF update_session_statistics
      <3> HIDE DEF p, l
      <3>6. /\ p.received = q.received + 1 /\ p.lost = l /\ p.probation = q.probation
            /\ p.cycles = q.cycles /\ p.max = q.max /\ p.base = q.base
        BY <3>2, <3>5 DEF Participant
      <3>7. Expected(p) = Expected(q)
        BY <3>6 DEF Expected
      <3>8. p.lost = 0 \/ p.lost <= Expected(p) - p.received
        BY <3>4, <3>6, <3>7 DEF l
      <3>9. o.seen = t.seen \cup {n} /\ o.first = t.first /\ o.highest = t.highest
            /\ o.resynced = t.resynced
        BY <3>2 DEF Truth
      <3>10. IsFiniteSet(o.seen) /\ Cardinality(o.seen) <= p.received
        <4>1. IsFiniteSet(t.seen \cup {n})
              /\ Cardinality(t.seen \cup {n})
                    = IF n \in t.seen THEN Cardinality(t.seen) ELSE Cardinality(t.seen) + 1
          BY <3>3, FS_AddElement
        <4>2. Cardinality(t.seen) \in Nat
          BY <3>3, FS_CardinalityType
        <4> HIDE DEF o
        <4> QED  BY <3>3, <3>4, <3>6, <3>9, <4>1, <4>2
      <3>11. p.probation = 0 /\ o.first >= 0 /\ ~o.resynced => Follows(p, o)
        BY <3>3, <3>6, <3>9 DEF Follows
      <3> HIDE DEF o
      <3>12. ASSUME NEW x \in Peers, x # s PROVE CountingOf(x)'
        BY <1>d, <1>e, <1>f, <2>1, <2>2, <3>1, <3>12, OtherSources DEF Known
      <3>13. ASSUME NEW x \in Peers, x = s PROVE CountingOf(x)'
        <4>1. source'[x] = o /\ participants'[x] = p
          BY <1>e, <1>f, <2>1, <2>2, <3>1, <3>13 DEF Known, o, t
        <4>2. p.probation > 0 \/ pc'["processor"] \in {"seq", "probation"} => p.cycles = 0
          BY <2>1, <3>3, <3>6
        <4> QED  BY <2>1, <3>8, <3>10, <3>11, <4>1, <4>2, CountedAs
      <3> QED  BY <3>12, <3>13 DEF Counting
    <2>3. CASE ~Known(s)
      <3>1. UNCHANGED <<participants, source>>
        BY <1>6, <2>3 DEF Statistics
      <3>2. ASSUME NEW x \in Peers, x # s PROVE CountingOf(x)'
        BY <1>d, <2>1, <3>1, <3>2, OtherSources
      <3>3. CountingOf(s) /\ s \notin DOMAIN participants'
        BY <2>1, <2>3, <3>1 DEF Known
      <3>4. ASSUME NEW x \in Peers, x = s PROVE CountingOf(x)'
        BY <2>1, <3>1, <3>3, <3>4 DEF CountingOf, NextOfSource, InHand, Known
      <3> QED  BY <3>2, <3>4 DEF Counting
    <2> QED  BY <2>2, <2>3
  <1> QED  BY <1>1, <1>2, <1>3, <1>4, <1>5, <1>6 DEF ProcessorStep

\* What a step of another thread does to a source: nothing that is counted, or all anew.
Untouched(s) ==
    /\ source'[s] = source[s]
    /\ s \in DOMAIN participants' => /\ s \in DOMAIN participants
                                     /\ SameCounts(participants[s], participants'[s])
Anew(s) ==
    /\ source'[s] = Unheard
    /\ s \in DOMAIN participants' => participants'[s] = NewParticipant

LEMMA SomeUntouched ==
    ASSUME NEW s, NEW p, s \in DOMAIN participants, Change(s, p), SameCounts(participants[s], p),
           UNCHANGED source
    PROVE  \A x : Untouched(x)
  BY SameItself DEF Change, Untouched

LEMMA AllUntouched == UNCHANGED <<participants, source>> => \A x : Untouched(x)
  BY SameItself DEF Untouched

LEMMA AddedAnew ==
    ASSUME TruthOK, NEW s, NEW i, add_participant(s, i)
    PROVE  \A x \in Peers : Untouched(x) \/ Anew(x)
  <1>1. CASE Addable
    <2>1. /\ participants' = With(participants, s, NewParticipant)
          /\ source' = [source EXCEPT ![s] = Unheard]
      BY <1>1 DEF add_participant, Forget
    <2> QED  BY <2>1, SameItself DEF Untouched, Anew, With, TruthOK
  <1>2. CASE ~Addable
    BY <1>2, AllUntouched DEF add_participant
  <1> QED  BY <1>1, <1>2

LEMMA RemovedAnew ==
    ASSUME TruthOK, NEW t, NEW s, RemoveSource(t, s)
    PROVE  \A x \in Peers : Untouched(x) \/ Anew(x)
  BY SameItself DEF RemoveSource, Erase, Forget, Untouched, Anew, TruthOK

LEMMA ReaderCounts ==
    ASSUME TypeOK, Counting, ReaderStep
    PROVE  Counting'
  <1> DEFINE Others == UNCHANGED scenario /\ pc'["processor"] = pc["processor"]
                       /\ arg'["processor"] = arg["processor"]
             Counts == \A x \in Peers : Untouched(x) \/ Anew(x)
  <1>0. ControlOK /\ TableOK /\ TruthOK /\ DOMAIN arg = Threads
    BY DEF TypeOK, ControlOK
  <1>a. ASSUME NEW l, Goto("reader", l) PROVE pc'["processor"] = pc["processor"]
    BY <1>0, <1>a, Gone DEF Threads
  <1>1. ASSUME NEW frame \in scenario.frames, Receive(frame) PROVE Others /\ Counts
    BY <1>0, <1>1, <1>a, AllUntouched DEF Receive, Threads, truth, table
  <1>2. ASSUME EndOfCompound PROVE Others /\ Counts
    BY <1>0, <1>2, <1>a, AllUntouched DEF EndOfCompound, Return, Threads
  <1>3. ASSUME NextPacket PROVE Others /\ Counts
    BY <1>3, <1>a, AllUntouched DEF NextPacket
  <1>4. ASSUME AddUnknown PROVE Others /\ Counts
    BY <1>0, <1>4, <1>a, AddedAnew DEF AddUnknown
  <1>5. ASSUME SenderReport PROVE Others /\ Counts
    <2>1. CASE Dereference("reader", Subject)
      BY <2>1, AllUntouched DEF Dereference, table, control
    <2>2. CASE ~Dereference("reader", Subject)
      <3> DEFINE p == participants[Subject]
                 q == [p EXCEPT !.lsr = TRUE]
      <3>1. /\ Known(Subject) /\ Change(Subject, q) /\ Goto("reader", "deliver")
            /\ UNCHANGED <<arg, truth>>
        BY <1>5, <2>2 DEF SenderReport
      <3>2. p \in Participant
        BY <1>0, <3>1 DEF TableOK, Known
      <3> HIDE DEF p
      <3>3. SameCounts(p, q)
        BY <3>2 DEF SameCounts, Participant
      <3> HIDE DEF q
      <3> QED  BY <1>a, <3>1, <3>3, SomeUntouched DEF Known, truth, p
    <2> QED  BY <2>1, <2>2
  <1>6. ASSUME CallHook \/ HoldReport PROVE Others /\ Counts
    BY <1>0, <1>6, <1>a, AllUntouched DEF CallHook, HoldReport, Advance, Threads, truth, table
  <1>7. ASSUME StoreReport PROVE Others /\ Counts
    <2>1. CASE Dereference("reader", Subject)
      BY <2>1, AllUntouched DEF Dereference, table, control
    <2>2. CASE ~Dereference("reader", Subject)
      <3> DEFINE p == participants[Subject]
                 held == p.held \cup {Packet.type}
                 q == [p EXCEPT !.held = held]
      <3>1. Known(Subject) /\ Change(Subject, q) /\ Advance /\ UNCHANGED truth
        BY <1>7, <2>2 DEF StoreReport
      <3>2. p \in Participant
        BY <1>0, <3>1 DEF TableOK, Known
      <3> HIDE DEF p, held
      <3>3. SameCounts(p, q)
        BY <3>2 DEF SameCounts, Participant
      <3> HIDE DEF q
      <3>4. Others
        BY <1>0, <1>a, <3>1 DEF Advance, Threads, truth
      <3> QED  BY <3>1, <3>3, <3>4, SomeUntouched DEF Known, truth, p
    <2> QED  BY <2>1, <2>2
  <1>8. ASSUME LookUpBye PROVE Others /\ Counts
    BY <1>0, <1>8, <1>a, AllUntouched DEF LookUpBye, Threads, table
  <1>9. ASSUME EraseBye PROVE Others /\ Counts
    <2> DEFINE s == Head(Packet.ssrcs)
    <2>1. CASE Dereference("reader", s)
      BY <2>1, AllUntouched DEF Dereference, table, control
    <2>2. CASE ~Dereference("reader", s)
      <3>1. /\ RemoveSource("reader", s) /\ Goto("reader", "bye") /\ UNCHANGED scenario
            /\ arg' = [arg EXCEPT !["reader"].rest[1].ssrcs = Tail(@)]
        BY <1>9, <2>2 DEF EraseBye
      <3> QED  BY <1>0, <1>a, <3>1, RemovedAnew DEF Threads
    <2> QED  BY <2>1, <2>2
  <1>10. ASSUME EndOfBye PROVE Others /\ Counts
    BY <1>0, <1>10, <1>a, AllUntouched DEF EndOfBye, Advance, Threads, truth
  <1>11. Others /\ Counts
    BY <1>1, <1>2, <1>3, <1>4, <1>5, <1>6, <1>7, <1>8, <1>9, <1>10 DEF ReaderStep
  <1> QED  BY <1>11, OthersCount DEF Untouched, Anew

LEMMA ReportCounts ==
    ASSUME TypeOK, Counting, NEW t \in {"runner", "app"}, ReportStep(t)
    PROVE  Counting'
  <1>0. ControlOK /\ TableOK
    BY DEF TypeOK
  <1>1. UNCHANGED <<arg, scenario, source>> /\ \E l : Goto(t, l)
    BY DEF ReportStep, NoParticipants, SenderRole, ReceiverRole, ReportBlocks, SendReport,
           AbandonReport, table, truth
  <1>2. pc'["processor"] = pc["processor"]
    BY <1>0, <1>1, Gone DEF Threads
  <1>3. \/ UNCHANGED participants
        \/ participants' = [s \in DOMAIN participants |-> Reported(participants[s])]
    BY DEF ReportStep, NoParticipants, SenderRole, ReceiverRole, ReportBlocks, SendReport,
           AbandonReport, table
  <1>4. ASSUME NEW p \in Participant PROVE SameCounts(p, Reported(p))
    <2>1. CASE p.heard
      <3> DEFINE e == Expected(p)
                 r == p.received
      <3>1. Reported(p) = [p EXCEPT !.heard = FALSE, !.priorExpected = e, !.priorReceived = r]
        BY <2>1 DEF Reported
      <3> HIDE DEF e, r
      <3> QED  BY <3>1 DEF SameCounts, Participant
    <2>2. CASE ~p.heard
      BY <2>2, SameItself DEF Reported
    <2> QED  BY <2>1, <2>2
  <1>5. \A x \in Peers : Untouched(x)
    <2>1. CASE UNCHANGED participants
      BY <1>1, <2>1, AllUntouched
    <2>2. CASE participants' = [s \in DOMAIN participants |-> Reported(participants[s])]
      <3>1. \A x \in DOMAIN participants : participants[x] \in Participant
        BY <1>0 DEF TableOK
      <3> QED  BY <1>1, <1>4, <2>2, <3>1 DEF Untouched
    <2> QED  BY <1>3, <2>1, <2>2
  <1> QED  BY <1>1, <1>2, <1>5, OthersCount DEF Untouched

LEMMA RunnerCounts ==
    ASSUME TypeOK, Counting, RunnerStep
    PROVE  Counting'
  <1> DEFINE Others == UNCHANGED scenario /\ pc'["processor"] = pc["processor"]
                       /\ arg'["processor"] = arg["processor"]
             Counts == \A x \in Peers : Untouched(x) \/ Anew(x)
  <1>0. ControlOK /\ TruthOK /\ DOMAIN arg = Threads
    BY DEF TypeOK, ControlOK
  <1>a. ASSUME NEW l, Goto("runner", l) PROVE pc'["processor"] = pc["processor"]
    BY <1>0, <1>a, Gone DEF Threads
  <1>1. CASE ReportStep("runner")
    BY <1>1, ReportCounts
  <1>2. ASSUME Wake \/ Exit \/ Timeouts \/ Sleep PROVE Others /\ Counts
    BY <1>0, <1>2, <1>a, AllUntouched DEF Wake, Exit, Timeouts, Sleep, Threads, truth, table
  <1>3. ASSUME remove_timeout_ssrc PROVE Others /\ Counts
    <2>1. PICK s : \/ Dereference("runner", s)
                   \/ /\ RemoveSource("runner", s) /\ UNCHANGED <<pc, scenario>>
                      /\ arg' = [arg EXCEPT !["runner"].expired = @ \ {s}]
      BY <1>3 DEF remove_timeout_ssrc
    <2>2. CASE Dereference("runner", s)
      BY <2>2, AllUntouched DEF Dereference, table, control
    <2>3. CASE ~Dereference("runner", s)
      BY <1>0, <2>1, <2>3, RemovedAnew DEF Threads
    <2> QED  BY <2>2, <2>3
  <1> QED
    BY <1>1, <1>2, <1>3, OthersCount DEF Untouched, Anew, RunnerStep

LEMMA AppCounts ==
    ASSUME TypeOK, Counting, AppStep
    PROVE  Counting'
  <1> DEFINE Others == UNCHANGED scenario /\ pc'["processor"] = pc["processor"]
                       /\ arg'["processor"] = arg["processor"]
             Counts == \A x \in Peers : Untouched(x) \/ Anew(x)
  <1>0. ControlOK /\ TableOK /\ TruthOK /\ DOMAIN arg = Threads
    BY DEF TypeOK, ControlOK
  <1>a. ASSUME NEW l, Goto("app", l) PROVE pc'["processor"] = pc["processor"]
    BY <1>0, <1>a, Gone DEF Threads
  <1>1. CASE ReportStep("app")
    BY <1>1, ReportCounts
  <1>2. ASSUME NEW k \in Kinds, NEW s \in Peers, GetPacket(k, s) PROVE Others /\ Counts
    BY <1>0, <1>2, <1>a, AllUntouched DEF GetPacket, Threads, table
  <1>3. ASSUME TakePacket PROVE Others /\ Counts
    <2> DEFINE s == arg["app"].s
    <2>1. CASE Dereference("app", s)
      BY <2>1, AllUntouched DEF Dereference, table, control
    <2>2. CASE ~Dereference("app", s)
      <3> DEFINE p == participants[s]
                 held == p.held \ {arg["app"].k}
                 q == [p EXCEPT !.held = held]
      <3>1. /\ Known(s) /\ Change(s, q) /\ Goto("app", "idle") /\ UNCHANGED truth
            /\ arg' = [arg EXCEPT !["app"] = Nothing]
        BY <1>3, <2>2 DEF TakePacket
      <3>2. p \in Participant
        BY <1>0, <3>1 DEF TableOK, Known
      <3> HIDE DEF p, held
      <3>3. SameCounts(p, q)
        BY <3>2 DEF SameCounts, Participant
      <3> HIDE DEF q
      <3>4. Others
        BY <1>0, <1>a, <3>1 DEF Threads, truth
      <3> QED  BY <3>1, <3>3, <3>4, SomeUntouched DEF Known, truth, p
    <2> QED  BY <2>1, <2>2
  <1>4. ASSUME \/ update_sender_stats \/ remove_send_app_hook \/ remove_all_hooks
               \/ \E length \in scenario.appLengths :
                     send_app_packet(length) \/ install_send_app_hook(length)
               \/ \E items \in scenario.items : send_sdes_packet(items)
               \/ \E k \in scenario.hooks : install_hook(k)
        PROVE  Others /\ Counts
    <2>1. UNCHANGED <<table, control, truth>>
      BY <1>4 DEF update_sender_stats, remove_send_app_hook, remove_all_hooks, send_app_packet,
                  install_send_app_hook, send_sdes_packet, install_hook
    <2> QED  BY <2>1, AllUntouched DEF table, control, truth
  <1>5. ASSUME Stop \/ Deactivate \/ JoinRunner \/ Unmap PROVE Others /\ Counts
    <2>1. UNCHANGED <<table, truth, arg>> /\ \E l : Goto("app", l)
      BY <1>5 DEF Stop, Deactivate, JoinRunner, Unmap
    <2> QED  BY <1>a, <2>1, AllUntouched DEF table, truth
  <1>6. ASSUME cleanup_participants PROVE Others /\ Counts
    BY <1>6, <1>a DEF cleanup_participants, Anew
  <1> QED
    BY <1>1, <1>2, <1>3, <1>4, <1>5, <1>6, OthersCount DEF Untouched, Anew, AppStep

\* For a source that an RTP packet made known the extended highest number counts every
\* packet since the first over wraps, late and doubled packets (rtcp.cc:1014), and it is
\* never said that more were lost than did not come (rtcp.cc:1053), for all constants.
THEOREM LossesAreTrue == Spec => []LossIsTrue
  <1>1. TypeOK /\ Counting => LossIsTrue
    <2> SUFFICES ASSUME TypeOK, Counting, NEW s \in Peers, Settled(s)
                 PROVE  /\ Expected(participants[s]) = source[s].highest - source[s].first + 1
                        /\ participants[s].lost <= Cardinality(Missing(s))
      BY DEF LossIsTrue
    <2> DEFINE p == participants[s]
               o == source[s]
               all == o.first .. o.highest
    <2>1. /\ p \in Participant /\ o \in Truth /\ Follows(p, o) /\ IsFiniteSet(o.seen)
          /\ Cardinality(o.seen) <= p.received /\ o.first >= 0
          /\ p.lost = 0 \/ p.lost <= Expected(p) - p.received
      BY DEF TypeOK, TableOK, TruthOK, Settled, Known, Counting, CountingOf, WellCounted
    <2> HIDE DEF p, o
    <2>2. /\ o.first \in Int /\ o.highest \in Int /\ o.first <= o.highest
          /\ p.lost \in Nat /\ p.received \in Nat /\ p.max \in Int /\ p.base \in Int
      BY <2>1, Constants DEF Truth, Participant, Sequence, Follows
    <2>3. p.cycles * RtpSeqMod \in Int
      BY <2>1, Constants DEF Participant
    <2> DEFINE c == p.cycles * RtpSeqMod
    <2>4. c + p.max - p.base = o.highest - o.first /\ c \in Int /\ Expected(p) = c + p.max - p.base + 1
      BY <2>1, <2>3 DEF Follows, Expected
    <2> HIDE DEF c
    <2>5. Expected(p) = o.highest - o.first + 1
      BY <2>2, <2>4
    <2>6. IsFiniteSet(all) /\ Cardinality(all) = o.highest - o.first + 1
      <3>1. ASSUME NEW a \in Int, NEW b \in Int, a <= b
            PROVE  IsFiniteSet(a .. b) /\ Cardinality(a .. b) = b - a + 1
        <4>1. ~(a > b)
          BY <3>1
        <4> QED  BY <4>1, FS_Interval
      <3> QED  BY <2>2, <3>1, Zenon
    <2> HIDE DEF all
    <2>7. /\ Cardinality(all \ o.seen) = Cardinality(all) - Cardinality(all \cap o.seen)
          /\ IsFiniteSet(all \ o.seen)
      BY <2>6, FS_Difference, Zenon
    <2>8. all \cap o.seen \in SUBSET o.seen
      OBVIOUS
    <2>9. IsFiniteSet(all \cap o.seen) /\ Cardinality(all \cap o.seen) <= Cardinality(o.seen)
      BY <2>1, <2>8, FS_Subset, Zenon
    <2>10. /\ Cardinality(all) \in Nat /\ Cardinality(all \cap o.seen) \in Nat
           /\ Cardinality(o.seen) \in Nat /\ Cardinality(all \ o.seen) \in Nat
      BY <2>1, <2>6, <2>7, <2>9, FS_CardinalityType, Zenon
    <2>11. p.lost <= Cardinality(all \ o.seen)
      BY <2>1, <2>2, <2>5, <2>6, <2>7, <2>9, <2>10
    <2> QED  BY <2>5, <2>11 DEF Missing, p, o, all
  <1>2. Init => Counting
    <2> SUFFICES ASSUME Init, NEW s \in Peers PROVE CountingOf(s)
      BY DEF Counting
    <2>1. source[s] = Unheard /\ ~Known(s)
      BY DEF Init, Known
    <2> QED  BY <2>1, FS_EmptySet DEF CountingOf, NextOfSource, Unheard
  <1>3. TypeOK /\ Counting /\ [Next]_vars => Counting'
    <2> SUFFICES ASSUME TypeOK, Counting, [Next]_vars PROVE Counting'
      OBVIOUS
    <2>1. CASE UNCHANGED vars
      <3>1. \A x : Untouched(x)
        BY <2>1, AllUntouched DEF vars, table, truth
      <3> QED  BY <2>1, <3>1, OthersCount DEF vars, control, truth, Untouched
    <2> QED
      BY <2>1, ProcessorCounts, ReaderCounts, RunnerCounts, AppCounts DEF Next
  <1> QED  BY <1>1, <1>2, <1>3, SessionTypes, PTL DEF Spec

-----------------------------------------------------------------------------
(* What is written is what is read: counting and recursion up to a bound.  *)

\* A set of naturals with a member has a least one.
LEMMA Smallest ==
    ASSUME NEW S \in SUBSET Nat, S # {}
    PROVE  \E m \in S : \A x \in S : m <= x
  <1> DEFINE R == OpToRel(<, Nat)
  <1>1. IsWellFoundedOn(R, Nat)
    BY NatLessThanWellFounded
  <1>2. \A x, m \in Nat : <<x, m>> \in R <=> x < m
    BY DEF OpToRel
  <1> HIDE DEF R
  <1>3. PICK m \in S : \A x \in S : <<x, m>> \notin R
    BY <1>1, WFMin
  <1>4. ASSUME NEW x \in S PROVE m <= x
    <2>1. x \in Nat /\ m \in Nat /\ ~(x < m)
      BY <1>2, <1>3
    <2> QED
      BY <2>1
  <1> QED
    BY <1>4

\* What holds of 0, and of a number if it holds of the one before, holds of all: T is the
\* set of numbers it holds of.
LEMMA Induction ==
    ASSUME NEW N \in Nat, NEW T, 0 \in T, \A n \in 1 .. N : n - 1 \in T => n \in T
    PROVE  \A n \in 0 .. N : n \in T
  <1> DEFINE S == {n \in 0 .. N : n \notin T}
  <1> SUFFICES ASSUME S # {} PROVE FALSE
    OBVIOUS
  <1>1. S \in SUBSET Nat
    OBVIOUS
  <1> HIDE DEF S
  <1>2. PICK m \in S : \A x \in S : m <= x
    BY <1>1, Smallest
  <1>3. m \in 0 .. N /\ m \notin T
    BY <1>2 DEF S
  <1>4. m # 0
    BY <1>3
  <1>5. m \in 1 .. N /\ m - 1 \in 0 .. N /\ ~(m <= m - 1)
    BY <1>3, <1>4
  <1>6. m - 1 \in T
    BY <1>2, <1>5 DEF S
  <1> QED
    BY <1>3, <1>5, <1>6

\* Two functions that follow the same recursion are the same.
SameSteps(f, g, N) == f[0] = g[0] /\ \A n \in 1 .. N : f[n - 1] = g[n - 1] => f[n] = g[n]
Agree(f, g, N) == \A n \in 0 .. N : f[n] = g[n]

\* and there is only one, so that a recursive definition is any function that satisfies it.
LEMMA OneSolution ==
    ASSUME NEW N \in Nat, NEW f, NEW g, SameSteps(f, g, N)
    PROVE  Agree(f, g, N)
  <1> DEFINE T == {n \in 0 .. N : f[n] = g[n]}
  <1>1. 0 \in T
    BY DEF SameSteps
  <1>2. ASSUME NEW n \in 1 .. N, n - 1 \in T PROVE n \in T
    <2>1. n \in 0 .. N /\ f[n - 1] = g[n - 1]
      BY <1>2
    <2> QED
      BY <2>1 DEF SameSteps
  <1> HIDE DEF T
  <1>3. \A n \in 0 .. N : n \in T
    BY <1>1, <1>2, Induction
  <1> QED
    BY <1>3 DEF T, Agree

\* A function on 1 .. n is a sequence.
LEMMA FunctionIsSeq ==
  ASSUME NEW S, NEW n \in Nat, NEW f \in [1 .. n -> S]
  PROVE  f \in Seq(S) /\ Len(f) = n /\ DOMAIN f = 1 .. n
OBVIOUS


-----------------------------------------------------------------------------
-----------------------------------------------------------------------------
(* Compound packets: what is put onto a writer stays in it.                *)

\* A writer has written nothing behind its pointer.
IsWriter(w) ==
    /\ w = [size |-> w.size, cell |-> w.cell, ptr |-> w.ptr, ok |-> w.ok]
    /\ w.size \in Nat /\ w.ptr \in Nat /\ w.ok \in BOOLEAN
    /\ DOMAIN w.cell \subseteq 0 .. w.ptr - 1

\* What stood in w stands in v as it did.
Onto(v, w) ==
    /\ IsWriter(v) /\ v.ok /\ v.size = w.size /\ v.ptr >= w.ptr
    /\ \A x \in 0 .. w.ptr - 1 :
          /\ x \in DOMAIN v.cell <=> x \in DOMAIN w.cell
          /\ x \in DOMAIN w.cell => v.cell[x] = w.cell[x]

\* A writer stands in itself, and what stands in v stands in what is put onto v.
LEMMA OntoItself == ASSUME NEW w, IsWriter(w), w.ok PROVE Onto(w, w)
BY DEF Onto, IsWriter

LEMMA OntoOnto ==
    ASSUME NEW u, NEW v, NEW w, IsWriter(w), Onto(v, w), Onto(u, v)
    PROVE  Onto(u, w)
  <1>1. w.ptr \in Nat /\ v.ptr \in Nat /\ u.ptr \in Nat /\ u.ptr >= v.ptr /\ v.ptr >= w.ptr
    BY DEF Onto, IsWriter
  <1>2. \A x \in 0 .. w.ptr - 1 : x \in 0 .. v.ptr - 1
    BY <1>1
  <1>3. u.ptr >= w.ptr
    BY <1>1
  <1> QED
    BY <1>2, <1>3 DEF Onto

\* Put() adds a field and nothing else.
LEMMA PutIs ==
    ASSUME NEW w, IsWriter(w), NEW field, NEW width \in Nat, width > 0
    PROVE  LET v == Put(w, field, width)
           IN  /\ IsWriter(v) /\ v.ok = w.ok
               /\ w.ok => /\ Onto(v, w) /\ v.ptr = w.ptr + width
                          /\ w.ptr \in DOMAIN v.cell /\ v.cell[w.ptr] = field
  <1> DEFINE v == Put(w, field, width)
             p == w.ptr
             c == w.cell
  <1>1. p \in Nat /\ DOMAIN c \subseteq 0 .. p - 1
    BY DEF IsWriter
  <1>2. CASE ~w.ok
    BY <1>2 DEF Put
  <1>3. CASE w.ok
    <2> DEFINE d == [x \in DOMAIN c \cup {p} |-> IF x = p THEN field ELSE c[x]]
    <2>1. v = [size |-> w.size, cell |-> d, ptr |-> p + width, ok |-> w.ok]
      BY <1>3 DEF Put, IsWriter
    <2>2. DOMAIN d = {p} \cup DOMAIN c /\ d[p] = field /\ \A x \in DOMAIN c : x # p => d[x] = c[x]
      OBVIOUS
    <2> HIDE DEF d
    <2>3. v.size = w.size /\ v.cell = d /\ v.ptr = p + width /\ v.ok = w.ok
      BY <2>1
    <2>4. DOMAIN d \subseteq 0 .. p + width - 1
      BY <1>1, <2>2
    <2>5. IsWriter(v)
      <3>1. v.size \in Nat /\ v.ok \in BOOLEAN
        BY <2>3 DEF IsWriter
      <3>2. p + width \in Nat
        BY <1>1
      <3>3. v = [size |-> v.size, cell |-> v.cell, ptr |-> v.ptr, ok |-> v.ok]
        BY <2>1, <2>3
      <3> HIDE DEF v, c
      <3>4. DOMAIN v.cell \subseteq 0 .. v.ptr - 1 /\ v.ptr \in Nat
        BY <1>1, <2>3, <2>4, <3>2
      <3> QED
        BY <3>1, <3>3, <3>4 DEF IsWriter
    <2>6. \A x \in 0 .. p - 1 : x # p
      BY <1>1
    <2>7. p + width >= p
      BY <1>1
    <2> QED
      BY <1>1, <1>3, <2>2, <2>3, <2>5, <2>6, <2>7 DEF Onto
  <1> QED
    BY <1>2, <1>3

\* A function by its values.
LEMMA SameValues ==
  ASSUME NEW D, NEW f, NEW g, f = [x \in D |-> f[x]], g = [x \in D |-> g[x]],
         \A x \in D : f[x] = g[x]
  PROVE  f = g
OBVIOUS

\* What the total of sizes adds up.
Adds(sum, sizes, n) ==
    /\ sum \in [0 .. n -> Nat] /\ sum[0] = 0
    /\ \A i \in 1 .. n : sum[i] = sum[i - 1] + sizes[i]

\* Total() is what the sizes add up to.
LEMMA TotalIs ==
    ASSUME NEW n \in Nat, NEW sizes \in [1 .. n -> Nat]
    PROVE  \E sum : Adds(sum, sizes, n) /\ Total(sizes) = sum[n]
  <1> DEFINE Sum(f, k) == [i \in 0 .. k |-> IF i = 0 THEN 0 ELSE f[i - 1] + sizes[i]]
             T == {k \in 0 .. n : \E f : f = Sum(f, k)}
  <1>1. 0 \in T
    <2> DEFINE g == [i \in 0 .. 0 |-> 0]
    <2>1. g = Sum(g, 0)
      OBVIOUS
    <2> HIDE DEF g
    <2> QED
      BY <2>1
  <1>2. ASSUME NEW k \in 1 .. n, k - 1 \in T PROVE k \in T
    <2>1. PICK f : f = Sum(f, k - 1)
      BY <1>2
    <2> DEFINE g == [i \in 0 .. k |-> IF i = k THEN f[k - 1] + sizes[k] ELSE f[i]]
    <2>2. ASSUME NEW i \in 0 .. k PROVE g[i] = IF i = 0 THEN 0 ELSE g[i - 1] + sizes[i]
      <3>1. CASE i = k
        <4>1. k # 0 /\ k - 1 \in 0 .. k /\ k - 1 # k
          OBVIOUS
        <4> QED
          BY <3>1, <4>1
      <3>2. CASE i # k
        <4>1. i \in 0 .. k - 1 /\ (i # 0 => i - 1 \in 0 .. k /\ i - 1 # k)
          BY <3>2
        <4>2. f[i] = IF i = 0 THEN 0 ELSE f[i - 1] + sizes[i]
          BY <2>1, <4>1
        <4> QED
          BY <3>2, <4>1, <4>2
      <3> QED
        BY <3>1, <3>2
    <2> HIDE DEF g
    <2>3. g = Sum(g, k)
      <3>1. g = [i \in 0 .. k |-> g[i]]
        BY DEF g
      <3> QED
        BY <2>2, <3>1
    <2> QED
      BY SMTT(20), <2>3
  <1> HIDE DEF T
  <1>3. \A k \in 0 .. n : k \in T
    BY <1>1, <1>2, Induction
  <1>4. \E f : f = Sum(f, n)
    <2>1. n \in T
      BY <1>3
    <2> QED
      BY <2>1 DEF T
  <1> DEFINE g == CHOOSE g : g = Sum(g, n)
  <1>5. g = Sum(g, n)
    BY <1>4
  <1>6. Total(sizes) = g[n]
    BY FunctionIsSeq DEF Total
  <1> HIDE DEF g
  <1>7. g = [i \in 0 .. n |-> g[i]] /\ g[0] = 0
    BY <1>5
  <1>8. ASSUME NEW i \in 1 .. n PROVE g[i] = g[i - 1] + sizes[i]
    <2>1. i \in 0 .. n /\ i # 0
      OBVIOUS
    <2> QED
      BY <1>5, <2>1
  <1> DEFINE U == {i \in 0 .. n : g[i] \in Nat}
  <1>9. 0 \in U
    BY <1>7
  <1>10. ASSUME NEW i \in 1 .. n, i - 1 \in U PROVE i \in U
    <2>1. g[i - 1] \in Nat /\ sizes[i] \in Nat /\ i \in 0 .. n
      BY <1>10
    <2> QED
      BY <1>8, <2>1
  <1> HIDE DEF U
  <1>11. \A i \in 0 .. n : i \in U
    BY <1>9, <1>10, Induction
  <1>12. g \in [0 .. n -> Nat]
    BY <1>7, <1>11 DEF U
  <1> QED
    BY <1>6, <1>7, <1>8, <1>12 DEF Adds

\* Where the fields of a writer v stand that were put behind those of w.
Stand(v, w, fields, sum, n) ==
    \A i \in 1 .. n : /\ w.ptr + sum[i - 1] \in DOMAIN v.cell
                      /\ v.cell[w.ptr + sum[i - 1]] = fields[i]

\* PutAll() writes the fields one behind the other.
LEMMA PutAllIs ==
    ASSUME NEW w, IsWriter(w), NEW n \in Nat, NEW fields, Len(fields) = n,
           NEW widths \in [1 .. n -> Nat], \A i \in 1 .. n : widths[i] > 0,
           NEW sum, Adds(sum, widths, n)
    PROVE  LET v == PutAll(w, fields, widths)
           IN  /\ IsWriter(v) /\ v.ok = w.ok
               /\ w.ok => /\ Onto(v, w) /\ v.ptr = w.ptr + sum[n]
                          /\ Stand(v, w, fields, sum, n)
  <1> DEFINE After(f, k) == [i \in 0 .. k |-> IF i = 0 THEN w ELSE Put(f[i - 1], fields[i], widths[i])]
             T == {k \in 0 .. n : \E f : f = After(f, k)}
  <1>1. 0 \in T
    <2> DEFINE g == [i \in 0 .. 0 |-> w]
    <2>1. g = After(g, 0)
      OBVIOUS
    <2> HIDE DEF g
    <2> QED
      BY <2>1
  <1>2. ASSUME NEW k \in 1 .. n, k - 1 \in T PROVE k \in T
    <2>1. PICK f : f = After(f, k - 1)
      BY <1>2
    <2> DEFINE g == [i \in 0 .. k |-> IF i = k THEN Put(f[k - 1], fields[k], widths[k]) ELSE f[i]]
    <2>2. ASSUME NEW i \in 0 .. k
          PROVE  g[i] = IF i = 0 THEN w ELSE Put(g[i - 1], fields[i], widths[i])
      <3>1. CASE i = k
        <4>1. k # 0 /\ k - 1 \in 0 .. k /\ k - 1 # k
          OBVIOUS
        <4> QED
          BY <3>1, <4>1
      <3>2. CASE i # k
        <4>1. i \in 0 .. k - 1 /\ (i # 0 => i - 1 \in 0 .. k /\ i - 1 # k)
          BY <3>2
        <4>2. f[i] = IF i = 0 THEN w ELSE Put(f[i - 1], fields[i], widths[i])
          BY <2>1, <4>1
        <4> QED
          BY <3>2, <4>1, <4>2
      <3> QED
        BY <3>1, <3>2
    <2> HIDE DEF g
    <2>3. g = After(g, k)
      <3>1. g = [i \in 0 .. k |-> g[i]]
        BY DEF g
      <3> QED
        BY <2>2, <3>1
    <2> QED
      BY <2>3
  <1> HIDE DEF T
  <1>3. \A k \in 0 .. n : k \in T
    BY <1>1, <1>2, Induction
  <1>4. \E f : f = After(f, n)
    <2>1. n \in T
      BY <1>3
    <2> QED
      BY <2>1 DEF T
  <1> DEFINE g == CHOOSE g : g = After(g, n)
  <1>5. g = After(g, n)
    BY <1>4
  <1>6. PutAll(w, fields, widths) = g[n]
    BY DEF PutAll
  <1> HIDE DEF g
  <1>7. g[0] = w
    BY <1>5
  <1>8. ASSUME NEW i \in 1 .. n PROVE g[i] = Put(g[i - 1], fields[i], widths[i])
    <2>1. i \in 0 .. n /\ i # 0
      OBVIOUS
    <2> QED
      BY <1>5, <2>1
  <1> DEFINE U == {k \in 0 .. n : /\ IsWriter(g[k]) /\ g[k].ok = w.ok
                                  /\ w.ok => /\ Onto(g[k], w) /\ g[k].ptr = w.ptr + sum[k]
                                             /\ Stand(g[k], w, fields, sum, k)}
  <1>9. 0 \in U
    <2>1. w.ptr \in Nat /\ sum[0] = 0
      BY DEF IsWriter, Adds
    <2>2. w.ok => Onto(w, w)
      BY OntoItself
    <2>3. Stand(w, w, fields, sum, 0)
      BY DEF Stand
    <2> QED
      BY <1>7, <2>1, <2>2, <2>3
  <1>10. ASSUME NEW k \in 1 .. n, k - 1 \in U PROVE k \in U
    <2> DEFINE u == g[k - 1]
               v == g[k]
               p == w.ptr
    <2>1. /\ IsWriter(u) /\ u.ok = w.ok
          /\ w.ok => Onto(u, w) /\ u.ptr = p + sum[k - 1] /\ Stand(u, w, fields, sum, k - 1)
      BY <1>10
    <2>2. v = Put(u, fields[k], widths[k]) /\ widths[k] \in Nat /\ widths[k] > 0
      BY <1>8
    <2> HIDE DEF u, v
    <2>3. /\ IsWriter(v) /\ v.ok = u.ok
          /\ u.ok => /\ Onto(v, u) /\ v.ptr = u.ptr + widths[k]
                     /\ u.ptr \in DOMAIN v.cell /\ v.cell[u.ptr] = fields[k]
      BY <2>1, <2>2, PutIs
    <2>4. ASSUME w.ok PROVE Onto(v, w) /\ v.ptr = p + sum[k] /\ Stand(v, w, fields, sum, k)
      <3>1. Onto(v, w)
        BY <2>1, <2>3, <2>4, OntoOnto
      <3>2. v.ptr = p + sum[k]
        <4>1. sum[k] = sum[k - 1] + widths[k] /\ sum[k - 1] \in Nat /\ p \in Nat
          BY DEF Adds, IsWriter
        <4> QED
          BY <2>1, <2>2, <2>3, <2>4, <4>1
      <3>3. ASSUME NEW i \in 1 .. k
            PROVE  p + sum[i - 1] \in DOMAIN v.cell /\ v.cell[p + sum[i - 1]] = fields[i]
        <4>1. CASE i = k
          BY <2>1, <2>3, <2>4, <4>1
        <4>2. CASE i # k
          <5>1. i \in 1 .. k - 1
            BY <4>2
          <5> DEFINE x == p + sum[i - 1]
          <5>2. x \in DOMAIN u.cell /\ u.cell[x] = fields[i]
            BY <2>1, <2>4, <5>1 DEF Stand
          <5>3. x \in 0 .. u.ptr - 1
            BY <2>1, <5>2 DEF IsWriter
          <5> HIDE DEF x
          <5>4. x \in DOMAIN v.cell /\ v.cell[x] = u.cell[x]
            BY <2>1, <2>3, <2>4, <5>2, <5>3 DEF Onto
          <5> QED
            BY <5>2, <5>4 DEF x
        <4> QED
          BY <4>1, <4>2
      <3> QED
        BY <3>1, <3>2, <3>3 DEF Stand
    <2>5. k \in 0 .. n
      OBVIOUS
    <2> QED
      BY <2>1, <2>3, <2>4, <2>5 DEF v
  <1> HIDE DEF U
  <1>11. \A k \in 0 .. n : k \in U
    BY <1>9, <1>10, Induction
  <1>12. n \in U
    BY <1>11
  <1> QED
    BY <1>6, <1>12 DEF U

\* A packet of this type stands at p and reaches to end.
Heads(v, p, type, end) ==
    /\ p \in DOMAIN v.cell /\ v.cell[p].type = type
    /\ p + rtcp_length_in_bytes(v.cell[p].length) = end

\* A header is written only if its size is one that can be; it then heads so many octets.
LEMMA HeaderIs ==
    ASSUME NEW w, IsWriter(w), NEW size \in Nat, NEW second, NEW type
    PROVE  LET v == construct_rtcp_header(w, size, second, type)
           IN  /\ IsWriter(v)
               /\ v.ok => /\ w.ok /\ size % 4 = 0 /\ Onto(v, w) /\ v.ptr = w.ptr + 4
                          /\ Heads(v, w.ptr, type, w.ptr + size) /\ v.cell[w.ptr].count = second
  <1> DEFINE v == construct_rtcp_header(w, size, second, type)
             header == [type |-> type, count |-> second, length |-> size \div 4 - 1]
  <1>1. CASE size > UINT16_MAX \/ size % 4 # 0
    <2>1. v = [w EXCEPT !.ok = FALSE]
      BY <1>1 DEF construct_rtcp_header
    <2> HIDE DEF v
    <2>2. v = [size |-> w.size, cell |-> w.cell, ptr |-> w.ptr, ok |-> FALSE]
      BY <2>1 DEF IsWriter
    <2>3. IsWriter(v) /\ ~v.ok
      BY <2>2 DEF IsWriter
    <2> QED
      BY <2>3 DEF v
  <1>2. CASE ~(size > UINT16_MAX \/ size % 4 # 0)
    <2>1. v = Put(w, header, 4)
      BY <1>2 DEF construct_rtcp_header, RTCP_HEADER_SIZE
    <2> HIDE DEF v
    <2>2. /\ IsWriter(v) /\ v.ok = w.ok
          /\ w.ok => /\ Onto(v, w) /\ v.ptr = w.ptr + 4
                     /\ w.ptr \in DOMAIN v.cell /\ v.cell[w.ptr] = header
      BY <2>1, PutIs
    <2>3. size % 4 = 0 /\ rtcp_length_in_bytes(header.length) = size
      BY <1>2 DEF rtcp_length_in_bytes
    <2>4. header.type = type /\ header.count = second
      OBVIOUS
    <2> HIDE DEF header
    <2> QED
      BY <2>2, <2>3, <2>4 DEF Heads, v
  <1> QED
    BY <1>1, <1>2

\* What heads a packet in w does so in all that is put onto it.
LEMMA HeadsStays ==
    ASSUME NEW w, IsWriter(w), NEW v, Onto(v, w), NEW p, NEW type, NEW end, Heads(w, p, type, end)
    PROVE  Heads(v, p, type, end) /\ v.cell[p] = w.cell[p]
  <1>1. p \in 0 .. w.ptr - 1
    BY DEF IsWriter, Heads
  <1> QED
    BY <1>1 DEF Onto, Heads

\* A field of w stands in all that is put onto w.
LEMMA FieldStays ==
    ASSUME NEW w, IsWriter(w), NEW v, Onto(v, w), NEW p \in DOMAIN w.cell
    PROVE  p \in DOMAIN v.cell /\ v.cell[p] = w.cell[p]
  <1>1. p \in 0 .. w.ptr - 1
    BY DEF IsWriter
  <1> QED
    BY <1>1 DEF Onto

\* An SSRC is four octets wide.
LEMMA SsrcIs ==
  ASSUME NEW w, IsWriter(w), NEW ssrc
  PROVE  LET v == construct_ssrc(w, ssrc)
         IN  /\ IsWriter(v) /\ v.ok = w.ok
             /\ w.ok => /\ Onto(v, w) /\ v.ptr = w.ptr + 4
                        /\ w.ptr \in DOMAIN v.cell /\ v.cell[w.ptr] = ssrc
BY PutIs DEF construct_ssrc, SSRC_CSRC_SIZE

\* Padding up to a multiple of four does not depend on where a packet starts.
LEMMA PaddedIs ==
  ASSUME NEW p \in Nat, p % 4 = 0, NEW m \in Nat
  PROVE  /\ Padded(p + m) = p + Padded(m) /\ Padded(m) > m /\ Padded(m) \in Nat
         /\ Padded(m) % 4 = 0
BY DEF Padded

Items(items, n) == Len(items) = n /\ DOMAIN items = 1 .. n /\ \A i \in 1 .. n : items[i].length \in Nat

\* The SDES packet of ssrc stands in v behind w, item after item.
SdesStands(v, w, ssrc, items, sum, n) ==
    /\ w.ok /\ Onto(v, w) /\ v.ptr = w.ptr + get_sdes_packet_size(items)
    /\ v.ptr \in Nat /\ w.ptr + 8 + sum[n] < v.ptr
    /\ Heads(v, w.ptr, SDES, v.ptr)
    /\ w.ptr + 4 \in DOMAIN v.cell /\ v.cell[w.ptr + 4] = ssrc
    /\ \A i \in 1 .. n : /\ w.ptr + 8 + sum[i - 1] \in DOMAIN v.cell
                         /\ v.cell[w.ptr + 8 + sum[i - 1]] = items[i]
    /\ \E i \in 1 .. n : items[i].type = CNAME

\* SdesPacket() writes what SdesStands says, or fails.
LEMMA SdesIs ==
    ASSUME NEW w, IsWriter(w), w.ptr % 4 = 0, NEW ssrc, NEW second,
           NEW n \in Nat, NEW items, Items(items, n), NEW sum, Adds(sum, ItemSizes(items), n),
           Total(ItemSizes(items)) = sum[n]
    PROVE  LET v == SdesPacket(w, ssrc, second, items)
           IN  IsWriter(v) /\ (v.ok => SdesStands(v, w, ssrc, items, sum, n))
  <1> DEFINE size == get_sdes_packet_size(items)
             p == w.ptr
             a == construct_rtcp_header(w, size, second, SDES)
             b == construct_ssrc(a, ssrc)
             c == PutAll(b, items, ItemSizes(items))
             v == SdesPacket(w, ssrc, second, items)
             named == \E i \in DOMAIN items : items[i].type = CNAME
  <1>0. p \in Nat
    BY DEF IsWriter
  <1>1. ItemSizes(items) \in [1 .. n -> Nat] /\ (\A i \in 1 .. n : ItemSizes(items)[i] > 0)
        /\ DOMAIN items = 1 .. n /\ Len(items) = n
    BY DEF ItemSizes, ItemSize, Items
  <1>2. sum[n] \in Nat
    BY DEF Adds
  <1>3. size = Padded(8 + sum[n]) /\ size \in Nat /\ p + size = Padded(p + (8 + sum[n]))
        /\ 8 + sum[n] < size /\ size % 4 = 0
    <2>1. size = Padded(8 + sum[n])
      BY DEF get_sdes_packet_size, RTCP_HEADER_SIZE, SSRC_CSRC_SIZE
    <2>2. 8 + sum[n] \in Nat
      BY <1>2
    <2> HIDE DEF size
    <2> QED
      BY <1>0, <2>1, <2>2, PaddedIs
  <1>4. v = [c EXCEPT !.ptr = Padded(@), !.ok = @ /\ named]
    BY DEF SdesPacket, construct_sdes_chunk
  <1> HIDE DEF size, v
  <1>5. /\ IsWriter(a)
        /\ a.ok => /\ w.ok /\ Onto(a, w) /\ a.ptr = p + 4 /\ Heads(a, p, SDES, p + size)
    BY <1>3, HeaderIs
  <1> HIDE DEF a
  <1>6. /\ IsWriter(b) /\ b.ok = a.ok
        /\ a.ok => /\ Onto(b, a) /\ b.ptr = a.ptr + 4
                   /\ a.ptr \in DOMAIN b.cell /\ b.cell[a.ptr] = ssrc
    BY <1>5, SsrcIs
  <1> HIDE DEF b
  <1>7. /\ IsWriter(c) /\ c.ok = b.ok
        /\ b.ok => /\ Onto(c, b) /\ c.ptr = b.ptr + sum[n] /\ Stand(c, b, items, sum, n)
    BY <1>1, <1>6, PutAllIs
  <1> HIDE DEF c
  <1>8. v = [size |-> c.size, cell |-> c.cell, ptr |-> Padded(c.ptr), ok |-> c.ok /\ named]
    BY <1>4, <1>7 DEF IsWriter
  <1> HIDE DEF named
  <1>9. Padded(c.ptr) \in Nat /\ Padded(c.ptr) > c.ptr /\ c.ptr \in Nat
    <2>1. c.ptr \in Nat
      BY <1>7 DEF IsWriter
    <2> QED
      BY <2>1 DEF Padded
  <1>10. v.size = c.size /\ v.cell = c.cell /\ v.ptr = Padded(c.ptr) /\ v.ok = (c.ok /\ named)
    BY <1>8
  <1>11. IsWriter(v)
    <2>1. v = [size |-> v.size, cell |-> v.cell, ptr |-> v.ptr, ok |-> v.ok]
      BY <1>8, <1>10
    <2>2. v.size \in Nat /\ v.ptr \in Nat /\ DOMAIN v.cell \subseteq 0 .. v.ptr - 1
      BY <1>7, <1>9, <1>10 DEF IsWriter
    <2>3. v.ok \in BOOLEAN
      BY <1>7, <1>10 DEF IsWriter
    <2> QED
      BY <2>1, <2>2, <2>3 DEF IsWriter
  <1> SUFFICES ASSUME v.ok
               PROVE  SdesStands(v, w, ssrc, items, sum, n)
    BY <1>11 DEF v
  <1>12. w.ok /\ a.ok /\ b.ok /\ c.ok /\ named
    BY <1>5, <1>6, <1>7, <1>10
  <1>13. a.ptr = p + 4 /\ b.ptr = p + 8 /\ c.ptr = p + (8 + sum[n]) /\ v.ptr = p + size
    BY <1>0, <1>2, <1>3, <1>5, <1>6, <1>7, <1>10, <1>12
  <1>14. v.ptr \in Nat /\ p + 8 + sum[n] < v.ptr
    BY <1>0, <1>2, <1>3, <1>13
  <1>15. Onto(v, c)
    BY <1>7, <1>9, <1>10, <1>11 DEF Onto, IsWriter
  <1>16. Onto(v, b)
    BY <1>6, <1>7, <1>12, <1>15, OntoOnto
  <1>17. Onto(v, a)
    BY <1>5, <1>6, <1>12, <1>16, OntoOnto
  <1>18. Onto(v, w)
    BY <1>5, <1>12, <1>17, OntoOnto
  <1>19. Heads(v, p, SDES, v.ptr)
    BY <1>5, <1>12, <1>13, <1>17, HeadsStays
  <1>20. p + 4 \in DOMAIN v.cell /\ v.cell[p + 4] = ssrc
    BY <1>6, <1>12, <1>13, <1>16, FieldStays
  <1>21. ASSUME NEW i \in 1 .. n
         PROVE  p + 8 + sum[i - 1] \in DOMAIN v.cell /\ v.cell[p + 8 + sum[i - 1]] = items[i]
    BY <1>7, <1>10, <1>12, <1>13 DEF Stand
  <1>22. v.ptr = p + get_sdes_packet_size(items)
    BY <1>13 DEF size
  <1>23. \E i \in 1 .. n : items[i].type = CNAME
    BY <1>1, <1>12 DEF named
  <1> QED
    BY <1>12, <1>14, <1>18, <1>19, <1>20, <1>21, <1>22, <1>23 DEF SdesStands

\* An APP packet.
LEMMA AppIs ==
    ASSUME NEW w, IsWriter(w), NEW ssrc, NEW app, app.length \in Nat
    PROVE  LET v == construct_app_block(w, ssrc, app)
           IN  /\ IsWriter(v)
               /\ v.ok => /\ w.ok /\ Onto(v, w) /\ v.ptr = w.ptr + AppSize(app)
                          /\ Heads(v, w.ptr, APP, w.ptr + AppSize(app))
  <1> DEFINE p == w.ptr
             size == AppSize(app)
             a == construct_rtcp_header(w, size, app.subtype, APP)
             b == construct_ssrc(a, ssrc)
             v == construct_app_block(w, ssrc, app)
  <1>1. size = 12 + app.length /\ size \in Nat /\ p \in Nat
    BY DEF AppSize, get_app_packet_size, RTCP_HEADER_SIZE, SSRC_CSRC_SIZE, APP_NAME_SIZE, IsWriter
  <1>2. v = Put(b, app, 4 + app.length)
    BY DEF construct_app_block, construct_app_packet, APP_NAME_SIZE, AppSize
  <1> HIDE DEF size, v
  <1>3. /\ IsWriter(a)
        /\ a.ok => w.ok /\ Onto(a, w) /\ a.ptr = p + 4 /\ Heads(a, p, APP, p + size)
    BY <1>1, HeaderIs
  <1> HIDE DEF a
  <1>4. IsWriter(b) /\ b.ok = a.ok /\ (a.ok => Onto(b, a) /\ b.ptr = a.ptr + 4)
    BY <1>3, SsrcIs
  <1> HIDE DEF b
  <1>5. IsWriter(v) /\ v.ok = b.ok /\ (b.ok => Onto(v, b) /\ v.ptr = b.ptr + (4 + app.length))
    BY <1>2, <1>4, PutIs
  <1>6. ASSUME v.ok PROVE w.ok /\ Onto(v, w) /\ v.ptr = p + size /\ Heads(v, p, APP, p + size)
    <2>1. w.ok /\ a.ok /\ b.ok
      BY <1>3, <1>4, <1>5, <1>6
    <2>2. v.ptr = p + size
      BY <1>1, <1>3, <1>4, <1>5, <2>1
    <2>3. Onto(v, a)
      BY <1>3, <1>4, <1>5, <2>1, OntoOnto
    <2>4. Onto(v, w)
      BY <1>3, <2>1, <2>3, OntoOnto
    <2>5. Heads(v, p, APP, p + size)
      BY <1>3, <2>1, <2>3, HeadsStays
    <2> QED
      BY <2>1, <2>2, <2>4, <2>5
  <1> QED
    BY <1>5, <1>6 DEF v, size

\* The APP packets of a report follow one another.
AppsStand(v, w, sum, n) ==
    /\ w.ok /\ Onto(v, w) /\ v.ptr = w.ptr + sum[n]
    /\ \A i \in 1 .. n : Heads(v, w.ptr + sum[i - 1], APP, w.ptr + sum[i])

\* AppPackets() writes what AppsStand says, or fails.
LEMMA AppsAre ==
    ASSUME NEW w, IsWriter(w), NEW ssrc, NEW n \in Nat, NEW apps, Len(apps) = n,
           \A i \in 1 .. n : apps[i].length \in Nat,
           NEW sum, Adds(sum, [i \in 1 .. n |-> AppSize(apps[i])], n)
    PROVE  LET v == AppPackets(w, ssrc, apps)
           IN  IsWriter(v) /\ (v.ok => AppsStand(v, w, sum, n))
  <1> DEFINE After(f, k) == [i \in 0 .. k |-> IF i = 0 THEN w ELSE construct_app_block(f[i - 1], ssrc, apps[i])]
             T == {k \in 0 .. n : \E f : f = After(f, k)}
  <1>1. 0 \in T
    <2> DEFINE g == [i \in 0 .. 0 |-> w]
    <2>1. g = After(g, 0)
      OBVIOUS
    <2> HIDE DEF g
    <2> QED
      BY <2>1
  <1>2. ASSUME NEW k \in 1 .. n, k - 1 \in T PROVE k \in T
    <2>1. PICK f : f = After(f, k - 1)
      BY <1>2
    <2> DEFINE g == [i \in 0 .. k |-> IF i = k THEN construct_app_block(f[k - 1], ssrc, apps[k]) ELSE f[i]]
    <2>2. ASSUME NEW i \in 0 .. k
          PROVE  g[i] = IF i = 0 THEN w ELSE construct_app_block(g[i - 1], ssrc, apps[i])
      <3>1. CASE i = k
        <4>1. k # 0 /\ k - 1 \in 0 .. k /\ k - 1 # k
          OBVIOUS
        <4> QED
          BY <3>1, <4>1
      <3>2. CASE i # k
        <4>1. i \in 0 .. k - 1 /\ (i # 0 => i - 1 \in 0 .. k /\ i - 1 # k)
          BY <3>2
        <4>2. f[i] = IF i = 0 THEN w ELSE construct_app_block(f[i - 1], ssrc, apps[i])
          BY <2>1, <4>1
        <4> QED
          BY <3>2, <4>1, <4>2
      <3> QED
        BY <3>1, <3>2
    <2> HIDE DEF g
    <2>3. g = After(g, k)
      <3>1. g = [i \in 0 .. k |-> g[i]]
        BY DEF g
      <3> QED
        BY <2>2, <3>1
    <2> QED
      BY <2>3
  <1> HIDE DEF T
  <1>3. \A k \in 0 .. n : k \in T
    BY <1>1, <1>2, Induction
  <1>4. \E f : f = After(f, n)
    <2>1. n \in T
      BY <1>3
    <2> QED
      BY <2>1 DEF T
  <1> DEFINE g == CHOOSE g : g = After(g, n)
  <1>5. g = After(g, n)
    BY <1>4
  <1>6. AppPackets(w, ssrc, apps) = g[n]
    BY DEF AppPackets
  <1> HIDE DEF g
  <1>7. g[0] = w
    BY <1>5
  <1>8. ASSUME NEW i \in 1 .. n PROVE g[i] = construct_app_block(g[i - 1], ssrc, apps[i])
    <2>1. i \in 0 .. n /\ i # 0
      OBVIOUS
    <2> QED
      BY <1>5, <2>1
  <1> DEFINE InPlace(v, k) == \A i \in 1 .. k : Heads(v, w.ptr + sum[i - 1], APP, w.ptr + sum[i])
             Good(v, k) == w.ok /\ Onto(v, w) /\ v.ptr = w.ptr + sum[k] /\ InPlace(v, k)
             U == {k \in 0 .. n : IsWriter(g[k]) /\ (g[k].ok => Good(g[k], k))}
  <1>9. 0 \in U
    <2>1. w.ptr \in Nat /\ sum[0] = 0
      BY DEF IsWriter, Adds
    <2>2. w.ok => Onto(w, w)
      BY OntoItself
    <2> QED
      BY <1>7, <2>1, <2>2
  <1>10. ASSUME NEW k \in 1 .. n, k - 1 \in U PROVE k \in U
    <2> DEFINE u == g[k - 1]
               v == g[k]
               p == w.ptr
    <2>1. IsWriter(u) /\ (u.ok => Good(u, k - 1))
      BY <1>10
    <2>2. v = construct_app_block(u, ssrc, apps[k]) /\ apps[k].length \in Nat
      BY <1>8
    <2> HIDE DEF u, v
    <2>3. /\ IsWriter(v)
          /\ v.ok => /\ u.ok /\ Onto(v, u) /\ v.ptr = u.ptr + AppSize(apps[k])
                     /\ Heads(v, u.ptr, APP, u.ptr + AppSize(apps[k]))
      BY <2>1, <2>2, AppIs
    <2>4. ASSUME v.ok PROVE Good(v, k)
      <3>1. u.ok /\ w.ok /\ Onto(v, w)
        BY <2>1, <2>3, <2>4, OntoOnto
      <3>2. u.ptr = p + sum[k - 1] /\ u.ptr + AppSize(apps[k]) = p + sum[k]
        <4>1. sum[k] = sum[k - 1] + AppSize(apps[k]) /\ sum[k - 1] \in Nat /\ p \in Nat
          BY DEF Adds, IsWriter
        <4>2. AppSize(apps[k]) \in Nat
          BY <2>2 DEF AppSize, get_app_packet_size, RTCP_HEADER_SIZE, SSRC_CSRC_SIZE, APP_NAME_SIZE
        <4> QED
          BY <2>1, <3>1, <4>1, <4>2
      <3>3. ASSUME NEW i \in 1 .. k PROVE Heads(v, p + sum[i - 1], APP, p + sum[i])
        <4>1. CASE i = k
          BY <2>3, <2>4, <3>2, <4>1
        <4>2. CASE i # k
          <5>1. i \in 1 .. k - 1
            BY <4>2
          <5>2. Heads(u, p + sum[i - 1], APP, p + sum[i])
            BY <2>1, <3>1, <5>1
          <5> QED
            BY <2>1, <2>3, <2>4, <5>2, HeadsStays
        <4> QED
          BY <4>1, <4>2
      <3> QED
        BY <2>3, <2>4, <3>1, <3>2, <3>3
    <2>5. k \in 0 .. n
      OBVIOUS
    <2> QED
      BY <2>3, <2>4, <2>5 DEF v
  <1> HIDE DEF U
  <1>11. \A k \in 0 .. n : k \in U
    BY <1>9, <1>10, Induction
  <1>12. n \in U
    BY <1>11
  <1> QED
    BY <1>6, <1>12 DEF U, AppsStand

\* A list of fields of one width, after each of them.
Widths(width, n) == [i \in 0 .. n |-> width * i]

\* Fields of one width add up to a multiple of it.
LEMMA WidthsAdd ==
    ASSUME NEW width \in Nat, NEW n \in Nat, NEW fields, DOMAIN fields = 1 .. n
    PROVE  Adds(Widths(width, n), Wide(fields, width), n)
  <1>1. ASSUME NEW i \in 1 .. n PROVE width * i = width * (i - 1) + width
    OBVIOUS
  <1>2. ASSUME NEW i \in 0 .. n PROVE width * i \in Nat
    OBVIOUS
  <1>3. \A i \in 1 .. n : i - 1 \in 0 .. n /\ i \in 0 .. n
    OBVIOUS
  <1>4. width * 0 = 0 /\ 0 \in 0 .. n
    OBVIOUS
  <1>5. Widths(width, n) \in [0 .. n -> Nat] /\ \A i \in 0 .. n : Widths(width, n)[i] = width * i
    BY <1>2 DEF Widths
  <1>6. \A i \in 1 .. n : Wide(fields, width)[i] = width
    BY DEF Wide
  <1> QED
    BY <1>1, <1>3, <1>4, <1>5, <1>6 DEF Adds

\* The BYE packet of this session, which is the last of a compound packet.
LEMMA ByeIs ==
    ASSUME NEW w, IsWriter(w), NEW ssrc
    PROVE  LET v == ByePacket(w, <<ssrc>>)
           IN  /\ IsWriter(v)
               /\ v.ok => w.ok /\ Onto(v, w) /\ v.ptr = w.ptr + 8 /\ Heads(v, w.ptr, BYE, w.ptr + 8)
  <1> DEFINE s == <<ssrc>>
             a == construct_rtcp_header(w, 8, 1, BYE)
             v == ByePacket(w, s)
  <1>1. Len(s) = 1 /\ DOMAIN s = 1 .. 1 /\ s # <<>>
    OBVIOUS
  <1>2. v = PutAll(a, s, Wide(s, 4))
    BY <1>1 DEF ByePacket, construct_bye_packet, get_bye_packet_size, RTCP_HEADER_SIZE, SSRC_CSRC_SIZE
  <1> HIDE DEF v, s
  <1>3. /\ IsWriter(a)
        /\ a.ok => w.ok /\ Onto(a, w) /\ a.ptr = w.ptr + 4 /\ Heads(a, w.ptr, BYE, w.ptr + 8)
    BY HeaderIs
  <1> HIDE DEF a
  <1> DEFINE sum == Widths(4, 1)
             widths == Wide(s, 4)
  <1>4. Adds(sum, widths, 1) /\ widths \in [1 .. 1 -> Nat] /\ (\A i \in 1 .. 1 : widths[i] > 0) /\ sum[1] = 4
    <2>1. Adds(sum, widths, 1)
      BY <1>1, WidthsAdd
    <2>2. widths \in [1 .. 1 -> Nat] /\ (\A i \in 1 .. 1 : widths[i] = 4) /\ sum[1] = 4 * 1
      BY <1>1 DEF Wide, Widths
    <2> QED
      BY <2>1, <2>2
  <1> HIDE DEF sum, widths
  <1>5. IsWriter(v) /\ v.ok = a.ok /\ (a.ok => Onto(v, a) /\ v.ptr = a.ptr + 4)
    <2>1. v = PutAll(a, s, widths)
      BY <1>2 DEF widths
    <2> DEFINE n == 1
    <2>2. /\ n \in Nat /\ Len(s) = n /\ Adds(sum, widths, n) /\ widths \in [1 .. n -> Nat]
          /\ (\A i \in 1 .. n : widths[i] > 0) /\ sum[n] = 4
      BY <1>1, <1>4
    <2> HIDE DEF n
    <2> QED
      BY <1>3, <2>1, <2>2, PutAllIs
  <1>6. ASSUME v.ok PROVE w.ok /\ Onto(v, w) /\ v.ptr = w.ptr + 8 /\ Heads(v, w.ptr, BYE, w.ptr + 8)
    <2>1. Onto(v, w)
      BY <1>3, <1>5, <1>6, OntoOnto
    <2>2. Heads(v, w.ptr, BYE, w.ptr + 8)
      BY <1>3, <1>5, <1>6, HeadsStays
    <2>3. w.ptr \in Nat
      BY DEF IsWriter
    <2> QED
      BY <1>3, <1>5, <1>6, <2>1, <2>2, <2>3
  <1> QED
    BY <1>5, <1>6 DEF v, s

\* Where the report blocks of an SR or RR start.
Base(kind) == 8 + IF kind = SR THEN 20 ELSE 0

\* An SR or RR with n report blocks stands at the start of v, and nothing behind it.
ReportAtStart(v, kind, ssrc, blocks, n) ==
    /\ v.ptr = Base(kind) + 24 * n /\ Heads(v, 0, kind, v.ptr) /\ v.cell[0].count = n
    /\ 4 \in DOMAIN v.cell /\ v.cell[4] = ssrc
    /\ \A i \in 1 .. n : /\ Base(kind) + 24 * (i - 1) \in DOMAIN v.cell
                         /\ v.cell[Base(kind) + 24 * (i - 1)] = blocks[i]

ReportMade(v, w, srtp, kind, ssrc, blocks, n) ==
    v.ok => /\ ~srtp /\ IsWriter(v) /\ v.size = w.size
            /\ ReportAtStart(v, kind, ssrc, blocks, n)

\* ReportPacket() writes what ReportAtStart says, or fails, as it does for SRTCP: the trailer
\* is no multiple of four (rtcp_packets.cc:61).
LEMMA ReportIs ==
    ASSUME NEW w, IsWriter(w), w.ok, w.ptr = 0, NEW srtp \in BOOLEAN, NEW kind \in {SR, RR}, NEW ssrc,
           NEW info, NEW n \in Nat, NEW blocks, Len(blocks) = n, DOMAIN blocks = 1 .. n
    PROVE  ReportMade(ReportPacket(w, srtp, kind, ssrc, info, blocks), w, srtp, kind, ssrc, blocks, n)
  <1> DEFINE size == IF kind = SR THEN get_sr_packet_size(srtp, Len(blocks))
                                  ELSE get_rr_packet_size(srtp, Len(blocks))
             a == construct_rtcp_header(w, size, n, kind)
             b == construct_ssrc(a, ssrc)
             c == IF kind = SR THEN construct_sender_info(b, info) ELSE b
             v == ReportPacket(w, srtp, kind, ssrc, info, blocks)
  <1>1. v = PutAll(c, blocks, Wide(blocks, 24))
    BY DEF ReportPacket, construct_report_blocks, REPORT_BLOCK_SIZE
  <1>2. size = Base(kind) + 24 * n + (IF srtp THEN 14 ELSE 0) /\ size \in Nat
    BY DEF get_sr_packet_size, get_rr_packet_size, RTCP_HEADER_SIZE, SSRC_CSRC_SIZE, SENDER_INFO_SIZE,
           REPORT_BLOCK_SIZE, SRTCP_TRAILER, Base
  <1> HIDE DEF size, v
  <1>3. /\ IsWriter(a)
        /\ a.ok => /\ size % 4 = 0 /\ Onto(a, w) /\ a.ptr = 4
                   /\ Heads(a, 0, kind, size) /\ a.cell[0].count = n
    <2>1. w.ptr + 4 = 4 /\ w.ptr + size = size
      BY <1>2
    <2> QED
      BY <1>2, <2>1, HeaderIs
  <1> HIDE DEF a
  <1>4. /\ IsWriter(b) /\ b.ok = a.ok
        /\ a.ok => Onto(b, a) /\ b.ptr = 8 /\ 4 \in DOMAIN b.cell /\ b.cell[4] = ssrc
    BY <1>3, SsrcIs
  <1> HIDE DEF b
  <1>5. IsWriter(c) /\ c.ok = b.ok /\ (b.ok => Onto(c, b) /\ c.ptr = Base(kind))
    <2>1. CASE kind = SR
      <3>1. c = Put(b, info, 20)
        BY <2>1 DEF construct_sender_info, SENDER_INFO_SIZE
      <3> HIDE DEF c
      <3>2. IsWriter(c) /\ c.ok = b.ok /\ (b.ok => Onto(c, b) /\ c.ptr = b.ptr + 20)
        BY <1>4, <3>1, PutIs
      <3> QED
        BY <1>4, <2>1, <3>2 DEF Base
    <2>2. CASE kind # SR
      <3>1. c = b
        BY <2>2
      <3> QED
        BY <1>4, <2>2, <3>1, OntoItself DEF Base
    <2> QED
      BY <2>1, <2>2
  <1> HIDE DEF c
  <1> DEFINE sum == Widths(24, n)
             widths == Wide(blocks, 24)
  <1>6. /\ Adds(sum, widths, n) /\ widths \in [1 .. n -> Nat] /\ (\A i \in 1 .. n : widths[i] > 0)
        /\ \A i \in 0 .. n : sum[i] = 24 * i
    <2>1. Adds(sum, widths, n)
      BY WidthsAdd
    <2>2. widths \in [1 .. n -> Nat] /\ (\A i \in 1 .. n : widths[i] = 24)
      BY DEF Wide
    <2>3. \A i \in 0 .. n : sum[i] = 24 * i
      BY DEF Widths
    <2> QED
      BY <2>1, <2>2, <2>3
  <1> HIDE DEF sum, widths
  <1>7. /\ IsWriter(v) /\ v.ok = c.ok
        /\ c.ok => Onto(v, c) /\ v.ptr = c.ptr + sum[n] /\ Stand(v, c, blocks, sum, n)
    <2>1. v = PutAll(c, blocks, widths)
      BY <1>1 DEF widths
    <2> QED
      BY <1>5, <1>6, <2>1, PutAllIs
  <1> SUFFICES ASSUME v.ok
               PROVE  ~srtp /\ IsWriter(v) /\ v.size = w.size /\ ReportAtStart(v, kind, ssrc, blocks, n)
    BY Zenon DEF v, ReportMade
  <1>8. a.ok /\ b.ok /\ c.ok
    BY <1>3, <1>4, <1>5, <1>7
  <1>9. ~srtp
    <2>1. size % 4 = 0
      BY <1>3, <1>8
    <2>2. \E j \in Nat : Base(kind) + 24 * n = 4 * j
      <3>1. Base(kind) = 4 * (IF kind = SR THEN 7 ELSE 2)
        BY DEF Base
      <3>2. 6 * n + (IF kind = SR THEN 7 ELSE 2) \in Nat
        OBVIOUS
      <3> QED
        BY <3>1, <3>2
    <2>3. ASSUME srtp PROVE FALSE
      <3>1. PICK j \in Nat : Base(kind) + 24 * n = 4 * j
        BY <2>2
      <3>2. size = 4 * j + 14
        BY <1>2, <2>3, <3>1
      <3> HIDE DEF size
      <3>3. (4 * j + 14) % 4 = 2
        OBVIOUS
      <3> QED
        BY <2>1, <3>2, <3>3
    <2> QED
      BY <2>3
  <1>10. Onto(v, b)
    BY <1>4, <1>5, <1>7, <1>8, OntoOnto
  <1>11. Onto(v, a)
    BY <1>3, <1>4, <1>8, <1>10, OntoOnto
  <1>12. n \in 0 .. n /\ Base(kind) \in Nat
    BY DEF Base
  <1>13. v.ptr = Base(kind) + 24 * n /\ size = v.ptr
    BY <1>2, <1>5, <1>6, <1>7, <1>8, <1>9, <1>12
  <1>14. Heads(v, 0, kind, v.ptr) /\ v.cell[0].count = n
    BY <1>3, <1>8, <1>11, <1>13, HeadsStays
  <1>15. 4 \in DOMAIN v.cell /\ v.cell[4] = ssrc
    BY <1>4, <1>8, <1>10, FieldStays
  <1>16. ASSUME NEW i \in 1 .. n
         PROVE  /\ Base(kind) + 24 * (i - 1) \in DOMAIN v.cell
                /\ v.cell[Base(kind) + 24 * (i - 1)] = blocks[i]
    <2>1. i - 1 \in 0 .. n
      OBVIOUS
    <2>2. c.ptr + sum[i - 1] = Base(kind) + 24 * (i - 1)
      BY <1>5, <1>6, <1>8, <2>1
    <2> QED
      BY <1>7, <1>8, <2>2 DEF Stand
  <1>17. v.size = w.size
    BY <1>3, <1>8, <1>11 DEF Onto
  <1> QED
    BY <1>7, <1>9, <1>13, <1>14, <1>15, <1>16, <1>17 DEF ReportAtStart

\* The first k of a list of fields, and one more.
Upto(f, k) == [i \in 1 .. k |-> f[i]]

\* The list of the first k, as Append() makes it.
LEMMA OneMore ==
    ASSUME NEW m \in Nat, NEW f, DOMAIN f = 1 .. m, NEW k \in 1 .. m
    PROVE  Append(Upto(f, k - 1), f[k]) = Upto(f, k)
  <1> DEFINE S == {f[i] : i \in 1 .. m}
             s == Upto(f, k - 1)
             t == Upto(f, k)
  <1>1. k - 1 \in Nat /\ k \in Nat /\ k - 1 + 1 = k /\ \A i \in 1 .. k : i \in 1 .. m
    OBVIOUS
  <1>2. s \in [1 .. k - 1 -> S] /\ f[k] \in S /\ t \in [1 .. k -> S]
    BY <1>1 DEF Upto
  <1>3. s \in Seq(S) /\ Len(s) = k - 1
    BY <1>1, <1>2, FunctionIsSeq
  <1>4. t \in Seq(S) /\ Len(t) = k
    BY <1>1, <1>2, FunctionIsSeq
  <1>5. \A i \in 1 .. k - 1 : s[i] = f[i]
    BY DEF Upto
  <1>6. \A i \in 1 .. k : t[i] = f[i]
    BY DEF Upto
  <1> HIDE DEF S, s, t
  <1> DEFINE u == Append(s, f[k])
  <1>7. u \in Seq(S) /\ Len(u) = k /\ u[k] = f[k] /\ \A i \in 1 .. k - 1 : u[i] = s[i]
    BY <1>1, <1>2, <1>3, AppendProperties
  <1>8. \A i \in 1 .. k : u[i] = t[i]
    BY <1>5, <1>6, <1>7
  <1> HIDE DEF u
  <1>9. u = t
    BY <1>4, <1>7, <1>8, SeqEqual
  <1> QED
    BY <1>9 DEF u, s, t

\* What the reader makes of a compound packet, in which a packet reaches from each mark to
\* the next and the last one to the end of the buffer.
PacketsBetween(buf, mark, m) ==
    [i \in 1 .. m |-> read_packet(buf, buf.cell[mark[i - 1]], mark[i - 1] + 4, mark[i])]

Marked(buf, mark, type, m) ==
    /\ mark \in [0 .. m -> Nat] /\ mark[0] = 0 /\ mark[m] = buf.size
    /\ \A i \in 1 .. m : /\ Heads(buf, mark[i - 1], type[i], mark[i])
                         /\ mark[i] >= mark[i - 1] + 4 /\ type[i] \in SR .. APP

\* read_compound() returns the packets between the marks.
LEMMA CompoundRead ==
    ASSUME NEW buf, NEW m \in Nat, NEW mark, NEW type, Marked(buf, mark, type, m)
    PROVE  read_compound(buf) = PacketsBetween(buf, mark, m)
  <1> DEFINE packet == PacketsBetween(buf, mark, m)
             turns == buf.size \div 4
             After(g) == [n \in 0 .. turns |-> IF n = 0 THEN [ptr |-> 0, packets |-> <<>>]
                                                        ELSE NextOfCompound(buf, g[n - 1])]
             At(k) == [ptr |-> mark[k], packets |-> Upto(packet, k)]
             f == [n \in 0 .. turns |-> At(IF n <= m THEN n ELSE m)]
  <1>1. /\ mark \in [0 .. m -> Nat] /\ mark[0] = 0 /\ mark[m] = buf.size
        /\ \A i \in 1 .. m : /\ Heads(buf, mark[i - 1], type[i], mark[i])
                             /\ mark[i] >= mark[i - 1] + 4 /\ type[i] \in SR .. APP
    BY DEF Marked
  <1>2. \A j \in 0 .. m : mark[m - j] + 4 * j <= buf.size
    <2> DEFINE T == {j \in 0 .. m : mark[m - j] + 4 * j <= buf.size}
    <2>1. 0 \in T
      BY <1>1
    <2>2. ASSUME NEW j \in 1 .. m, j - 1 \in T PROVE j \in T
      <3> DEFINE i == m - j + 1
      <3>1. i \in 1 .. m /\ i - 1 = m - j /\ m - (j - 1) = i /\ j \in 0 .. m
        OBVIOUS
      <3>2. mark[i] + 4 * (j - 1) <= buf.size
        BY <2>2, <3>1
      <3>3. mark[i] >= mark[i - 1] + 4 /\ mark[i] \in Nat /\ mark[i - 1] \in Nat /\ buf.size \in Nat
        BY <1>1, <3>1
      <3> HIDE DEF i
      <3>4. mark[i - 1] + 4 * j <= buf.size
        BY <3>2, <3>3
      <3> QED
        BY <3>1, <3>4
    <2> HIDE DEF T
    <2>3. \A j \in 0 .. m : j \in T
      BY <2>1, <2>2, Induction
    <2> QED
      BY <2>3 DEF T
  <1>3. turns \in Nat /\ m <= turns
    <2>1. 4 * m <= buf.size /\ buf.size \in Nat
      <3>1. m \in 0 .. m /\ m - m = 0 /\ m \in Nat
        OBVIOUS
      <3>2. mark[m - m] + 4 * m <= buf.size
        BY <1>2, <3>1
      <3> QED
        BY <1>1, <3>1, <3>2
    <2> QED
      BY <2>1
  <1> HIDE DEF turns, packet
  <1>4. f[0] = [ptr |-> 0, packets |-> <<>>]
    <2>1. f[0] = At(0)
      BY <1>3
    <2>2. Upto(packet, 0) = <<>>
      BY DEF Upto
    <2> QED
      BY <1>1, <2>1, <2>2
  <1>5. ASSUME NEW n \in 1 .. turns PROVE f[n] = NextOfCompound(buf, f[n - 1])
    <2>0. n \in 0 .. turns /\ n - 1 \in 0 .. turns /\ turns \in Nat
      BY <1>3
    <2>1. CASE n <= m
      <3> DEFINE s == f[n - 1]
                 p == mark[n - 1]
                 header == buf.cell[p]
      <3>1. f[n] = At(n) /\ s = At(n - 1) /\ n \in 1 .. m
        BY <2>0, <2>1
      <3>2. s.ptr = p /\ s.packets = Upto(packet, n - 1)
        BY <3>1
      <3>3. /\ Heads(buf, p, type[n], mark[n]) /\ mark[n] >= p + 4 /\ type[n] \in SR .. APP
            /\ p \in Nat /\ mark[n] \in Nat /\ buf.size \in Nat
        BY <1>1, <3>1
      <3>4. mark[n] <= buf.size
        <4>1. m - n \in 0 .. m /\ m - (m - n) = n /\ m - n \in Nat
          BY <3>1
        <4>2. mark[n] + 4 * (m - n) <= buf.size
          BY <1>2, <4>1
        <4> QED
          BY <3>3, <4>1, <4>2
      <3> HIDE DEF s
      <3>5. p # buf.size /\ p \in DOMAIN buf.cell /\ p + rtcp_length_in_bytes(header.length) = mark[n]
        BY <3>3, <3>4 DEF Heads
      <3>6. ~(mark[n] > buf.size)
        BY <3>3, <3>4
      <3>7. ~(header.type > APP \/ header.type < SR)
        BY <3>3 DEF Heads, SR, APP
      <3>8. NextOfCompound(buf, s) =
               [ptr |-> mark[n], packets |-> Append(s.packets, read_packet(buf, header, p + 4, mark[n]))]
        BY <3>2, <3>5, <3>6, <3>7 DEF NextOfCompound, RTCP_HEADER_SIZE
      <3>9. packet[n] = read_packet(buf, header, p + 4, mark[n]) /\ DOMAIN packet = 1 .. m
        BY <3>1 DEF packet, PacketsBetween
      <3>10. Append(Upto(packet, n - 1), packet[n]) = Upto(packet, n)
        BY <3>1, <3>9, OneMore
      <3> QED
        BY <3>1, <3>2, <3>8, <3>9, <3>10 DEF s
    <2>2. CASE ~(n <= m)
      <3>1. f[n] = At(m)
        BY <2>0, <2>2
      <3>2. f[n - 1] = At(m)
        <4>1. CASE n - 1 <= m
          <5>1. n - 1 = m
            BY <2>2, <4>1
          <5> QED
            BY <2>0, <5>1
        <4>2. CASE ~(n - 1 <= m)
          BY <2>0, <4>2
        <4> QED
          BY <4>1, <4>2
      <3>3. At(m).ptr = buf.size
        BY <1>1
      <3> HIDE DEF f
      <3>4. NextOfCompound(buf, At(m)) = At(m)
        BY <3>3 DEF NextOfCompound
      <3> QED
        BY <3>1, <3>2, <3>4
    <2> QED
      BY <2>1, <2>2
  <1>6. f = After(f)
    <2>1. f = [n \in 0 .. turns |-> f[n]]
      OBVIOUS
    <2>2. ASSUME NEW n \in 0 .. turns
          PROVE  f[n] = IF n = 0 THEN [ptr |-> 0, packets |-> <<>>] ELSE NextOfCompound(buf, f[n - 1])
      <3>1. n = 0 \/ n \in 1 .. turns
        BY <1>3
      <3> QED
        BY <1>4, <1>5, <3>1
    <2> HIDE DEF f
    <2> QED
      BY <2>1, <2>2
  <1>7. f[turns] = At(m)
    BY <1>3
  <1> HIDE DEF f
  <1> DEFINE g == CHOOSE g : g = After(g)
  <1>8. g = After(g)
    BY <1>6
  <1>9. read_compound(buf) = g[turns].packets
    BY DEF read_compound, turns, RTCP_HEADER_SIZE
  <1> HIDE DEF g
  <1>10. SameSteps(g, f, turns)
    <2>1. g[0] = [ptr |-> 0, packets |-> <<>>] /\ 0 \in 0 .. turns
      BY <1>3, <1>8
    <2>2. ASSUME NEW n \in 1 .. turns PROVE g[n] = NextOfCompound(buf, g[n - 1])
      <3>1. n \in 0 .. turns /\ n # 0
        BY <1>3
      <3> QED
        BY <1>8, <3>1
    <2> QED
      BY <1>4, <1>5, <2>1, <2>2 DEF SameSteps
  <1>11. g[turns] = f[turns]
    <2>1. turns \in 0 .. turns
      BY <1>3
    <2> QED
      BY <1>3, <1>10, <2>1, OneSolution DEF Agree
  <1>12. read_compound(buf) = Upto(packet, m)
    BY <1>7, <1>9, <1>11
  <1>13. Upto(packet, m) = packet
    BY DEF Upto, packet, PacketsBetween
  <1> QED
    BY <1>12, <1>13 DEF packet

\* The items of a list stand one after the other from start on, and before end.
ItemsStand(buf, start, end, items, sum, n) ==
    /\ Items(items, n) /\ Adds(sum, ItemSizes(items), n) /\ start + sum[n] <= end
    /\ \A i \in 1 .. n : /\ start + sum[i - 1] \in DOMAIN buf.cell
                         /\ buf.cell[start + sum[i - 1]] = items[i]

\* At least two octets of each item are still to come.
LEMMA ItemsAhead ==
    ASSUME NEW n \in Nat, NEW items, Items(items, n), NEW sum, Adds(sum, ItemSizes(items), n)
    PROVE  /\ \A i \in 1 .. n : /\ sum[i] = sum[i - 1] + ItemSize(items[i])
                                /\ ItemSize(items[i]) \in Nat /\ ItemSize(items[i]) >= 2
           /\ \A i \in 0 .. n : sum[i] + 2 * (n - i) <= sum[n]
  <1>1. \A i \in 0 .. n : sum[i] \in Nat
    BY DEF Adds
  <1>2. ASSUME NEW i \in 1 .. n
        PROVE  /\ sum[i] = sum[i - 1] + ItemSize(items[i])
               /\ ItemSize(items[i]) \in Nat /\ ItemSize(items[i]) >= 2
    BY SMTT(20) DEF Adds, Items, ItemSizes, ItemSize
  <1> DEFINE T == {j \in 0 .. n : sum[n - j] + 2 * j <= sum[n]}
  <1>3. 0 \in T
    <2>1. n - 0 = n /\ n \in 0 .. n /\ 0 \in 0 .. n
      OBVIOUS
    <2> QED
      BY <1>1, <2>1
  <1>4. ASSUME NEW j \in 1 .. n, j - 1 \in T PROVE j \in T
    <2> DEFINE i == n - j + 1
    <2>1. i \in 1 .. n /\ i - 1 = n - j /\ n - (j - 1) = i /\ j \in 0 .. n /\ i \in 0 .. n /\ i - 1 \in 0 .. n
      OBVIOUS
    <2>2. sum[i] + 2 * (j - 1) <= sum[n]
      BY <1>4, <2>1
    <2>3. sum[i] >= sum[i - 1] + 2 /\ sum[i] \in Nat /\ sum[i - 1] \in Nat /\ sum[n] \in Nat
      <3>1. n \in 0 .. n
        OBVIOUS
      <3> HIDE DEF i
      <3> QED
        BY <1>1, <1>2, <2>1, <3>1
    <2> HIDE DEF i
    <2>4. sum[i - 1] + 2 * j <= sum[n]
      BY <2>2, <2>3
    <2> QED
      BY <2>1, <2>4
  <1> HIDE DEF T
  <1>5. \A j \in 0 .. n : j \in T
    BY <1>3, <1>4, Induction
  <1>6. ASSUME NEW i \in 0 .. n PROVE sum[i] + 2 * (n - i) <= sum[n]
    <2>1. n - i \in 0 .. n /\ n - (n - i) = i
      OBVIOUS
    <2>2. n - i \in T
      BY <1>5, <2>1
    <2> QED
      BY <2>1, <2>2 DEF T
  <1> QED
    BY <1>2, <1>6

\* The reader of an SDES chunk comes to the item c if none before it has type 0.
LEMMA ItemsRead ==
    ASSUME NEW buf, NEW start \in Nat, NEW end \in Nat, NEW n \in Nat, NEW items, NEW sum,
           ItemsStand(buf, start, end, items, sum, n),
           NEW c \in 1 .. n, \A i \in 1 .. c : items[i].type # 0
    PROVE  LET read == read_items(buf, start, end).items
           IN  \E i \in DOMAIN read : read[i] = items[c]
  <1> DEFINE turns == (end - start) \div 2
             First == [ptr |-> start, items |-> <<>>]
             After(f, k) == [i \in 0 .. k |-> IF i = 0 THEN First ELSE NextItem(buf, end, f[i - 1])]
             T == {k \in 0 .. turns : \E f : f = After(f, k)}
  <1>1. turns \in Nat /\ n <= turns
    <2>1. sum[0] + 2 * (n - 0) <= sum[n]
      <3>1. 0 \in 0 .. n /\ Items(items, n) /\ Adds(sum, ItemSizes(items), n)
        BY DEF ItemsStand
      <3> QED
        BY <3>1, ItemsAhead
    <2>2. sum[0] = 0 /\ sum[n] \in Nat /\ start + sum[n] <= end
      BY DEF ItemsStand, Adds
    <2> QED
      BY <2>1, <2>2
  <1> HIDE DEF turns
  <1>2. 0 \in T
    <2> DEFINE g == [i \in 0 .. 0 |-> First]
    <2>1. g = After(g, 0)
      OBVIOUS
    <2>2. 0 \in 0 .. turns
      BY <1>1
    <2> HIDE DEF g
    <2> QED
      BY <2>1, <2>2
  <1>3. ASSUME NEW k \in 1 .. turns, k - 1 \in T PROVE k \in T
    <2>1. PICK f : f = After(f, k - 1)
      BY <1>3
    <2> DEFINE g == [i \in 0 .. k |-> IF i = k THEN NextItem(buf, end, f[k - 1]) ELSE f[i]]
    <2>2. ASSUME NEW i \in 0 .. k
          PROVE  g[i] = IF i = 0 THEN First ELSE NextItem(buf, end, g[i - 1])
      <3>1. CASE i = k
        <4>1. k # 0 /\ k - 1 \in 0 .. k /\ k - 1 # k
          BY <1>1
        <4> QED
          BY <3>1, <4>1
      <3>2. CASE i # k
        <4>1. i \in 0 .. k - 1 /\ (i # 0 => i - 1 \in 0 .. k /\ i - 1 # k)
          BY <1>1, <3>2
        <4>2. f[i] = IF i = 0 THEN First ELSE NextItem(buf, end, f[i - 1])
          BY <2>1, <4>1
        <4> QED
          BY <3>2, <4>1, <4>2
      <3> QED
        BY <3>1, <3>2
    <2> HIDE DEF g
    <2>3. g = After(g, k)
      <3>1. g = [i \in 0 .. k |-> g[i]]
        BY DEF g
      <3> HIDE DEF First
      <3> QED
        BY <2>2, <3>1
    <2>4. k \in 0 .. turns
      BY <1>1
    <2> QED
      BY <2>3, <2>4
  <1> HIDE DEF T
  <1>4. \A k \in 0 .. turns : k \in T
    BY <1>1, <1>2, <1>3, Induction
  <1>5. \E f : f = After(f, turns)
    <2>1. turns \in T
      BY <1>1, <1>4
    <2> QED
      BY <2>1 DEF T
  <1> DEFINE g == CHOOSE g : g = After(g, turns)
  <1>6. g = After(g, turns)
    BY <1>5
  <1>7. read_items(buf, start, end).items = g[turns].items
    <2>1. read_items(buf, start, end)
              = [g[turns] EXCEPT !.ptr = IF BeginsItem(buf, @) THEN @ ELSE Padded(@)]
      BY DEF read_items, turns
    <2> HIDE DEF g
    <2> QED
      BY <2>1
  <1> HIDE DEF g
  <1>8. g[0] = First
    BY <1>1, <1>6
  <1>9. ASSUME NEW i \in 1 .. turns PROVE g[i] = NextItem(buf, end, g[i - 1])
    <2>1. i \in 0 .. turns /\ i # 0
      BY <1>1
    <2> QED
      BY <1>6, <2>1
  <1> DEFINE S == {buf.cell[x] : x \in DOMAIN buf.cell}
             Has(s) == \E i \in 1 .. Len(s) : s[i] = items[c]
             U == {k \in 0 .. turns : /\ g[k].items \in Seq(S)
                                      /\ k < c => g[k].ptr = start + sum[k]
                                      /\ k >= c => Has(g[k].items)}
  <1>10. 0 \in U
    <2>1. sum[0] = 0 /\ 0 \in 0 .. turns /\ ~(0 >= c)
      BY <1>1 DEF ItemsStand, Adds
    <2>2. <<>> \in Seq(S)
      OBVIOUS
    <2>3. g[0].items = <<>> /\ g[0].ptr = start + sum[0]
      BY <1>8, <2>1
    <2> HIDE DEF S, Has, First
    <2> QED
      BY <2>1, <2>2, <2>3
  <1>11. ASSUME NEW k \in 1 .. turns, k - 1 \in U PROVE k \in U
    <2> DEFINE s == g[k - 1]
               v == g[k]
               item == buf.cell[s.ptr]
               more == s.ptr + 2 <= end /\ BeginsItem(buf, s.ptr)
    <2>0. k \in 0 .. turns /\ k - 1 \in Nat /\ k \in Nat
      BY <1>1
    <2>1. s.items \in Seq(S) /\ (k - 1 < c => s.ptr = start + sum[k - 1]) /\ (k - 1 >= c => Has(s.items))
      BY <1>11
    <2>2. v = IF more
              THEN [ptr   |-> s.ptr + IF s.ptr + ItemSize(item) <= end THEN ItemSize(item) ELSE 2,
                    items |-> Append(s.items, item)]
              ELSE s
      BY <1>9 DEF NextItem
    <2> HIDE DEF s, v
    <2>3. more => item \in S
      BY DEF BeginsItem
    <2> HIDE DEF S
    <2>4. v.items \in Seq(S)
      <3>1. CASE more
        <4>1. v.items = Append(s.items, item)
          BY <2>2, <3>1
        <4> QED
          BY <2>1, <2>3, <3>1, <4>1
      <3>2. CASE ~more
        BY <2>1, <2>2, <3>2
      <3> QED
        BY <3>1, <3>2
    <2>5. CASE k <= c
      <3>1. k \in 1 .. n /\ k \in 1 .. c /\ k - 1 < c /\ k \in 0 .. n /\ k - 1 \in 0 .. n
        BY <2>0, <2>5
      <3> DEFINE it == items[k]
      <3>2. /\ s.ptr = start + sum[k - 1] /\ s.ptr \in DOMAIN buf.cell /\ item = it /\ it.type # 0
        BY <2>1, <3>1 DEF ItemsStand
      <3>3. /\ sum[k] = sum[k - 1] + ItemSize(it) /\ ItemSize(it) \in Nat /\ ItemSize(it) >= 2
            /\ sum[k] + 2 * (n - k) <= sum[n]
        <4>1. Items(items, n) /\ Adds(sum, ItemSizes(items), n)
          BY DEF ItemsStand
        <4> QED
          BY <3>1, <4>1, ItemsAhead
      <3>4. sum[k] \in Nat /\ sum[k - 1] \in Nat /\ sum[n] \in Nat /\ start + sum[n] <= end
        <4>1. n \in 0 .. n /\ sum \in [0 .. n -> Nat] /\ start + sum[n] <= end
          BY DEF ItemsStand, Adds
        <4> QED
          BY <3>1, <4>1
      <3> HIDE DEF item, it
      <3>5. s.ptr + ItemSize(it) <= end /\ s.ptr + ItemSize(it) = start + sum[k]
        BY <3>1, <3>2, <3>3, <3>4
      <3>6. s.ptr + 2 <= end
        BY <3>1, <3>2, <3>3, <3>4
      <3>7. more
        BY <3>2, <3>6 DEF BeginsItem, item
      <3>8. v = [ptr |-> start + sum[k], items |-> Append(s.items, it)]
        BY <2>2, <3>2, <3>5, <3>7
      <3>9. v.ptr = start + sum[k] /\ v.items = Append(s.items, it)
        BY <3>8
      <3>10. ASSUME k >= c PROVE Has(v.items)
        <4>1. k = c
          BY <2>0, <2>5, <3>10
        <4>2. it \in S
          BY <2>3, <3>2, <3>7
        <4>3. Len(s.items) \in Nat /\ Len(v.items) = Len(s.items) + 1 /\ v.items[Len(s.items) + 1] = it
          BY <2>1, <3>9, <4>2, AppendProperties
        <4>4. Len(s.items) + 1 \in 1 .. Len(v.items)
          BY <4>3
        <4> QED
          BY <4>1, <4>3, <4>4 DEF it
      <3> QED
        BY <2>0, <2>4, <3>9, <3>10 DEF v, S
    <2>6. CASE ~(k <= c)
      <3>1. k - 1 >= c /\ ~(k < c)
        BY <2>0, <2>6
      <3>2. PICK i \in 1 .. Len(s.items) : s.items[i] = items[c]
        BY <2>1, <3>1
      <3>3. Has(v.items)
        <4>1. CASE more
          <5>1. v.items = Append(s.items, item) /\ item \in S
            BY <2>2, <2>3, <4>1
          <5> HIDE DEF item
          <5>2. Len(v.items) = Len(s.items) + 1 /\ Len(s.items) \in Nat /\ v.items[i] = s.items[i]
            BY <2>1, <3>2, <5>1, AppendProperties
          <5>3. i \in 1 .. Len(v.items)
            BY <5>2
          <5> QED
            BY <3>2, <5>2, <5>3
        <4>2. CASE ~more
          <5>1. v = s
            BY <2>2, <4>2
          <5> QED
            BY <3>2, <5>1
        <4> QED
          BY <4>1, <4>2
      <3> QED
        BY <2>0, <2>4, <3>1, <3>3 DEF v, S
    <2> QED
      BY <2>5, <2>6
  <1> HIDE DEF U
  <1>12. \A k \in 0 .. turns : k \in U
    BY <1>1, <1>10, <1>11, Induction
  <1>13. turns \in U /\ turns >= c
    <2>1. turns \in 0 .. turns /\ turns >= c
      BY <1>1
    <2> QED
      BY <1>12, <2>1
  <1>14. g[turns].items \in Seq(S) /\ Has(g[turns].items)
    BY <1>13 DEF U
  <1>15. PICK i \in 1 .. Len(g[turns].items) : g[turns].items[i] = items[c]
    BY <1>14
  <1>16. i \in DOMAIN g[turns].items
    BY <1>14
  <1> QED
    BY <1>7, <1>15, <1>16

\* The first chunk of an SDES packet is the one that stands at its start.
LEMMA ChunksRead ==
    ASSUME NEW buf, NEW p \in Nat, NEW end \in Nat, p + 4 <= end
    PROVE  LET chunks == read_chunks(buf, p, end)
           IN  /\ chunks # <<>>
               /\ chunks[1] = [ssrc |-> SsrcAt(buf, p), items |-> read_items(buf, p + 4, end).items]
  <1> DEFINE turns == (end - p) \div 4
             First == [ptr |-> p, chunks |-> <<>>]
             Chunk(s) == [ssrc |-> SsrcAt(buf, s.ptr), items |-> read_items(buf, s.ptr + 4, end).items]
             FirstChunk == Chunk(First)
             After(f, k) == [i \in 0 .. k |-> IF i = 0 THEN First ELSE NextChunk(buf, end, f[i - 1])]
             T == {k \in 0 .. turns : \E f : f = After(f, k)}
  <1>1. turns \in Nat /\ 1 <= turns
    OBVIOUS
  <1> HIDE DEF turns
  <1>2. 0 \in T
    <2> DEFINE g == [i \in 0 .. 0 |-> First]
    <2>1. g = After(g, 0)
      OBVIOUS
    <2>2. 0 \in 0 .. turns
      BY <1>1
    <2> HIDE DEF g
    <2> QED
      BY <2>1, <2>2
  <1>3. ASSUME NEW k \in 1 .. turns, k - 1 \in T PROVE k \in T
    <2>1. PICK f : f = After(f, k - 1)
      BY <1>3
    <2> DEFINE g == [i \in 0 .. k |-> IF i = k THEN NextChunk(buf, end, f[k - 1]) ELSE f[i]]
    <2>2. ASSUME NEW i \in 0 .. k
          PROVE  g[i] = IF i = 0 THEN First ELSE NextChunk(buf, end, g[i - 1])
      <3>1. CASE i = k
        <4>1. k # 0 /\ k - 1 \in 0 .. k /\ k - 1 # k
          BY <1>1
        <4> QED
          BY <3>1, <4>1
      <3>2. CASE i # k
        <4>1. i \in 0 .. k - 1 /\ (i # 0 => i - 1 \in 0 .. k /\ i - 1 # k)
          BY <1>1, <3>2
        <4>2. f[i] = IF i = 0 THEN First ELSE NextChunk(buf, end, f[i - 1])
          BY <2>1, <4>1
        <4> QED
          BY <3>2, <4>1, <4>2
      <3> QED
        BY <3>1, <3>2
    <2> HIDE DEF g
    <2>3. g = After(g, k)
      <3>1. g = [i \in 0 .. k |-> g[i]]
        BY DEF g
      <3> HIDE DEF First
      <3> QED
        BY <2>2, <3>1
    <2>4. k \in 0 .. turns
      BY <1>1
    <2> QED
      BY <2>3, <2>4
  <1> HIDE DEF T
  <1>4. \A k \in 0 .. turns : k \in T
    BY <1>1, <1>2, <1>3, Induction
  <1>5. \E f : f = After(f, turns)
    <2>1. turns \in T
      BY <1>1, <1>4
    <2> QED
      BY <2>1 DEF T
  <1> DEFINE g == CHOOSE g : g = After(g, turns)
  <1>6. g = After(g, turns)
    BY <1>5
  <1>7. read_chunks(buf, p, end) = g[turns].chunks
    BY DEF read_chunks, turns, SSRC_CSRC_SIZE
  <1> HIDE DEF g
  <1>8. g[0] = First
    BY <1>1, <1>6
  <1>9. ASSUME NEW i \in 1 .. turns PROVE g[i] = NextChunk(buf, end, g[i - 1])
    <2>1. i \in 0 .. turns /\ i # 0
      BY <1>1
    <2> QED
      BY <1>6, <2>1
  <1>10. \A s : /\ s.ptr + 4 <= end => NextChunk(buf, end, s).chunks = Append(s.chunks, Chunk(s))
                /\ ~(s.ptr + 4 <= end) => NextChunk(buf, end, s) = s
    BY DEF NextChunk, SSRC_CSRC_SIZE
  <1> DEFINE Begins(s) == (\E S : s \in Seq(S)) /\ Len(s) >= 1 /\ s[1] = FirstChunk
             U == {k \in 0 .. turns : k >= 1 => Begins(g[k].chunks)}
  <1>11. 0 \in U
    BY <1>1
  <1>12. ASSUME NEW k \in 1 .. turns, k - 1 \in U PROVE k \in U
    <2> DEFINE s == g[k - 1]
               v == g[k]
    <2>0. k \in 0 .. turns /\ k - 1 \in Nat
      BY <1>1
    <2>1. v = NextChunk(buf, end, s)
      BY <1>9
    <2>2. CASE k = 1
      <3>1. s = First
        BY <1>8, <2>2
      <3> HIDE DEF v, s, Chunk
      <3>2. v.chunks = Append(<<>>, FirstChunk)
        <4>1. First.ptr = p /\ First.chunks = <<>>
          OBVIOUS
        <4> HIDE DEF First
        <4> QED
          BY <1>10, <2>1, <3>1, <4>1
      <3> HIDE DEF FirstChunk
      <3>3. v.chunks = <<FirstChunk>>
        BY <3>2
      <3>4. Begins(v.chunks)
        <4> DEFINE one == <<FirstChunk>>
        <4>1. one \in Seq({FirstChunk}) /\ Len(one) = 1 /\ one[1] = FirstChunk
          OBVIOUS
        <4> HIDE DEF one
        <4>2. Begins(one)
          BY <4>1
        <4> QED
          BY <3>3, <4>2 DEF one
      <3> QED
        BY <2>0, <3>4 DEF v
    <2>3. CASE k # 1
      <3>1. Begins(s.chunks)
        <4>1. k - 1 >= 1
          BY <2>0, <2>3
        <4> QED
          BY <1>12, <4>1
      <3> HIDE DEF v, s, FirstChunk
      <3>2. PICK S : s.chunks \in Seq(S)
        BY <3>1
      <3>3. Begins(v.chunks)
        <4>1. CASE s.ptr + 4 <= end
          <5> DEFINE new == Chunk(s)
                     R == S \cup {new}
          <5>1. v.chunks = Append(s.chunks, new)
            BY <1>10, <2>1, <4>1
          <5> HIDE DEF new
          <5>2. s.chunks \in Seq(R) /\ new \in R
            BY <3>2
          <5>3. v.chunks \in Seq(R) /\ Len(v.chunks) >= 1 /\ v.chunks[1] = s.chunks[1]
            <6> HIDE DEF R
            <6>1. Len(s.chunks) \in Nat /\ 1 \in 1 .. Len(s.chunks)
              BY <3>1, <5>2
            <6> QED
              BY <5>1, <5>2, <6>1, AppendProperties
          <5> QED
            BY <3>1, <5>3
        <4>2. CASE ~(s.ptr + 4 <= end)
          <5>1. v = s
            BY <1>10, <2>1, <4>2
          <5> QED
            BY <3>1, <5>1
        <4> QED
          BY <4>1, <4>2
      <3> QED
        BY <2>0, <3>3 DEF v
    <2> QED
      BY <2>2, <2>3
  <1> HIDE DEF U
  <1>13. \A k \in 0 .. turns : k \in U
    BY <1>1, <1>11, <1>12, Induction
  <1>14. turns \in U /\ turns >= 1
    <2>1. turns \in 0 .. turns
      BY <1>1
    <2> QED
      BY <1>1, <1>13, <2>1
  <1>15. Begins(g[turns].chunks)
    BY <1>14 DEF U
  <1>16. FirstChunk = [ssrc |-> SsrcAt(buf, p), items |-> read_items(buf, p + 4, end).items]
    OBVIOUS
  <1> HIDE DEF FirstChunk
  <1>17. g[turns].chunks # <<>> /\ g[turns].chunks[1] = FirstChunk
    BY <1>15
  <1> QED
    BY <1>7, <1>16, <1>17

\* A record about a source.
AboutSource(b) == \E F, V : b \in [F -> V] /\ "ssrc" \in F

\* Report blocks are read as they were written, but for a bit of the packets lost.
BlocksStand(buf, p, end, blocks, n) ==
    /\ end = p + 24 * n /\ DOMAIN blocks = 1 .. n
    /\ \A i \in 1 .. n : buf.cell[p + 24 * (i - 1)] = blocks[i] /\ AboutSource(blocks[i])
BlocksRead(read, blocks, n) ==
    DOMAIN read = 1 .. n /\ \A i \in 1 .. n : read[i].ssrc = blocks[i].ssrc

\* read_reports() returns the blocks that stand there.
LEMMA ReportsRead ==
    ASSUME NEW buf, NEW p \in Nat, NEW n \in Nat, NEW end, NEW blocks,
           BlocksStand(buf, p, end, blocks, n)
    PROVE  BlocksRead(read_reports(buf, p, end, n), blocks, n)
  <1> DEFINE fits == {i \in 1 .. n : end >= p + i * 24}
             read == read_reports(buf, p, end, n)
  <1>0. /\ end = p + 24 * n /\ DOMAIN blocks = 1 .. n
        /\ \A i \in 1 .. n : buf.cell[p + 24 * (i - 1)] = blocks[i] /\ AboutSource(blocks[i])
    BY DEF BlocksStand
  <1>1. fits = 1 .. n
    <2>1. ASSUME NEW i \in 1 .. n PROVE end >= p + i * 24
      BY <1>0
    <2> QED
      BY <2>1
  <1>2. Cardinality(fits) = n
    <2>1. Cardinality(1 .. n) = IF 1 > n THEN 0 ELSE n - 1 + 1
      BY FS_Interval
    <2>2. n = IF 1 > n THEN 0 ELSE n - 1 + 1
      OBVIOUS
    <2> HIDE DEF fits
    <2> QED
      BY <1>1, <2>1, <2>2
  <1>3. read = [i \in 1 .. n |-> [buf.cell[p + (i - 1) * 24] EXCEPT !.lost = MaskedLost(@)]]
    <2> HIDE DEF fits
    <2>1. read = [i \in 1 .. Cardinality(fits) |-> [buf.cell[p + (i - 1) * 24] EXCEPT !.lost = MaskedLost(@)]]
      BY DEF read_reports, REPORT_BLOCK_SIZE, fits
    <2> QED
      BY <1>2, <2>1
  <1> HIDE DEF read
  <1>4. ASSUME NEW i \in 1 .. n PROVE read[i].ssrc = blocks[i].ssrc
    <2> DEFINE b == blocks[i]
    <2>1. (i - 1) * 24 = 24 * (i - 1)
      OBVIOUS
    <2>2. buf.cell[p + (i - 1) * 24] = b
      BY <1>0, <2>1
    <2>3. read[i] = [b EXCEPT !.lost = MaskedLost(@)]
      BY <1>3, <2>2
    <2>4. PICK F, V : b \in [F -> V] /\ "ssrc" \in F
      BY <1>0 DEF AboutSource
    <2> HIDE DEF b
    <2>5. [b EXCEPT !.lost = MaskedLost(@)].ssrc = b.ssrc
      BY <2>4
    <2> QED
      BY <2>3, <2>5 DEF b
  <1>5. DOMAIN read = 1 .. n
    BY <1>3
  <1> QED
    BY <1>4, <1>5 DEF read, BlocksRead

\* Numbers in ascending order.
Ascending(s, n) == \A i \in 1 .. n - 1 : s[i] < s[i + 1]

\* A finite set of numbers can be written in ascending order.
LEMMA SortedExists ==
    ASSUME NEW S \in SUBSET Nat, IsFiniteSet(S)
    PROVE  \E s \in [1 .. Cardinality(S) -> S] : Ascending(s, Cardinality(S))
  <1> DEFINE N == Cardinality(S)
             Sort(R, n) == \E s \in [1 .. n -> R] : Ascending(s, n)
             T == {n \in 0 .. N : \A R \in SUBSET S : Cardinality(R) = n => Sort(R, n)}
  <1>1. N \in Nat
    BY FS_CardinalityType
  <1> HIDE DEF N
  <1>2. 0 \in T
    <2>1. ASSUME NEW R \in SUBSET S PROVE Sort(R, 0)
      <3> DEFINE s == [i \in 1 .. 0 |-> 0]
      <3>1. s \in [1 .. 0 -> R] /\ Ascending(s, 0)
        BY DEF Ascending
      <3> HIDE DEF s
      <3> QED
        BY <3>1
    <2>2. 0 \in 0 .. N
      BY <1>1
    <2> HIDE DEF Sort
    <2> QED
      BY <2>1, <2>2
  <1>3. ASSUME NEW n \in 1 .. N, n - 1 \in T PROVE n \in T
    <2>0. n \in 0 .. N /\ n \in Nat /\ n - 1 \in Nat /\ n >= 1
      BY <1>1
    <2>1. ASSUME NEW R \in SUBSET S, Cardinality(R) = n PROVE Sort(R, n)
      <3>1. IsFiniteSet(R)
        BY FS_Subset
      <3>2. R # {}
        BY <2>0, <2>1, FS_EmptySet
      <3>3. PICK m \in R : \A x \in R : m <= x
        BY <3>2, Smallest
      <3> DEFINE Q == R \ {m}
      <3>4. IsFiniteSet(Q) /\ Cardinality(Q) = n - 1
        BY <2>1, <3>1, FS_RemoveElement
      <3>5. PICK s \in [1 .. n - 1 -> Q] : Ascending(s, n - 1)
        BY <1>3, <3>4
      <3> DEFINE t == [i \in 1 .. n |-> IF i = 1 THEN m ELSE s[i - 1]]
      <3>6. t \in [1 .. n -> R]
        <4>1. ASSUME NEW i \in 1 .. n, i # 1 PROVE s[i - 1] \in R
          <5>1. i - 1 \in 1 .. n - 1
            BY <2>0, <4>1
          <5> QED
            BY <3>5, <5>1
        <4> QED
          BY <4>1
      <3>7. ASSUME NEW i \in 1 .. n - 1 PROVE t[i] < t[i + 1]
        <4>1. i \in 1 .. n /\ i + 1 \in 1 .. n /\ i + 1 # 1 /\ i + 1 - 1 = i
          BY <2>0
        <4>2. t[i + 1] = s[i] /\ s[i] \in Q /\ s[i] \in Nat
          <5>1. t[i + 1] = s[i + 1 - 1]
            BY <4>1
          <5>2. s[i] \in Q /\ s[i] \in Nat
            BY <3>5
          <5> HIDE DEF t, Q
          <5> QED
            BY <4>1, <5>1, <5>2
        <4>3. CASE i = 1
          <5>1. t[i] = m /\ m <= s[i] /\ m # s[i] /\ m \in Nat
            BY <3>3, <4>1, <4>2, <4>3
          <5> QED
            BY <4>2, <5>1
        <4>4. CASE i # 1
          <5>1. i - 1 \in 1 .. n - 1 - 1 /\ i - 1 + 1 = i
            BY <2>0, <4>4
          <5>2. t[i] = s[i - 1]
            BY <4>1, <4>4
          <5>3. s[i - 1] < s[i]
            BY <3>5, <5>1 DEF Ascending
          <5> QED
            BY <4>2, <5>2, <5>3
        <4> QED
          BY <4>3, <4>4
      <3> HIDE DEF t
      <3> QED
        BY <3>6, <3>7 DEF Ascending
    <2> HIDE DEF Sort
    <2> QED
      BY <2>0, <2>1
  <1> HIDE DEF T
  <1>4. \A n \in 0 .. N : n \in T
    BY <1>1, <1>2, <1>3, Induction
  <1>5. N \in T
    BY <1>1, <1>4
  <1> QED
    BY <1>5 DEF T, N

\* In Sorted(S) every member of S stands once, and a smaller one before a larger.
LEMMA SortedIs ==
    ASSUME NEW S \in SUBSET Nat, IsFiniteSet(S)
    PROVE  LET s == Sorted(S)
               n == Cardinality(S)
           IN  /\ n \in Nat /\ s \in [1 .. n -> S]
               /\ \A i, j \in 1 .. n : i < j <=> s[i] < s[j]
               /\ {s[i] : i \in 1 .. n} = S
  <1> DEFINE s == Sorted(S)
             n == Cardinality(S)
  <1>1. n \in Nat
    BY FS_CardinalityType
  <1>2. s \in [1 .. n -> S] /\ Ascending(s, n)
    <2>1. \E t \in [1 .. n -> S] : Ascending(t, n)
      BY SortedExists
    <2>2. s = CHOOSE t \in [1 .. n -> S] : Ascending(t, n)
      BY DEF Sorted, Ascending
    <2> HIDE DEF s
    <2> QED
      BY <2>1, <2>2
  <1> HIDE DEF s, n
  <1>3. ASSUME NEW i \in 1 .. n PROVE \A j \in 1 .. n : i < j => s[i] < s[j]
    <2> DEFINE T == {d \in 0 .. n : i + d + 1 <= n => s[i] < s[i + d + 1]}
    <2>1. 0 \in T
      <3>1. ASSUME i + 0 + 1 <= n PROVE s[i] < s[i + 0 + 1]
        <4>1. i \in 1 .. n - 1 /\ i + 0 + 1 = i + 1
          BY <1>1, <3>1
        <4> QED
          BY <1>2, <4>1 DEF Ascending
      <3> QED
        BY <1>1, <3>1
    <2>2. ASSUME NEW d \in 1 .. n, d - 1 \in T PROVE d \in T
      <3>1. ASSUME i + d + 1 <= n PROVE s[i] < s[i + d + 1]
        <4> DEFINE k == i + d
        <4>1. k \in 1 .. n - 1 /\ i + (d - 1) + 1 = k /\ k \in 1 .. n /\ k + 1 \in 1 .. n /\ k <= n
          BY <1>1, <3>1
        <4>2. s[i] < s[k]
          BY <2>2, <4>1
        <4>3. s[k] < s[k + 1]
          BY <1>2, <4>1 DEF Ascending
        <4>4. s[i] \in Nat /\ s[k] \in Nat /\ s[k + 1] \in Nat
          BY <1>2, <4>1
        <4> HIDE DEF k
        <4>5. s[i] < s[k + 1]
          BY <4>2, <4>3, <4>4
        <4> QED
          BY <4>5 DEF k
      <3>2. d \in 0 .. n
        BY <1>1
      <3> QED
        BY <3>1, <3>2
    <2> HIDE DEF T
    <2>3. \A d \in 0 .. n : d \in T
      BY <1>1, <2>1, <2>2, Induction
    <2>4. ASSUME NEW j \in 1 .. n, i < j PROVE s[i] < s[j]
      <3>1. j - i - 1 \in 0 .. n /\ i + (j - i - 1) + 1 = j /\ j <= n
        BY <1>1, <2>4
      <3>2. j - i - 1 \in T
        BY <2>3, <3>1
      <3> QED
        BY <3>1, <3>2 DEF T
    <2> QED
      BY <2>4
  <1>4. ASSUME NEW i \in 1 .. n, NEW j \in 1 .. n PROVE i < j <=> s[i] < s[j]
    <2>1. s[i] \in Nat /\ s[j] \in Nat
      BY <1>2
    <2>2. i < j \/ i = j \/ j < i
      BY <1>1
    <2>3. CASE i < j
      BY <1>3, <2>3
    <2>4. CASE i = j
      BY <2>1, <2>4
    <2>5. CASE j < i
      <3>1. s[j] < s[i]
        BY <1>3, <2>5
      <3> QED
        BY <1>1, <2>1, <2>5, <3>1
    <2> QED
      BY <2>2, <2>3, <2>4, <2>5
  <1>5. s \in Injection(1 .. n, S)
    <2>1. ASSUME NEW i \in 1 .. n, NEW j \in 1 .. n, s[i] = s[j] PROVE i = j
      <3>1. s[i] \in Nat /\ s[j] \in Nat
        BY <1>2
      <3>2. ~(i < j) /\ ~(j < i)
        BY <1>4, <2>1, <3>1
      <3> QED
        BY <1>1, <3>2
    <2> QED
      BY <1>2, <2>1 DEF Injection, IsInjective
  <1>6. Cardinality(1 .. n) = n
    <2>1. Cardinality(1 .. n) = IF 1 > n THEN 0 ELSE n - 1 + 1
      BY <1>1, FS_Interval
    <2> QED
      BY <1>1, <2>1
  <1>7. s \in Surjection(1 .. n, S)
    BY <1>5, <1>6, FS_Injection DEF n
  <1>8. {s[i] : i \in 1 .. n} = S
    BY <1>2, <1>7 DEF Surjection
  <1> QED
    BY <1>1, <1>2, <1>4, <1>8 DEF s, n

\* The chosen members of a list keep their order, and nothing else is there.
LEMMA ChosenIs ==
    ASSUME NEW V, NEW s \in Seq(V), NEW I \in SUBSET (1 .. Len(s))
    PROVE  LET at == Sorted(I)
               n  == Cardinality(I)
               t  == Chosen(s, I)
           IN  /\ n \in Nat /\ t \in Seq(V) /\ Len(t) = n /\ at \in [1 .. n -> I]
               /\ \A i, j \in 1 .. n : i < j <=> at[i] < at[j]
               /\ {at[i] : i \in 1 .. n} = I
               /\ \A i \in 1 .. n : t[i] = s[at[i]]
  <1> DEFINE at == Sorted(I)
             n  == Cardinality(I)
             t  == Chosen(s, I)
  <1>1. Len(s) \in Nat /\ \A i \in 1 .. Len(s) : s[i] \in V
    OBVIOUS
  <1>2. I \in SUBSET Nat
    BY <1>1
  <1>3. IsFiniteSet(I)
    <2>1. IsFiniteSet(1 .. Len(s))
      BY <1>1, FS_Interval
    <2> QED
      BY <2>1, FS_Subset
  <1>4. /\ n \in Nat /\ at \in [1 .. n -> I]
        /\ (\A i, j \in 1 .. n : i < j <=> at[i] < at[j])
        /\ {at[i] : i \in 1 .. n} = I
    BY <1>2, <1>3, SortedIs
  <1>5. t = [i \in 1 .. n |-> s[at[i]]]
    <2>1. t = [i \in DOMAIN at |-> s[at[i]]]
      BY DEF Chosen
    <2> HIDE DEF t, at, n
    <2> QED
      BY <1>4, <2>1
  <1> HIDE DEF t, at, n
  <1>6. t \in [1 .. n -> V]
    BY <1>1, <1>4, <1>5
  <1>7. t \in Seq(V) /\ Len(t) = n
    BY <1>4, <1>6, FunctionIsSeq
  <1> QED
    BY <1>4, <1>5, <1>7 DEF t, at, n

\* An item of type 0 comes only after a CNAME.
Described(items) ==
    \A i \in 1 .. Len(items) : items[i].type = 0 => \E j \in 1 .. i - 1 : items[j].type = CNAME

\* set_sdes_items() leaves items of which those of type 0 come after a CNAME.
LEMMA SdesItemsDescribed ==
    ASSUME NEW items \in Seq(Item)
    PROVE  set_sdes_items(items) \in Seq(Item) /\ Described(set_sdes_items(items))
  <1> DEFINE cnames  == {i \in DOMAIN items : items[i].type = CNAME}
             checked == IF cnames = {} THEN DOMAIN items ELSE 1 .. Min(cnames) - 1
             ignored == {i \in checked : items[i].type = 0}
             I       == DOMAIN items \ ignored
             at      == Sorted(I)
             n       == Cardinality(I)
             kept    == Chosen(items, I)
             own     == [type |-> CNAME, length |-> 3]
             added   == IF cnames = {} THEN <<own>> ELSE <<>>
             all     == set_sdes_items(items)
  <1>1. all = added \o kept
    BY DEF set_sdes_items
  <1>2. DOMAIN items = 1 .. Len(items) /\ Len(items) \in Nat
    OBVIOUS
  <1>3. I \in SUBSET (1 .. Len(items))
    BY <1>2
  <1>4. /\ n \in Nat /\ kept \in Seq(Item) /\ Len(kept) = n /\ at \in [1 .. n -> I]
        /\ (\A i, j \in 1 .. n : i < j <=> at[i] < at[j])
        /\ {at[i] : i \in 1 .. n} = I
        /\ \A i \in 1 .. n : kept[i] = items[at[i]]
    <2> HIDE DEF I
    <2> QED
      BY <1>3, ChosenIs
  <1>5. own \in Item
    BY DEF Item, Octet, CNAME
  <1> HIDE DEF all, at, n, kept
  <1>6. CASE cnames = {}
    <2>1. added = <<own>>
      BY <1>6
    <2>2. all = <<own>> \o kept
      BY <1>1, <2>1
    <2>3. \A i \in 1 .. n : kept[i].type # 0
      <3>1. ASSUME NEW i \in 1 .. n PROVE items[at[i]].type # 0
        <4>1. at[i] \in I /\ checked = DOMAIN items
          BY <1>4, <1>6
        <4> HIDE DEF checked, cnames
        <4> QED
          BY <4>1
      <3> QED
        BY <1>4, <3>1
    <2> HIDE DEF added
    <2>4. /\ all \in Seq(Item) /\ Len(all) = n + 1 /\ all[1] = own
          /\ \A i \in 1 .. n : all[i + 1] = kept[i]
      <3>1. <<own>> \in Seq(Item) /\ Len(<<own>>) = 1 /\ <<own>>[1] = own
        BY <1>5
      <3> DEFINE o == <<own>>
      <3> HIDE DEF o, own
      <3>2. all = o \o kept /\ o \in Seq(Item) /\ Len(o) = 1 /\ o[1] = own
        BY <2>2, <3>1 DEF o
      <3>3. /\ all \in Seq(Item) /\ Len(all) = 1 + n
            /\ \A i \in 1 .. 1 + n : all[i] = IF i <= 1 THEN o[i] ELSE kept[i - 1]
        <4>1. kept \in Seq(Item) /\ Len(kept) = n
          BY <1>4
        <4>2. /\ o \o kept \in Seq(Item) /\ Len(o \o kept) = Len(o) + Len(kept)
              /\ \A i \in 1 .. Len(o) + Len(kept) :
                    (o \o kept)[i] = IF i <= Len(o) THEN o[i] ELSE kept[i - Len(o)]
          BY <3>2, <4>1, ConcatProperties
        <4> QED
          BY <3>2, <4>1, <4>2
      <3>4. 1 \in 1 .. 1 + n /\ \A i \in 1 .. n : i + 1 \in 1 .. 1 + n /\ ~(i + 1 <= 1) /\ i + 1 - 1 = i
        BY <1>4
      <3> QED
        BY <1>4, <3>2, <3>3, <3>4
    <2>5. ASSUME NEW i \in 1 .. n + 1 PROVE all[i].type # 0
      <3>1. own.type = 1
        BY DEF CNAME
      <3> HIDE DEF own
      <3>2. i = 1 \/ (i - 1 \in 1 .. n /\ i - 1 + 1 = i)
        BY <1>4
      <3> QED
        BY <2>3, <2>4, <3>1, <3>2
    <2> QED
      BY <2>4, <2>5 DEF Described, all
  <1>7. CASE cnames # {}
    <2> DEFINE c == Min(cnames)
    <2>1. c \in cnames /\ \A x \in cnames : c <= x
      <3>1. cnames \in SUBSET Nat
        BY <1>2
      <3> HIDE DEF cnames
      <3>2. \E m \in cnames : \A x \in cnames : m <= x
        BY <1>7, <3>1, Smallest
      <3> QED
        BY <3>2 DEF Min
    <2>2. checked = 1 .. c - 1
      BY <1>7
    <2>3. added = <<>>
      BY <1>7
    <2> HIDE DEF c, checked, added
    <2>4. all = kept
      BY <1>1, <1>4, <2>3, ConcatEmptySeq
    <2>5. c \in 1 .. Len(items) /\ items[c].type = CNAME
      BY <1>2, <2>1
    <2>6. c \in I
      BY <1>2, <2>2, <2>5
    <2>7. PICK k \in 1 .. n : at[k] = c
      BY <1>4, <2>6
    <2>8. ASSUME NEW i \in 1 .. n, kept[i].type = 0 PROVE k \in 1 .. i - 1 /\ kept[k].type = CNAME
      <3>1. at[i] \in I /\ items[at[i]].type = 0 /\ at[i] \in Nat
        BY <1>2, <1>4, <2>8
      <3>2. ~(at[i] \in 1 .. c - 1) /\ at[i] # c /\ at[i] \in 1 .. Len(items)
        BY <1>2, <2>2, <2>5, <3>1 DEF CNAME
      <3>3. c < at[i]
        BY <2>5, <3>2
      <3>4. k < i
        BY <1>4, <2>7, <3>3
      <3> QED
        BY <1>4, <2>5, <2>7, <3>4
    <2> QED
      BY <1>4, <2>4, <2>8 DEF Described, all
  <1> QED
    BY <1>6, <1>7

\* What the reader makes of a packet keeps the packet's type.
LEMMA ReadType ==
    ASSUME NEW buf, NEW header, NEW p, NEW end, header.type \in SR .. APP
    PROVE  read_packet(buf, header, p, end).type = header.type
  <1>1. header.type \in {SR, RR, SDES, BYE, APP}
    BY DEF SR, RR, SDES, BYE, APP
  <1>2. CASE header.type = SR
    BY <1>2 DEF read_packet
  <1>3. CASE header.type = RR
    BY <1>3 DEF read_packet, SR, RR
  <1>4. CASE header.type = SDES
    BY <1>4 DEF read_packet, SR, RR, SDES
  <1>5. CASE header.type = BYE
    BY <1>5 DEF read_packet, SR, RR, SDES, BYE
  <1>6. CASE header.type = APP
    BY <1>6 DEF read_packet, SR, RR, SDES, BYE, APP
  <1> QED
    BY <1>1, <1>2, <1>3, <1>4, <1>5, <1>6

\* The types of packets are five.
LEMMA TypesDiffer ==
    /\ SR # RR /\ SR # SDES /\ SR # BYE /\ SR # APP /\ RR # SDES /\ RR # BYE /\ RR # APP
    /\ SDES # BYE /\ SDES # APP /\ BYE # APP
  BY DEF SR, RR, SDES, BYE, APP

\* Where the reader looks for the report blocks of a report, and for the chunks of an
\* SDES packet.
LEMMA ReadAs ==
    ASSUME NEW buf, NEW header, NEW p, NEW end
    PROVE  LET read == read_packet(buf, header, p, end)
           IN  /\ header.type = SR => read.blocks = read_reports(buf, p + 4 + 20, end, header.count)
               /\ header.type = RR => read.blocks = read_reports(buf, p + 4, end, header.count)
               /\ header.type = SDES => read.chunks = read_chunks(buf, p, end)
  <1> DEFINE read == read_packet(buf, header, p, end)
             size == SSRC_CSRC_SIZE
             info == SENDER_INFO_SIZE
  <1>1. ASSUME header.type = SR PROVE read.blocks = read_reports(buf, p + size + info, end, header.count)
    <2>1. read = [type |-> SR, ssrc |-> buf.cell[p], info |-> buf.cell[p + size],
                  blocks |-> read_reports(buf, p + size + info, end, header.count)]
      BY <1>1, TypesDiffer DEF read_packet
    <2> HIDE DEF read, size, info
    <2> QED
      BY <2>1
  <1>2. ASSUME header.type = RR PROVE read.blocks = read_reports(buf, p + size, end, header.count)
    <2>1. read = [type |-> RR, ssrc |-> buf.cell[p],
                  blocks |-> read_reports(buf, p + size, end, header.count)]
      BY <1>2, TypesDiffer DEF read_packet
    <2> HIDE DEF read, size, info
    <2> QED
      BY <2>1
  <1>3. ASSUME header.type = SDES PROVE read.chunks = read_chunks(buf, p, end)
    <2>1. read = [type |-> SDES, chunks |-> read_chunks(buf, p, end)]
      BY <1>3, TypesDiffer DEF read_packet
    <2> HIDE DEF read
    <2> QED
      BY <2>1
  <1>4. size = 4 /\ info = 20
    BY DEF SSRC_CSRC_SIZE, SENDER_INFO_SIZE
  <1> HIDE DEF size, info
  <1> QED
    BY <1>1, <1>2, <1>3, <1>4 DEF read

\* The report at the start of a compound packet, with a block for each of sources.
Begun(w, kind, sources) ==
    /\ IsWriter(w) /\ w.ok /\ kind \in {SR, RR}
    /\ \E n \in Nat : \E blocks :
          /\ DOMAIN blocks = 1 .. n /\ ReportAtStart(w, kind, Us, blocks, n)
          /\ \A i \in 1 .. n : AboutSource(blocks[i])
          /\ sources = {blocks[i].ssrc : i \in 1 .. n}

\* What ReportsCoverPeriod says of a compound packet.
Complete(ps, sources) ==
    /\ ps[1].type \in {SR, RR}
    /\ {ps[1].blocks[i].ssrc : i \in DOMAIN ps[1].blocks} = sources
    /\ Len(ps) >= 2 /\ ps[2].type = SDES
    /\ ps[2].chunks # <<>> /\ ps[2].chunks[1].ssrc = Us
    /\ \E i \in DOMAIN ps[2].chunks[1].items : ps[2].chunks[1].items[i].type = CNAME
    /\ \A i \in 3 .. Len(ps) : ps[i].type = APP \/ (ps[i].type = BYE /\ i = Len(ps))

\* The report with its blocks, read.
ReadAsReport(v, end, kind, sources) ==
    LET read == read_packet(v, v.cell[0], 4, end)
    IN  /\ Heads(v, 0, kind, end) /\ end >= 8 /\ end % 4 = 0
        /\ read.type = kind /\ {read.blocks[i].ssrc : i \in DOMAIN read.blocks} = sources

\* The report at the start of a compound packet is read as it was written.
LEMMA ReportRead ==
    ASSUME NEW w, NEW kind, NEW sources, Begun(w, kind, sources), NEW v, Onto(v, w)
    PROVE  ReadAsReport(v, w.ptr, kind, sources)
  <1> DEFINE header == v.cell[0]
             read == read_packet(v, header, 4, w.ptr)
  <1>0. PICK n \in Nat : \E blocks :
            /\ DOMAIN blocks = 1 .. n /\ ReportAtStart(w, kind, Us, blocks, n)
            /\ \A i \in 1 .. n : AboutSource(blocks[i])
            /\ sources = {blocks[i].ssrc : i \in 1 .. n}
    BY DEF Begun
  <1>1. PICK blocks :
            /\ DOMAIN blocks = 1 .. n /\ ReportAtStart(w, kind, Us, blocks, n)
            /\ \A i \in 1 .. n : AboutSource(blocks[i])
            /\ sources = {blocks[i].ssrc : i \in 1 .. n}
    BY <1>0
  <1> DEFINE p == Base(kind)
             rs == read_reports(v, p, w.ptr, n)
  <1>2. IsWriter(w) /\ kind \in {SR, RR} /\ p \in Nat /\ p \in {8, 28}
    BY DEF Begun, Base
  <1>3. w.ptr = p + 24 * n /\ Heads(w, 0, kind, w.ptr) /\ w.cell[0].count = n
    BY <1>1 DEF ReportAtStart
  <1>4. Heads(v, 0, kind, w.ptr) /\ v.cell[0] = w.cell[0]
    BY <1>2, <1>3, HeadsStays
  <1>5. BlocksStand(v, p, w.ptr, blocks, n)
    <2>1. ASSUME NEW i \in 1 .. n PROVE v.cell[p + 24 * (i - 1)] = blocks[i]
      <3> DEFINE x == p + 24 * (i - 1)
      <3>1. x \in DOMAIN w.cell /\ w.cell[x] = blocks[i]
        BY <1>1 DEF ReportAtStart
      <3> HIDE DEF x
      <3>2. v.cell[x] = w.cell[x]
        BY <1>2, <3>1, FieldStays
      <3> QED
        BY <3>1, <3>2 DEF x
    <2> QED
      BY <1>1, <1>3, <2>1 DEF BlocksStand
  <1>6. DOMAIN rs = 1 .. n /\ \A i \in 1 .. n : rs[i].ssrc = blocks[i].ssrc
    <2>1. p \in Nat /\ BlocksStand(v, p, w.ptr, blocks, n)
      BY <1>2, <1>5
    <2> DEFINE q == w.ptr
    <2> HIDE DEF p, q
    <2>2. BlocksRead(read_reports(v, p, q, n), blocks, n)
      BY <2>1, ReportsRead DEF q
    <2> QED
      BY <2>2 DEF BlocksRead, q
  <1>7. header.type = kind /\ header.count = n
    BY <1>3, <1>4 DEF Heads
  <1>8. read.type = kind /\ read.blocks = rs
    <2>1. read.type = kind
      <3>1. kind \in SR .. APP
        BY <1>2 DEF SR, RR, APP
      <3> QED
        BY <1>7, <3>1, ReadType
    <2>2. /\ kind = SR => read.blocks = read_reports(v, 4 + 4 + 20, w.ptr, n)
          /\ kind = RR => read.blocks = read_reports(v, 4 + 4, w.ptr, n)
      BY <1>7, ReadAs
    <2> HIDE DEF read
    <2>3. CASE kind = SR
      <3>1. p = 28 /\ 4 + 4 + 20 = 28
        BY <2>3 DEF Base
      <3> QED
        BY <1>3, <2>1, <2>2, <2>3, <3>1
    <2>4. CASE kind = RR
      <3>1. p = 8 /\ 4 + 4 = 8
        BY <2>4 DEF Base, RR, SR
      <3> QED
        BY <1>3, <2>1, <2>2, <2>4, <3>1
    <2> QED
      BY <1>2, <2>3, <2>4
  <1> HIDE DEF read, rs
  <1>9. {read.blocks[i].ssrc : i \in DOMAIN read.blocks} = sources
    <2>1. DOMAIN read.blocks = 1 .. n /\ \A i \in 1 .. n : read.blocks[i].ssrc = blocks[i].ssrc
      BY <1>6, <1>8
    <2> QED
      BY <1>1, <2>1
  <1>10. w.ptr >= 8 /\ w.ptr % 4 = 0
    <2>1. p = 8 \/ p = 28
      BY <1>2
    <2> HIDE DEF p
    <2> QED
      BY <1>3, <2>1
  <1> QED
    BY <1>4, <1>8, <1>9, <1>10 DEF read, ReadAsReport

\* The length of an item is a number.
LEMMA ItemTypes == \A it \in Item : it.length \in Nat
  <1>1. Item = [type : 0 .. 255, length : 0 .. 255]
    BY DEF Item, Octet
  <1> QED
    BY <1>1

\* A packet read as the description of this session.
IsDescription(read) ==
    /\ read.type = SDES /\ read.chunks # <<>> /\ read.chunks[1].ssrc = Us
    /\ \E i \in DOMAIN read.chunks[1].items : read.chunks[1].items[i].type = CNAME

\* The SDES packet, read.
LEMMA SdesRead ==
    ASSUME NEW w, IsWriter(w), w.ptr % 4 = 0, NEW second, NEW items \in Seq(Item), Described(items),
           NEW d, d = SdesPacket(w, Us, second, items), d.ok
    PROVE  /\ IsWriter(d) /\ Onto(d, w) /\ w.ok
           /\ d.ptr = w.ptr + get_sdes_packet_size(items) /\ d.ptr >= w.ptr + 8
           /\ Heads(d, w.ptr, SDES, d.ptr)
           /\ \A v : Onto(v, d) =>
                IsDescription(read_packet(v, v.cell[w.ptr], w.ptr + 4, d.ptr))
  <1> DEFINE n == Len(items)
             p == w.ptr
  <1>1. n \in Nat /\ Items(items, n) /\ DOMAIN items = 1 .. n
    <2>1. n \in Nat /\ DOMAIN items = 1 .. n /\ \A i \in 1 .. n : items[i] \in Item
      OBVIOUS
    <2>2. \A it \in Item : it.length \in Nat
      BY ItemTypes
    <2> QED
      BY <2>1, <2>2 DEF Items
  <1>2. ItemSizes(items) \in [1 .. n -> Nat]
    BY <1>1 DEF ItemSizes, ItemSize, Items
  <1> HIDE DEF n
  <1>3. PICK sum : Adds(sum, ItemSizes(items), n) /\ Total(ItemSizes(items)) = sum[n]
    BY <1>1, <1>2, TotalIs
  <1>4. /\ IsWriter(d) /\ w.ok /\ Onto(d, w) /\ d.ptr = p + get_sdes_packet_size(items)
        /\ d.ptr \in Nat /\ p + 8 + sum[n] < d.ptr /\ Heads(d, p, SDES, d.ptr)
        /\ p + 4 \in DOMAIN d.cell /\ d.cell[p + 4] = Us
        /\ \A i \in 1 .. n : /\ p + 8 + sum[i - 1] \in DOMAIN d.cell
                             /\ d.cell[p + 8 + sum[i - 1]] = items[i]
        /\ \E i \in 1 .. n : items[i].type = CNAME
    <2>1. SdesStands(d, w, Us, items, sum, n) /\ IsWriter(d)
      BY <1>1, <1>3, SdesIs
    <2> QED
      BY <2>1 DEF SdesStands
  <1>5. p \in Nat /\ sum[n] \in Nat /\ d.ptr >= p + 8
    <2>1. p \in Nat
      BY DEF IsWriter
    <2>2. sum[n] \in Nat
      BY <1>1, <1>3 DEF Adds
    <2> QED
      BY <1>4, <2>1, <2>2
  <1>6. PICK c \in 1 .. n : items[c].type = CNAME /\ \A i \in 1 .. c : items[i].type # 0
    <2> DEFINE C == {i \in 1 .. n : items[i].type = CNAME}
    <2>1. C \in SUBSET Nat /\ C # {}
      <3>1. PICK i \in 1 .. n : items[i].type = CNAME
        BY <1>4
      <3>2. i \in C
        BY <3>1
      <3> QED
        BY <1>1, <3>2
    <2> HIDE DEF C
    <2>2. PICK c \in C : \A x \in C : c <= x
      BY <2>1, Smallest
    <2>3. c \in 1 .. n /\ items[c].type = CNAME
      BY <2>2 DEF C
    <2>4. ASSUME NEW i \in 1 .. c, items[i].type = 0 PROVE FALSE
      <3>1. i \in 1 .. n
        BY <1>1, <2>3
      <3>2. PICK j \in 1 .. i - 1 : items[j].type = CNAME
        BY <2>4, <3>1 DEF Described, n
      <3>3. j \in 1 .. n /\ ~(c <= j)
        BY <1>1, <2>3, <3>1, <3>2
      <3> QED
        BY <2>2, <3>2, <3>3 DEF C
    <2> QED
      BY <2>3, <2>4
  <1>7. ASSUME NEW v, Onto(v, d)
        PROVE  IsDescription(read_packet(v, v.cell[p], p + 4, d.ptr))
    <2> DEFINE read == read_packet(v, v.cell[p], p + 4, d.ptr)
               chunks == read_chunks(v, p + 4, d.ptr)
               its == read_items(v, p + 8, d.ptr).items
    <2>1. v.cell[p].type = SDES
      BY <1>4, <1>7, HeadsStays DEF Heads
    <2>2. read.type = SDES /\ read.chunks = chunks
      <3>1. SDES \in SR .. APP
        BY DEF SR, SDES, APP
      <3> QED
        BY <2>1, <3>1, ReadType, ReadAs
    <2>3. chunks # <<>> /\ chunks[1] = [ssrc |-> SsrcAt(v, p + 4), items |-> its]
      <3>1. p + 4 \in Nat /\ p + 4 + 4 <= d.ptr /\ d.ptr \in Nat /\ p + 4 + 4 = p + 8
        BY SMTT(20), <1>4, <1>5
      <3> DEFINE q == p + 4
      <3>2. q \in Nat /\ q + 4 <= d.ptr /\ q + 4 = p + 8
        BY <3>1
      <3> HIDE DEF q
      <3>3. /\ read_chunks(v, q, d.ptr) # <<>>
            /\ read_chunks(v, q, d.ptr)[1]
                  = [ssrc |-> SsrcAt(v, q), items |-> read_items(v, q + 4, d.ptr).items]
        BY <1>4, <3>2, ChunksRead
      <3> QED
        BY <3>2, <3>3 DEF q
    <2>4. SsrcAt(v, p + 4) = Us
      <3>1. p + 4 \in DOMAIN v.cell /\ v.cell[p + 4] = Us
        BY <1>4, <1>7, FieldStays
      <3> QED
        BY <3>1 DEF SsrcAt
    <2>5. \E i \in DOMAIN its : its[i] = items[c]
      <3> DEFINE q == p + 8
      <3>1. q \in Nat /\ q + sum[n] <= d.ptr
        BY SMTT(20), <1>4, <1>5
      <3>2. ASSUME NEW i \in 1 .. n
            PROVE  q + sum[i - 1] \in DOMAIN v.cell /\ v.cell[q + sum[i - 1]] = items[i]
        <4> DEFINE x == q + sum[i - 1]
        <4>1. x \in DOMAIN d.cell /\ d.cell[x] = items[i]
          BY <1>4
        <4> HIDE DEF x
        <4>2. x \in DOMAIN v.cell /\ v.cell[x] = d.cell[x]
          BY <1>4, <1>7, <4>1, FieldStays
        <4> QED
          BY <4>1, <4>2 DEF x
      <3> HIDE DEF q
      <3>3. ItemsStand(v, q, d.ptr, items, sum, n)
        BY <1>1, <1>3, <3>1, <3>2 DEF ItemsStand
      <3> DEFINE r == read_items(v, q, d.ptr).items
      <3>4. \E i \in DOMAIN r : r[i] = items[c]
        <4>1. d.ptr \in Nat /\ c \in 1 .. n /\ \A i \in 1 .. c : items[i].type # 0
          BY <1>4, <1>6
        <4> QED
          BY <1>1, <3>1, <3>3, <4>1, ItemsRead
      <3> QED
        BY <3>4 DEF q
    <2> HIDE DEF its, chunks
    <2>7. chunks[1].ssrc = Us /\ chunks[1].items = its
      BY <2>3, <2>4
    <2> HIDE DEF read
    <2>8. IsDescription(read)
      BY <1>6, <2>2, <2>3, <2>5, <2>7 DEF IsDescription
    <2> QED
      BY <2>8 DEF read
  <1> QED
    BY <1>4, <1>5, <1>7

\* An APP packet to be sent: its subtype and the length of its payload.
App == [subtype : Nat, length : Nat]

\* The sizes of items add up.
LEMMA ItemsSize ==
    ASSUME NEW items \in Seq(Item), NEW n, n = Len(items)
    PROVE  /\ n \in Nat /\ Items(items, n) /\ get_sdes_packet_size(items) \in Nat
           /\ \E sum : Adds(sum, ItemSizes(items), n) /\ Total(ItemSizes(items)) = sum[n]
  <1>1. n \in Nat /\ Items(items, n) /\ DOMAIN items = 1 .. n
    <2>1. n \in Nat /\ DOMAIN items = 1 .. n /\ \A i \in 1 .. n : items[i] \in Item
      OBVIOUS
    <2> QED
      BY <2>1, ItemTypes DEF Items
  <1>2. ItemSizes(items) \in [1 .. n -> Nat]
    BY <1>1 DEF ItemSizes, ItemSize, Items
  <1>3. PICK sum : Adds(sum, ItemSizes(items), n) /\ Total(ItemSizes(items)) = sum[n]
    BY <1>1, <1>2, TotalIs
  <1>4. get_sdes_packet_size(items) \in Nat
    <2> DEFINE q == 4 + 4 + Total(ItemSizes(items))
    <2>1. q \in Nat
      BY <1>1, <1>3 DEF Adds
    <2>2. get_sdes_packet_size(items) = Padded(q)
      BY DEF get_sdes_packet_size, RTCP_HEADER_SIZE, SSRC_CSRC_SIZE
    <2> HIDE DEF q
    <2> QED
      BY <2>1, <2>2 DEF Padded
  <1> QED
    BY <1>1, <1>3, <1>4

\* The code that writes the SDES packet leaves a writer, whether there is room or not.
LEMMA SdesWriter ==
    ASSUME NEW w, IsWriter(w), w.ptr % 4 = 0, NEW second, NEW items \in Seq(Item)
    PROVE  IsWriter(SdesPacket(w, Us, second, items))
  <1> DEFINE n == Len(items)
  <1>1. n \in Nat /\ Items(items, n)
    BY ItemsSize
  <1>2. PICK sum : Adds(sum, ItemSizes(items), n) /\ Total(ItemSizes(items)) = sum[n]
    BY ItemsSize
  <1> HIDE DEF n
  <1> QED
    BY <1>1, <1>2, SdesIs

\* The sizes of the APP packets, added up.
AppSums(sum, apps, k) ==
    /\ sum \in [0 .. k -> Nat] /\ sum[0] = 0 /\ size_of_apps(apps) = sum[k]
    /\ \A i \in 1 .. k : sum[i] >= sum[i - 1] + 12
    /\ Adds(sum, [i \in 1 .. k |-> AppSize(apps[i])], k)

\* size_of_apps() is what the packets add up to.
LEMMA AppsSize ==
    ASSUME NEW apps \in Seq(App), NEW k, k = Len(apps)
    PROVE  /\ k \in Nat /\ \A i \in 1 .. k : apps[i].length \in Nat
           /\ \E sum : AppSums(sum, apps, k)
  <1>1. k \in Nat /\ DOMAIN apps = 1 .. k /\ \A i \in 1 .. k : apps[i].length \in Nat
    <2>1. k \in Nat /\ DOMAIN apps = 1 .. k /\ \A i \in 1 .. k : apps[i] \in App
      OBVIOUS
    <2>2. \A app \in App : app.length \in Nat
      BY DEF App
    <2> QED
      BY <2>1, <2>2
  <1> DEFINE sizes == [i \in 1 .. k |-> AppSize(apps[i])]
  <1>2. \A i \in 1 .. k : sizes[i] \in Nat /\ sizes[i] >= 12
    <2>1. ASSUME NEW i \in 1 .. k PROVE sizes[i] \in Nat /\ sizes[i] >= 12
      <3>1. sizes[i] = 4 + 4 + 4 + apps[i].length
        BY DEF AppSize, get_app_packet_size, RTCP_HEADER_SIZE, SSRC_CSRC_SIZE, APP_NAME_SIZE
      <3> HIDE DEF sizes
      <3>2. apps[i].length \in Nat
        BY <1>1
      <3> QED
        BY <3>1, <3>2
    <2> QED
      BY <2>1
  <1>3. size_of_apps(apps) = Total(sizes) /\ sizes = [i \in 1 .. k |-> sizes[i]]
    BY <1>1 DEF size_of_apps
  <1>4. sizes \in [1 .. k -> Nat]
    BY <1>2
  <1> HIDE DEF sizes
  <1>5. PICK sum : Adds(sum, sizes, k) /\ Total(sizes) = sum[k]
    BY <1>1, <1>4, TotalIs
  <1>6. \A i \in 1 .. k : sum[i] >= sum[i - 1] + 12
    <2>1. ASSUME NEW i \in 1 .. k PROVE sum[i] >= sum[i - 1] + 12
      <3>1. i - 1 \in 0 .. k
        BY <1>1
      <3>2. sum[i] = sum[i - 1] + sizes[i] /\ sum[i - 1] \in Nat
        BY <1>5, <3>1 DEF Adds
      <3> QED
        BY <1>2, <3>2
    <2> QED
      BY <2>1
  <1>7. AppSums(sum, apps, k)
    BY <1>3, <1>5, <1>6 DEF Adds, AppSums, sizes
  <1> QED
    BY <1>1, <1>7

\* A compound packet from the report at its start to the BYE packet, if there is one: where
\* each of its packets starts, and its type.
Marks(m, first, second, sum, k) ==
    [i \in 0 .. m |-> IF i = 0 THEN 0 ELSE IF i = 1 THEN first
                      ELSE IF i <= k + 2 THEN second + sum[i - 2] ELSE second + sum[k] + 8]
Types(m, kind, k) ==
    [i \in 1 .. m |-> IF i = 1 THEN kind ELSE IF i = 2 THEN SDES
                      ELSE IF i <= k + 2 THEN APP ELSE BYE]

\* A compound packet as SendReport() writes it is read as the packets it was made of.
LEMMA SentIsRead ==
    ASSUME NEW w0, NEW kind, NEW sources, Begun(w0, kind, sources),
           NEW second, NEW items \in Seq(Item), Described(items),
           NEW apps \in Seq(App), NEW byes \in {<<>>, <<Us>>},
           NEW tail, tail = (IF byes = <<>> THEN 0 ELSE 8),
           w0.size = w0.ptr + (get_sdes_packet_size(items) + size_of_apps(apps) + tail),
           NEW w, w = ByePacket(AppPackets(SdesPacket(w0, Us, second, items), Us, apps), byes), w.ok
    PROVE  Complete(read_compound(w), sources)
  <1> DEFINE d == SdesPacket(w0, Us, second, items)
             a == AppPackets(d, Us, apps)
             k == Len(apps)
             b == IF byes = <<>> THEN 0 ELSE 1
             m == k + 2 + b
             p0 == w0.ptr
             p1 == d.ptr
  <1>1. IsWriter(w0) /\ w0.ok /\ kind \in {SR, RR} /\ p0 \in Nat
    BY DEF Begun, IsWriter
  <1>2. p0 >= 8 /\ p0 % 4 = 0
    <2>1. Onto(w0, w0)
      BY <1>1, OntoItself
    <2>2. ReadAsReport(w0, p0, kind, sources)
      BY <2>1, ReportRead
    <2> QED
      BY <2>2 DEF ReadAsReport
  <1>3. k \in Nat /\ \A i \in 1 .. k : apps[i].length \in Nat
    BY AppsSize
  <1>4. PICK sum : AppSums(sum, apps, k)
    BY AppsSize
  <1>5. IsWriter(d)
    BY <1>1, <1>2, SdesWriter
  <1> HIDE DEF k
  <1>6. /\ IsWriter(a)
        /\ a.ok => /\ d.ok /\ Onto(a, d) /\ a.ptr = p1 + sum[k]
                   /\ \A i \in 1 .. k : Heads(a, p1 + sum[i - 1], APP, p1 + sum[i])
    <2>1. Len(apps) = k /\ Adds(sum, [i \in 1 .. k |-> AppSize(apps[i])], k)
      BY <1>4 DEF AppSums, k
    <2> HIDE DEF d
    <2>2. IsWriter(a) /\ (a.ok => AppsStand(a, d, sum, k))
      BY <1>3, <1>5, <2>1, AppsAre
    <2> HIDE DEF a
    <2> QED
      BY <2>2 DEF AppsStand
  <1>7. /\ a.ok /\ Onto(w, a) /\ w.ptr = a.ptr + tail
        /\ b = 1 => Heads(w, a.ptr, BYE, a.ptr + 8)
    <2> HIDE DEF a
    <2>1. w = ByePacket(a, byes)
      BY DEF a
    <2>2. CASE byes = <<>>
      <3>1. w = a /\ tail = 0 /\ b = 0
        BY <2>1, <2>2 DEF ByePacket
      <3>2. a.ptr \in Nat
        BY <1>6 DEF IsWriter
      <3> QED
        BY <1>6, <3>1, <3>2, OntoItself
    <2>3. CASE byes = <<Us>>
      <3>1. tail = 8
        BY <2>3
      <3> QED
        BY <1>6, <2>1, <2>3, <3>1, ByeIs
    <2> QED
      BY <2>2, <2>3
  <1>8. /\ d.ok /\ w0.ok /\ Onto(d, w0) /\ p1 = p0 + get_sdes_packet_size(items) /\ p1 >= p0 + 8
        /\ Heads(d, p0, SDES, p1)
        /\ \A v : Onto(v, d) => IsDescription(read_packet(v, v.cell[p0], p0 + 4, p1))
    <2>1. d.ok
      BY <1>6, <1>7
    <2> QED
      BY <1>1, <1>2, <2>1, SdesRead
  <1> HIDE DEF a, d
  <1>9. Onto(w, d) /\ Onto(w, w0)
    <2>1. Onto(w, d)
      BY <1>5, <1>6, <1>7, OntoOnto
    <2> QED
      BY <1>1, <1>8, <2>1, OntoOnto
  <1>10. p1 \in Nat /\ sum[k] \in Nat /\ tail \in Nat /\ tail = 8 * b
         /\ w.size = p1 + sum[k] + tail
    <2>1. p1 \in Nat
      BY <1>5 DEF IsWriter
    <2>2. sum[k] \in Nat /\ size_of_apps(apps) = sum[k]
      BY <1>3, <1>4 DEF AppSums
    <2>3. tail \in Nat /\ tail = 8 * b
      BY DEF b
    <2>4. w.size = w0.size
      BY <1>9 DEF Onto
    <2> DEFINE g == get_sdes_packet_size(items)
    <2>5. p1 = p0 + g /\ w0.size = p0 + (g + sum[k] + tail)
      BY <1>8, <2>2
    <2>6. g = p1 - p0
      <3>1. w0.size \in Nat
        BY <1>1 DEF IsWriter
      <3>2. g \in Nat
        <4>1. get_sdes_packet_size(items) \in Nat
          BY ItemsSize
        <4> QED
          BY <4>1
      <3> HIDE DEF g
      <3> QED
        BY <1>1, <2>1, <2>5, <3>2
    <2> HIDE DEF g, p0, p1
    <2>7. w0.size = p1 + sum[k] + tail
      BY <1>1, <2>1, <2>2, <2>3, <2>5, <2>6
    <2> QED
      BY <2>1, <2>2, <2>3, <2>4, <2>7
  <1> HIDE DEF p0, p1
  <1>11. /\ Heads(w, 0, kind, p0)
         /\ LET read == read_packet(w, w.cell[0], 4, p0)
            IN  read.type = kind /\ {read.blocks[i].ssrc : i \in DOMAIN read.blocks} = sources
    <2>1. ReadAsReport(w, p0, kind, sources)
      BY <1>9, ReportRead DEF p0
    <2> QED
      BY <2>1 DEF ReadAsReport
  <1>12. /\ Heads(w, p0, SDES, p1)
         /\ \A i \in 1 .. k : Heads(w, p1 + sum[i - 1], APP, p1 + sum[i])
    <2>1. Heads(w, p0, SDES, p1)
      BY <1>5, <1>8, <1>9, HeadsStays
    <2>2. ASSUME NEW i \in 1 .. k PROVE Heads(w, p1 + sum[i - 1], APP, p1 + sum[i])
      <3> DEFINE x == p1 + sum[i - 1]
                 y == p1 + sum[i]
      <3>1. Heads(a, x, APP, y)
        BY <1>6, <1>7
      <3> HIDE DEF x, y
      <3>2. Heads(w, x, APP, y)
        BY <1>6, <1>7, <3>1, HeadsStays
      <3> QED
        BY <3>2 DEF x, y
    <2> QED
      BY <2>1, <2>2
  <1> DEFINE mark == Marks(m, p0, p1, sum, k)
             type == Types(m, kind, k)
  <1>13. b \in {0, 1} /\ m \in Nat /\ m = k + 2 + b
    BY <1>3
  <1>14. b = 1 => Heads(w, p1 + sum[k], BYE, p1 + sum[k] + 8)
    BY <1>6, <1>7
  <1> HIDE DEF b, m
  <1>15. /\ DOMAIN mark = 0 .. m /\ mark[0] = 0 /\ mark[1] = p0 /\ mark[2] = p1
         /\ \A i \in 0 .. k : mark[i + 2] = p1 + sum[i]
         /\ b = 1 => mark[k + 3] = p1 + sum[k] + 8
    <2>1. sum[0] = 0 /\ sum \in [0 .. k -> Nat]
      BY <1>4 DEF AppSums
    <2>2. DOMAIN mark = 0 .. m /\ mark[0] = 0 /\ mark[1] = p0
      BY <1>3, <1>13 DEF Marks
    <2>3. ASSUME NEW i \in 0 .. k PROVE mark[i + 2] = p1 + sum[i]
      <3>1. i + 2 \in 0 .. m /\ i + 2 # 0 /\ i + 2 # 1 /\ i + 2 <= k + 2 /\ i + 2 - 2 = i
        BY <1>3, <1>13
      <3> QED
        BY <3>1 DEF Marks
    <2>4. mark[2] = p1
      <3>1. 0 \in 0 .. k /\ 0 + 2 = 2
        BY <1>3
      <3>2. mark[0 + 2] = p1 + sum[0]
        BY <2>3, <3>1
      <3> HIDE DEF mark
      <3> QED
        BY <1>10, <2>1, <3>1, <3>2
    <2>5. b = 1 => mark[k + 3] = p1 + sum[k] + 8
      BY <1>3, <1>13 DEF Marks
    <2> QED
      BY <2>2, <2>3, <2>4, <2>5
  <1>16. /\ DOMAIN type = 1 .. m /\ type[1] = kind /\ type[2] = SDES
         /\ \A i \in 1 .. k : type[i + 2] = APP
         /\ b = 1 => type[k + 3] = BYE
    <2>1. DOMAIN type = 1 .. m /\ type[1] = kind /\ type[2] = SDES
      BY <1>3, <1>13 DEF Types
    <2>2. ASSUME NEW i \in 1 .. k PROVE type[i + 2] = APP
      <3>1. i + 2 \in 1 .. m /\ i + 2 # 2 /\ i + 2 # 1 /\ i + 2 <= k + 2
        BY <1>3, <1>13
      <3> QED
        BY <3>1 DEF Types
    <2>3. b = 1 => type[k + 3] = BYE
      <3>1. b = 1 => k + 3 \in 1 .. m /\ k + 3 # 1 /\ k + 3 # 2 /\ ~(k + 3 <= k + 2)
        BY <1>3, <1>13
      <3> QED
        BY <3>1 DEF Types
    <2> QED
      BY <2>1, <2>2, <2>3
  <1> HIDE DEF mark, type
  <1>17. \A i \in 1 .. m : i = 1 \/ i = 2 \/ (\E j \in 1 .. k : i = j + 2) \/ (b = 1 /\ i = k + 3)
    <2>1. ASSUME NEW i \in 1 .. m, i # 1, i # 2, ~(b = 1 /\ i = k + 3)
          PROVE  \E j \in 1 .. k : i = j + 2
      <3>1. i - 2 \in 1 .. k /\ i = (i - 2) + 2
        BY <1>3, <1>13, <2>1
      <3> QED
        BY <3>1
    <2> QED
      BY <2>1
  <1>18. Marked(w, mark, type, m)
    <2>1. mark \in [0 .. m -> Nat]
      <3>1. ASSUME NEW i \in 0 .. m PROVE mark[i] \in Nat
        <4>1. i = 0 \/ i \in 1 .. m
          BY <1>13
        <4>2. CASE i = 0
          BY <1>15, <4>2
        <4>3. CASE i = 1
          BY <1>1, <1>15, <4>3 DEF p0
        <4>4. CASE i = 2
          BY <1>10, <1>15, <4>4
        <4>5. CASE \E j \in 1 .. k : i = j + 2
          <5>1. PICK j \in 1 .. k : i = j + 2
            BY <4>5
          <5>2. j \in 0 .. k
            BY <1>3
          <5>3. sum[j] \in Nat
            BY <1>4, <5>2 DEF AppSums
          <5> QED
            BY <1>10, <1>15, <5>1, <5>2, <5>3
        <4>6. CASE b = 1 /\ i = k + 3
          BY <1>10, <1>15, <4>6
        <4> QED
          BY <1>17, <4>1, <4>2, <4>3, <4>4, <4>5, <4>6
      <3>2. mark = [i \in 0 .. m |-> mark[i]]
        BY DEF mark, Marks
      <3> QED
        BY <3>1, <3>2
    <2>2. mark[m] = w.size
      <3>1. CASE b = 0
        <4>1. k \in 0 .. k /\ m = k + 2
          BY <1>3, <1>13, <3>1
        <4> QED
          BY <1>10, <1>15, <3>1, <4>1
      <3>2. CASE b = 1
        <4>1. m = k + 3
          BY <1>3, <1>13, <3>2
        <4> QED
          BY <1>10, <1>15, <3>2, <4>1
      <3> QED
        BY <1>13, <3>1, <3>2
    <2>3. SR \in SR .. APP /\ RR \in SR .. APP /\ SDES \in SR .. APP /\ BYE \in SR .. APP
          /\ APP \in SR .. APP
      BY DEF SR, RR, SDES, BYE, APP
    <2>4. ASSUME NEW i \in 1 .. m
          PROVE  /\ Heads(w, mark[i - 1], type[i], mark[i])
                 /\ mark[i] >= mark[i - 1] + 4 /\ type[i] \in SR .. APP
      <3>1. CASE i = 1
        <4>1. mark[i - 1] = 0 /\ mark[i] = p0 /\ type[i] = kind
          BY <1>15, <1>16, <3>1
        <4>2. p0 >= 0 + 4
          BY <1>1, <1>2 DEF p0
        <4> QED
          BY <1>1, <1>11, <2>3, <4>1, <4>2
      <3>2. CASE i = 2
        <4>1. mark[i - 1] = p0 /\ mark[i] = p1 /\ type[i] = SDES
          BY <1>15, <1>16, <3>2
        <4>2. p1 >= p0 + 4
          BY <1>1, <1>8, <1>10 DEF p0, p1
        <4> QED
          BY <1>12, <2>3, <4>1, <4>2
      <3>3. CASE \E j \in 1 .. k : i = j + 2
        <4>1. PICK j \in 1 .. k : i = j + 2
          BY <3>3
        <4>2. j \in 0 .. k /\ j - 1 \in 0 .. k /\ i - 1 = (j - 1) + 2
          BY <1>3, <4>1
        <4>3. mark[i - 1] = p1 + sum[j - 1] /\ mark[i] = p1 + sum[j] /\ type[i] = APP
          BY <1>15, <1>16, <4>1, <4>2
        <4>4. p1 + sum[j] >= p1 + sum[j - 1] + 4
          <5>1. sum[j] >= sum[j - 1] + 12 /\ sum[j] \in Nat /\ sum[j - 1] \in Nat
            BY <1>4, <4>2 DEF AppSums
          <5> QED
            BY SMTT(20), <1>10, <5>1
        <4> QED
          BY <1>12, <2>3, <4>3, <4>4
      <3>4. CASE b = 1 /\ i = k + 3
        <4>1. k \in 0 .. k /\ i - 1 = k + 2
          BY <1>3, <3>4
        <4>2. mark[i - 1] = p1 + sum[k] /\ mark[i] = p1 + sum[k] + 8 /\ type[i] = BYE
          BY <1>15, <1>16, <3>4, <4>1
        <4>3. p1 + sum[k] + 8 >= p1 + sum[k] + 4
          BY <1>10
        <4> QED
          BY <1>14, <2>3, <3>4, <4>2, <4>3
      <3> QED
        BY <1>17, <3>1, <3>2, <3>3, <3>4
    <2> QED
      BY <1>15, <2>1, <2>2, <2>4 DEF Marked
  <1> DEFINE ps == PacketsBetween(w, mark, m)
  <1>19. read_compound(w) = ps
    BY <1>13, <1>18, CompoundRead
  <1>20. /\ \A i \in 1 .. m : ps[i] = read_packet(w, w.cell[mark[i - 1]], mark[i - 1] + 4, mark[i])
         /\ Len(ps) = m
    <2>1. \A i \in 1 .. m : ps[i] = read_packet(w, w.cell[mark[i - 1]], mark[i - 1] + 4, mark[i])
      BY DEF PacketsBetween
    <2> DEFINE S == {ps[i] : i \in 1 .. m}
    <2>2. ps \in [1 .. m -> S]
      BY DEF PacketsBetween
    <2> HIDE DEF ps, S
    <2> QED
      BY <1>13, <2>1, <2>2, FunctionIsSeq
  <1> HIDE DEF ps
  <1>21. \A i \in 1 .. m : ps[i].type = type[i]
    <2>1. ASSUME NEW i \in 1 .. m PROVE ps[i].type = type[i]
      <3> DEFINE x == mark[i - 1]
                 h == w.cell[x]
      <3>1. h.type = type[i] /\ type[i] \in SR .. APP
        BY <1>18 DEF Marked, Heads
      <3>2. ps[i] = read_packet(w, h, x + 4, mark[i])
        BY <1>20
      <3> HIDE DEF h, x
      <3> QED
        BY <3>1, <3>2, ReadType
    <2> QED
      BY <2>1
  <1>22. /\ ps[1].type \in {SR, RR}
         /\ {ps[1].blocks[i].ssrc : i \in DOMAIN ps[1].blocks} = sources
    <2>1. 1 \in 1 .. m /\ 1 - 1 = 0 /\ 0 + 4 = 4
      BY <1>3, <1>13
    <2> DEFINE read == read_packet(w, w.cell[0], 4, p0)
    <2>2. ps[1] = read
      BY <1>15, <1>20, <2>1
    <2>3. read.type = kind /\ {read.blocks[i].ssrc : i \in DOMAIN read.blocks} = sources
      BY <1>11
    <2> HIDE DEF read
    <2>4. kind \in {SR, RR}
      BY <1>1
    <2> QED
      BY <2>2, <2>3, <2>4
  <1>23. /\ ps[2].type = SDES /\ ps[2].chunks # <<>> /\ ps[2].chunks[1].ssrc = Us
         /\ \E i \in DOMAIN ps[2].chunks[1].items : ps[2].chunks[1].items[i].type = CNAME
    <2>1. 2 \in 1 .. m /\ 2 - 1 = 1
      BY <1>3, <1>13
    <2>2. ps[2] = read_packet(w, w.cell[p0], p0 + 4, p1)
      BY <1>15, <1>20, <2>1
    <2>3. IsDescription(ps[2])
      BY <1>8, <1>9, <2>2
    <2> QED
      BY <2>3 DEF IsDescription
  <1>24. Len(ps) >= 2
    BY <1>3, <1>13, <1>20
  <1>25. \A i \in 3 .. Len(ps) : ps[i].type = APP \/ (ps[i].type = BYE /\ i = Len(ps))
    <2>1. ASSUME NEW i \in 3 .. m PROVE ps[i].type = APP \/ (ps[i].type = BYE /\ i = m)
      <3>1. i \in 1 .. m /\ i # 1 /\ i # 2
        BY <1>13
      <3>2. CASE \E j \in 1 .. k : i = j + 2
        BY <1>16, <1>21, <3>1, <3>2
      <3>3. CASE b = 1 /\ i = k + 3
        <4>1. i = m
          BY <1>3, <1>13, <3>3
        <4> QED
          BY <1>16, <1>21, <3>1, <3>3, <4>1
      <3> QED
        BY <1>17, <3>1, <3>2, <3>3
    <2> QED
      BY <1>20, <2>1
  <1> QED
    BY <1>19, <1>22, <1>23, <1>24, <1>25 DEF Complete

-----------------------------------------------------------------------------
(* The sources that were counted, and the report under construction.       *)

\* The sources owed a report block are those that the table says were heard.
HeardSources == {s \in DOMAIN participants : participants[s].heard}
Accounted == owed = HeardSources /\ IsFiniteSet(DOMAIN participants)

\* What waits to be sent; the items of a session have a CNAME before any of type 0.
Queues == [items : Seq(Item), byes : {<<>>, <<Us>>}, apps : Seq(App), hooked : BOOLEAN,
           appHooks : Seq(App)]
QueueOK == queue \in Queues /\ Described(queue.items)

\* What follows the report has the size that was reserved for it, though packet_mutex_ is
\* all that keeps the application away from the queue.
Remaining == get_sdes_packet_size(queue.items) + size_of_apps(draft.apps)
             + (IF queue.byes = <<>> THEN 0 ELSE 8)
FirstApp == IF queue.apps = <<>> THEN <<>> ELSE <<Head(queue.apps)>>
Ready ==
    /\ Begun(draft.w, draft.kind, draft.owed)
    /\ draft.w.size = draft.w.ptr + Remaining
    /\ draft.apps \in Seq(App) /\ (~draft.hooked => draft.apps = FirstApp)
IsDraft(d) == d = [sr |-> d.sr, kind |-> d.kind, w |-> d.w, owed |-> d.owed,
                   hooked |-> d.hooked, apps |-> d.apps]
DraftOK == IsDraft(draft) /\ \A t \in {"runner", "app"} : pc[t] = "send" => Ready
Reporting == QueueOK /\ DraftOK /\ ReportsCoverPeriod

\* Whether a source was heard is not touched.
LEMMA SameHeard ==
    ASSUME Accounted, UNCHANGED owed, DOMAIN participants' = DOMAIN participants,
           \A s \in DOMAIN participants : participants'[s].heard = participants[s].heard
    PROVE  Accounted'
  BY DEF Accounted, HeardSources

\* Nor where neither the table nor the account changes.
LEMMA NoneHeard == Accounted /\ UNCHANGED <<participants, owed>> => Accounted'
  BY SameHeard

\* Nor by a change of a participant that keeps its mark.
LEMMA ChangedHeard ==
    ASSUME TableOK, Accounted, NEW s, s \in DOMAIN participants, NEW q, Change(s, q),
           q.heard = participants[s].heard, UNCHANGED owed
    PROVE  Accounted'
  <1>1. participants' = [participants EXCEPT ![s] = q]
    BY DEF Change
  <1> QED  BY <1>1, SameHeard DEF TableOK

\* A source that is added has not been heard.
LEMMA AddedHeard ==
    ASSUME TruthOK, Accounted, NEW s, NEW i, add_participant(s, i)
    PROVE  Accounted'
  <1>1. CASE Addable
    <2>1. participants' = With(participants, s, NewParticipant) /\ owed' = owed \ {s}
      BY <1>1 DEF add_participant, Forget
    <2>2. ~NewParticipant.heard
      BY DEF NewParticipant
    <2> HIDE DEF NewParticipant
    <2>3. IsFiniteSet(DOMAIN participants \cup {s})
      BY FS_AddElement DEF Accounted
    <2> QED  BY <2>1, <2>2, <2>3 DEF With, Accounted, HeardSources
  <1>2. CASE ~Addable
    BY <1>2, NoneHeard DEF add_participant
  <1> QED  BY <1>1, <1>2

\* A source that is removed is owed no block.
LEMMA RemovedHeard ==
    ASSUME Accounted, NEW t, NEW s, RemoveSource(t, s)
    PROVE  Accounted'
  <1>1. participants' = Erase(participants, s) /\ owed' = owed \ {s}
    BY DEF RemoveSource, Forget
  <1>2. IsFiniteSet(DOMAIN participants \ {s})
    BY FS_RemoveElement DEF Accounted
  <1> QED  BY <1>1, <1>2 DEF Erase, Accounted, HeardSources

\* update_participant_seq() leaves the mark of a source alone.
LEMMA SequenceHeard ==
    ASSUME NEW p \in Participant, NEW seq
    PROVE  update_participant_seq(p, seq).p.heard = p.heard
  <1> DEFINE b == RtpSeqMod + 1
             c == (seq + 1) % RtpSeqMod
             one == MIN_SEQUENTIAL - 1
             less == p.probation - 1
             p0 == [p EXCEPT !.probation = 0]
  <1>1. p0.heard = p.heard /\ p0 \in [DOMAIN p0 -> UNION {{p0[x]} : x \in DOMAIN p0}]
        /\ DOMAIN p0 = DOMAIN p /\ "heard" \in DOMAIN p
    BY DEF Participant
  <1> HIDE DEF b, c, one, less, p0
  <1>2. \A q : InitSeq(q, seq) = [q EXCEPT !.base = seq, !.max = seq, !.bad = b]
    BY DEF InitSeq, b
  <1>3. InitSeq(p0, seq).heard = p.heard
    BY <1>1, <1>2
  <1>4. InitSeq(p, seq).heard = p.heard
    BY <1>2 DEF Participant
  <1>5. OnProbation(p, seq).p.heard = p.heard
    <2>1. CASE seq # p.max + 1
      <3>1. OnProbation(p, seq).p = [p EXCEPT !.probation = one, !.max = seq]
        BY <2>1 DEF OnProbation, one
      <3> QED  BY <3>1 DEF Participant
    <2>2. CASE seq = p.max + 1 /\ p.probation > 1
      <3>1. OnProbation(p, seq).p = [p EXCEPT !.probation = less, !.max = seq]
        BY <2>2 DEF OnProbation, less
      <3> QED  BY <3>1 DEF Participant
    <2>3. CASE seq = p.max + 1 /\ ~(p.probation > 1)
      <3>1. OnProbation(p, seq).p = InitSeq(p0, seq)
        BY <2>3 DEF OnProbation, p0
      <3> QED  BY <1>3, <3>1
    <2> QED  BY <2>1, <2>2, <2>3
  <1>6. InOrder(p, seq).heard = p.heard
    BY DEF InOrder, Participant
  <1>7. Jumped(p, seq).p.heard = p.heard
    <2>1. CASE seq = p.bad
      BY <1>4, <2>1 DEF Jumped
    <2>2. CASE seq # p.bad
      <3>1. Jumped(p, seq).p = [p EXCEPT !.bad = c]
        BY <2>2 DEF Jumped, c
      <3> QED  BY <3>1 DEF Participant
    <2> QED  BY <2>1, <2>2
  <1> QED  BY <1>5, <1>6, <1>7 DEF update_participant_seq

\* The account of each thread: of the processor, which alone hears a source,
LEMMA ProcessorAccounts == ASSUME TypeOK, Accounted, ProcessorStep PROVE Accounted'
  <1> DEFINE s == arg["processor"].s
             n == arg["processor"].n
             p == participants[s]
  <1>0. TableOK /\ TruthOK
    BY DEF TypeOK
  <1>a. ASSUME s \in DOMAIN participants PROVE p \in Participant
    BY <1>0, <1>a DEF TableOK
  <1>1. CASE \E x \in scenario.senders : \E y \in Indexes(x) : RtpPacket(x, y)
    BY <1>1, NoneHeard DEF RtpPacket, table
  <1>2. CASE init_new_participant
    BY <1>0, <1>2, AddedHeard DEF init_new_participant
  <1>3. CASE init_participant_seq
    <2>1. UNCHANGED owed /\ (UNCHANGED participants \/
             (s \in DOMAIN participants /\ Change(s, InitSeq(p, Number(n)))))
      BY <1>3 DEF init_participant_seq, Known
    <2>2. CASE UNCHANGED participants
      BY <2>1, <2>2, NoneHeard
    <2>3. CASE s \in DOMAIN participants /\ Change(s, InitSeq(p, Number(n)))
      <3> DEFINE q == InitSeq(p, Number(n))
                 m == Number(n)
                 b == RtpSeqMod + 1
      <3>1. q = [p EXCEPT !.base = m, !.max = m, !.bad = b]
        BY DEF InitSeq
      <3> HIDE DEF m, b, p, q
      <3>2. q.heard = p.heard
        BY <1>a, <2>3, <3>1 DEF Participant
      <3> QED  BY <1>0, <2>1, <2>3, <3>2, ChangedHeard DEF p, q
    <2> QED  BY <2>1, <2>2, <2>3
  <1>4. CASE Probation
    <2>1. CASE Dereference("processor", s)
      BY <2>1, NoneHeard DEF Dereference, table
    <2>2. CASE ~Dereference("processor", s)
      <3> DEFINE q == [p EXCEPT !.probation = MIN_SEQUENTIAL]
      <3>1. s \in DOMAIN participants /\ Change(s, q) /\ UNCHANGED owed
        BY <1>4, <2>2 DEF Probation, Known, truth
      <3>2. q.heard = p.heard
        BY <1>a, <3>1 DEF Participant
      <3> HIDE DEF q
      <3> QED  BY <1>0, <3>1, <3>2, ChangedHeard
    <2> QED  BY <2>1, <2>2
  <1>5. CASE UpdateSeq
    <2> DEFINE q == update_participant_seq(p, Number(n)).p
    <2>1. UNCHANGED owed /\ (UNCHANGED participants \/ (s \in DOMAIN participants /\ Change(s, q)))
      BY <1>5 DEF UpdateSeq, Known
    <2>2. CASE UNCHANGED participants
      BY <2>1, <2>2, NoneHeard
    <2>3. CASE s \in DOMAIN participants /\ Change(s, q)
      <3>1. q.heard = p.heard
        BY <1>a, <2>3, SequenceHeard
      <3> HIDE DEF q
      <3> QED  BY <1>0, <2>1, <2>3, <3>1, ChangedHeard
    <2> QED  BY <2>1, <2>2, <2>3
  <1>6. CASE Statistics
    <2> DEFINE q == update_session_statistics(p)
    <2>1. CASE ~Known(s)
      BY <1>6, <2>1, NoneHeard DEF Statistics
    <2>2. CASE Known(s)
      <3>1. Change(s, q) /\ owed' = owed \cup {s}
        BY <1>6, <2>2 DEF Statistics
      <3>2. q.heard = TRUE
        BY <1>a, <2>2 DEF update_session_statistics, Participant, Known
      <3> HIDE DEF q
      <3>3. participants' = [participants EXCEPT ![s] = q]
        BY <3>1 DEF Change
      <3>4. /\ DOMAIN participants' = DOMAIN participants /\ participants'[s] = q
            /\ \A x \in DOMAIN participants : x # s => participants'[x] = participants[x]
        BY <1>0, <2>2, <3>3 DEF TableOK, Known
      <3> QED  BY <2>2, <3>1, <3>2, <3>4 DEF Accounted, HeardSources, Known
    <2> QED  BY <2>1, <2>2
  <1> QED  BY <1>1, <1>2, <1>3, <1>4, <1>5, <1>6 DEF ProcessorStep

\* of the reader,
LEMMA ReaderAccounts == ASSUME TypeOK, Accounted, ReaderStep PROVE Accounted'
  <1>0. TableOK /\ TruthOK
    BY DEF TypeOK
  <1>1. CASE \/ \E frame \in scenario.frames : Receive(frame)
             \/ EndOfCompound \/ NextPacket \/ CallHook \/ HoldReport \/ LookUpBye \/ EndOfBye
    BY <1>1, NoneHeard DEF Receive, EndOfCompound, NextPacket, CallHook, HoldReport, LookUpBye,
                           EndOfBye, table, truth
  <1>2. CASE AddUnknown
    BY <1>0, <1>2, AddedHeard DEF AddUnknown
  <1>3. CASE SenderReport
    <2>1. CASE Dereference("reader", Subject)
      BY <2>1, NoneHeard DEF Dereference, table
    <2>2. CASE ~Dereference("reader", Subject)
      <3> DEFINE p == participants[Subject]
                 q == [p EXCEPT !.lsr = TRUE]
      <3>1. Subject \in DOMAIN participants /\ Change(Subject, q) /\ UNCHANGED owed
        BY <1>3, <2>2 DEF SenderReport, Known, truth
      <3>2. p \in Participant
        BY <1>0, <3>1 DEF TableOK
      <3> HIDE DEF p
      <3>3. q.heard = p.heard
        BY <3>2 DEF Participant
      <3> HIDE DEF q
      <3> QED  BY <1>0, <3>1, <3>3, ChangedHeard DEF p
    <2> QED  BY <2>1, <2>2
  <1>4. CASE StoreReport
    <2>1. CASE Dereference("reader", Subject)
      BY <2>1, NoneHeard DEF Dereference, table
    <2>2. CASE ~Dereference("reader", Subject)
      <3> DEFINE p == participants[Subject]
                 held == p.held \cup {Packet.type}
                 q == [p EXCEPT !.held = held]
      <3>1. Subject \in DOMAIN participants /\ Change(Subject, q) /\ UNCHANGED owed
        BY <1>4, <2>2 DEF StoreReport, Known, truth
      <3>2. p \in Participant
        BY <1>0, <3>1 DEF TableOK
      <3> HIDE DEF p, held
      <3>3. q.heard = p.heard
        BY <3>2 DEF Participant
      <3> HIDE DEF q
      <3> QED  BY <1>0, <3>1, <3>3, ChangedHeard DEF p
    <2> QED  BY <2>1, <2>2
  <1>5. CASE EraseBye
    <2> DEFINE s == Head(Packet.ssrcs)
    <2>1. CASE Dereference("reader", s)
      BY <2>1, NoneHeard DEF Dereference, table
    <2>2. CASE ~Dereference("reader", s)
      BY <1>5, <2>2, RemovedHeard DEF EraseBye
    <2> QED  BY <2>1, <2>2
  <1> QED  BY <1>1, <1>2, <1>3, <1>4, <1>5 DEF ReaderStep

\* A report that is begun has a block for each source that was heard.
LEMMA ReportAccounts ==
    ASSUME TypeOK, Accounted, NEW t \in {"runner", "app"}, ReportStep(t)
    PROVE  Accounted'
  <1>1. CASE UNCHANGED <<participants, owed>>
    BY <1>1, NoneHeard
  <1>2. CASE ~UNCHANGED <<participants, owed>>
    <2>1. participants' = [s \in DOMAIN participants |-> Reported(participants[s])] /\ owed' = {}
      BY <1>2 DEF ReportStep, NoParticipants, SenderRole, ReceiverRole, ReportBlocks, SendReport,
                  table, truth
    <2>2. ASSUME NEW s \in DOMAIN participants PROVE ~Reported(participants[s]).heard
      <3> DEFINE p == participants[s]
                 e == Expected(p)
                 r == p.received
      <3>1. p \in Participant
        BY DEF TypeOK, TableOK
      <3>2. Reported(p) = IF p.heard THEN [p EXCEPT !.heard = FALSE, !.priorExpected = e,
                                                    !.priorReceived = r] ELSE p
        BY DEF Reported
      <3> HIDE DEF p, e, r
      <3> QED  BY <3>1, <3>2 DEF p, Participant
    <2> QED  BY <2>1, <2>2 DEF Accounted, HeardSources
  <1> QED  BY <1>1, <1>2

\* of the runner,
LEMMA RunnerAccounts == ASSUME TypeOK, Accounted, RunnerStep PROVE Accounted'
  <1>1. CASE ReportStep("runner")
    BY <1>1, ReportAccounts
  <1>2. CASE Wake \/ Exit \/ Timeouts \/ Sleep
    BY <1>2, NoneHeard DEF Wake, Exit, Timeouts, Sleep, table, truth
  <1>3. CASE remove_timeout_ssrc
    <2>1. PICK s : Dereference("runner", s) \/ RemoveSource("runner", s)
      BY <1>3 DEF remove_timeout_ssrc
    <2>2. CASE Dereference("runner", s)
      BY <2>2, NoneHeard DEF Dereference, table
    <2> QED  BY <2>1, <2>2, RemovedHeard
  <1> QED  BY <1>1, <1>2, <1>3 DEF RunnerStep

\* and of the application.
LEMMA AppAccounts == ASSUME TypeOK, Accounted, AppStep PROVE Accounted'
  <1>0. TableOK /\ TruthOK
    BY DEF TypeOK
  <1>1. CASE ReportStep("app")
    BY <1>1, ReportAccounts
  <1>2. CASE \/ \E k \in Kinds, s \in Peers : GetPacket(k, s)
             \/ update_sender_stats \/ remove_send_app_hook \/ remove_all_hooks
             \/ \E length \in scenario.appLengths :
                   send_app_packet(length) \/ install_send_app_hook(length)
             \/ \E items \in scenario.items : send_sdes_packet(items)
             \/ \E k \in scenario.hooks : install_hook(k)
             \/ Stop \/ Deactivate \/ JoinRunner \/ Unmap
    <2>1. UNCHANGED <<participants, owed>>
      BY <1>2 DEF GetPacket, update_sender_stats, remove_send_app_hook, remove_all_hooks,
                  send_app_packet, install_send_app_hook, send_sdes_packet, install_hook, Stop,
                  Deactivate, JoinRunner, Unmap, table, truth
    <2> QED  BY <2>1, NoneHeard
  <1>3. CASE TakePacket
    <2> DEFINE s == arg["app"].s
    <2>1. CASE Dereference("app", s)
      BY <2>1, NoneHeard DEF Dereference, table
    <2>2. CASE ~Dereference("app", s)
      <3> DEFINE p == participants[s]
                 held == p.held \ {arg["app"].k}
                 q == [p EXCEPT !.held = held]
      <3>1. s \in DOMAIN participants /\ Change(s, q) /\ UNCHANGED owed
        BY <1>3, <2>2 DEF TakePacket, Known, truth
      <3>2. p \in Participant
        BY <1>0, <3>1 DEF TableOK
      <3> HIDE DEF p, held
      <3>3. q.heard = p.heard
        BY <3>2 DEF Participant
      <3> HIDE DEF q
      <3> QED  BY <1>0, <3>1, <3>3, ChangedHeard DEF p
    <2> QED  BY <2>1, <2>2
  <1>4. CASE cleanup_participants
    <2>1. participants' = << >> /\ owed' = {}
      BY <1>4 DEF cleanup_participants
    <2> QED  BY <2>1, FS_EmptySet DEF Accounted, HeardSources
  <1> QED  BY <1>1, <1>2, <1>3, <1>4 DEF AppStep

\* The sources owed a block are those marked in the table, whatever the threads do.
LEMMA AccountInvariant == Spec => [](TypeOK /\ Accounted)
  <1>1. Init => Accounted
    <2> SUFFICES ASSUME Init PROVE Accounted
      OBVIOUS
    <2>1. participants = << >> /\ owed = {}
      BY DEF Init
    <2> QED  BY <2>1, FS_EmptySet DEF Accounted, HeardSources
  <1>2. TypeOK /\ Accounted /\ [Next]_vars => Accounted'
    <2> SUFFICES ASSUME TypeOK, Accounted, [Next]_vars PROVE Accounted'
      OBVIOUS
    <2>1. CASE UNCHANGED vars
      BY <2>1, NoneHeard DEF vars, table, truth
    <2> QED
      BY <2>1, ProcessorAccounts, ReaderAccounts, RunnerAccounts, AppAccounts DEF Next
  <1> QED  BY <1>1, <1>2, SessionTypes, PTL DEF Spec

\* The size of a report is where its last block ends, and that of a BYE packet.
LEMMA ReportSizes ==
    ASSUME NEW n \in Nat
    PROVE  /\ get_sr_packet_size(FALSE, n) = Base(SR) + 24 * n
           /\ get_rr_packet_size(FALSE, n) = Base(RR) + 24 * n
           /\ get_sr_packet_size(TRUE, n) \in Nat /\ get_rr_packet_size(TRUE, n) \in Nat
           /\ get_bye_packet_size(<<Us>>) = 8
  <1>1. get_rr_packet_size(FALSE, n) = 8 + 24 * n /\ get_rr_packet_size(TRUE, n) = 22 + 24 * n
    BY DEF get_rr_packet_size, RTCP_HEADER_SIZE, SSRC_CSRC_SIZE, REPORT_BLOCK_SIZE, SRTCP_TRAILER
  <1> DEFINE rr(b) == get_rr_packet_size(b, n)
             sr(b) == get_sr_packet_size(b, n)
  <1>2. sr(FALSE) = 28 + 24 * n /\ sr(TRUE) = 42 + 24 * n
    <2>1. sr(FALSE) = rr(FALSE) + 20 /\ sr(TRUE) = rr(TRUE) + 20
      BY Zenon DEF get_sr_packet_size, SENDER_INFO_SIZE
    <2> DEFINE x == rr(FALSE)
               y == rr(TRUE)
               x1 == sr(FALSE)
               y1 == sr(TRUE)
    <2>2. x1 = x + 20 /\ y1 = y + 20 /\ x = 8 + 24 * n /\ y = 22 + 24 * n
      BY <1>1, <2>1
    <2> HIDE DEF x, y, x1, y1
    <2>3. x1 = 28 + 24 * n /\ y1 = 42 + 24 * n
      BY <2>2
    <2> QED  BY <2>3 DEF x1, y1
  <1>3. Base(SR) = 28 /\ Base(RR) = 8
    BY DEF Base, SR, RR
  <1>4. get_bye_packet_size(<<Us>>) = 8
    BY DEF get_bye_packet_size, RTCP_HEADER_SIZE, SSRC_CSRC_SIZE
  <1>5. rr(TRUE) \in Nat /\ sr(TRUE) \in Nat
    <2>1. \A x : x = 22 + 24 * n \/ x = 42 + 24 * n => x \in Nat
      OBVIOUS
    <2> QED  BY <1>1, <1>2, <2>1, Zenon
  <1>6. get_sr_packet_size(FALSE, n) = Base(SR) + 24 * n
    BY <1>2, <1>3
  <1>7. get_rr_packet_size(FALSE, n) = Base(RR) + 24 * n
    BY <1>1, <1>3
  <1> QED  BY <1>4, <1>5, <1>6, <1>7

\* What is reserved for a compound packet.
Reserves(size, srtp, kind, n, items, apps, byes) ==
    /\ kind \in {SR, RR} /\ size \in Nat
    /\ ~srtp => size = Base(kind) + 24 * n
                       + (get_sdes_packet_size(items) + apps + (IF byes = <<>> THEN 0 ELSE 8))

\* size_of_compound_packet() reserves what the packets take up.
LEMMA CompoundSize ==
    ASSUME NEW srtp \in BOOLEAN, NEW kind, NEW n \in Nat, NEW items \in Seq(Item),
           NEW apps \in Nat, NEW byes \in {<<>>, <<Us>>},
           NEW size, size = size_of_compound_packet(srtp, kind, n, items, apps, byes), size # 0
    PROVE  Reserves(size, srtp, kind, n, items, apps, byes)
  <1> DEFINE r == IF kind = SR THEN get_sr_packet_size(srtp, n) ELSE get_rr_packet_size(srtp, n)
             g == get_sdes_packet_size(items)
             tail == IF byes = <<>> THEN 0 ELSE 8
             base == Base(kind) + 24 * n
  <1>1. kind \in {SR, RR}
    BY DEF size_of_compound_packet
  <1>2. size = r + g + apps + (IF byes = <<>> THEN 0 ELSE get_bye_packet_size(byes))
    BY <1>1 DEF size_of_compound_packet
  <1>3. (IF byes = <<>> THEN 0 ELSE get_bye_packet_size(byes)) = tail /\ tail \in Nat
    BY ReportSizes
  <1>4. g \in Nat
    BY ItemsSize
  <1>5. base \in Nat /\ r \in Nat /\ (~srtp => r = base)
    <2>1. base \in Nat
      BY DEF Base
    <2>2. ~srtp => r = base
      <3>1. CASE kind = SR
        BY <3>1, ReportSizes
      <3>2. CASE kind = RR
        <4>1. RR # SR
          BY DEF RR, SR
        <4> QED  BY <3>2, <4>1, ReportSizes
      <3> QED  BY <1>1, <3>1, <3>2
    <2>3. srtp => r \in Nat
      BY ReportSizes
    <2> HIDE DEF r, base
    <2> QED  BY <2>1, <2>2, <2>3
  <1> HIDE DEF r, g, tail, base
  <1>6. size = r + g + apps + tail
    BY <1>2, <1>3
  <1>7. size \in Nat /\ (~srtp => size = base + (g + apps + tail))
    BY <1>3, <1>4, <1>5, <1>6
  <1> QED  BY <1>1, <1>7 DEF base, g, tail, Reserves

\* The APP packets to send, whether they are queued or given by hooks.
LEMMA OutgoingTypes ==
    ASSUME QueueOK
    PROVE  /\ Outgoing \in Seq(App) /\ size_of_apps(Outgoing) \in Nat
           /\ ~queue.hooked => Outgoing = FirstApp
  <1>1. queue.apps \in Seq(App) /\ queue.appHooks \in Seq(App) /\ queue.hooked \in BOOLEAN
    BY DEF QueueOK, Queues
  <1>2. ~queue.hooked => Outgoing = FirstApp
    BY DEF Outgoing, FirstApp
  <1>3. Outgoing \in Seq(App)
    <2>1. CASE queue.hooked
      <3> DEFINE all == queue.appHooks
                 I == {i \in DOMAIN all : all[i].length > 0}
      <3>1. I \in SUBSET (1 .. Len(all))
        BY <1>1
      <3>2. Outgoing = Chosen(all, I)
        BY <2>1 DEF Outgoing
      <3> HIDE DEF all, I
      <3>3. Chosen(all, I) \in Seq(App)
        BY <1>1, <3>1, ChosenIs DEF all
      <3> QED  BY <3>2, <3>3
    <2>2. CASE ~queue.hooked
      <3> DEFINE apps == queue.apps
      <3>1. FirstApp = IF apps = <<>> THEN <<>> ELSE <<Head(apps)>>
        BY DEF FirstApp
      <3>2. apps \in Seq(App)
        BY <1>1
      <3> HIDE DEF apps
      <3>3. apps # <<>> => Head(apps) \in App
        BY <3>2, HeadTailProperties
      <3>4. FirstApp \in Seq(App)
        BY <3>1, <3>3
      <3> QED  BY <1>2, <2>2, <3>4
    <2> QED  BY <1>1, <2>1, <2>2
  <1>4. size_of_apps(Outgoing) \in Nat
    <2> DEFINE out == Outgoing
               k == Len(out)
    <2> HIDE DEF out
    <2>1. out \in Seq(App)
      BY <1>3 DEF out
    <2>2. k \in Nat /\ \E sum : AppSums(sum, out, k)
      BY <2>1, AppsSize
    <2>3. size_of_apps(out) \in Nat
      BY <2>2 DEF AppSums
    <2> QED  BY <2>3 DEF out
  <1> QED  BY <1>2, <1>3, <1>4

\* A report block is about the source it was made for.
LEMMA BlockAbout == \A s : AboutSource(ReportBlock(s)) /\ ReportBlock(s).ssrc = s
  <1> SUFFICES ASSUME NEW s PROVE AboutSource(ReportBlock(s)) /\ ReportBlock(s).ssrc = s
    OBVIOUS
  <1> DEFINE p == participants[s]
             f == fraction(p)
             F == {"ssrc", "fraction", "lost", "cycles", "last_seq", "lsr"}
             V == {s, f, p.lost, p.cycles, p.max, p.lsr}
             b == [ssrc |-> s, fraction |-> f, lost |-> p.lost, cycles |-> p.cycles,
                   last_seq |-> p.max, lsr |-> p.lsr]
  <1>1. ReportBlock(s) = b
    BY DEF ReportBlock
  <1> HIDE DEF p, f
  <1>2. b \in [F -> V] /\ "ssrc" \in F /\ b.ssrc = s
    OBVIOUS
  <1> HIDE DEF b, F, V
  <1> QED  BY <1>1, <1>2 DEF AboutSource

\* The sources that were heard, in the order of their blocks.
LEMMA HeardInOrder ==
    ASSUME TypeOK, Accounted
    PROVE  \E n \in Nat : /\ Len(Heard) = n /\ DOMAIN Heard = 1 .. n
                          /\ {Heard[i] : i \in 1 .. n} = owed
  <1> DEFINE n == Cardinality(HeardSources)
  <1>1. HeardSources \in SUBSET Nat /\ IsFiniteSet(HeardSources)
    <2>1. DOMAIN participants \subseteq Nat
      BY ConstantsAssumption DEF TypeOK, TableOK, Ssrcs
    <2>2. HeardSources \in SUBSET DOMAIN participants
      BY DEF HeardSources
    <2> QED  BY <2>1, <2>2, FS_Subset DEF Accounted
  <1>2. Heard = Sorted(HeardSources)
    BY DEF Heard, HeardSources
  <1>3. /\ n \in Nat /\ Heard \in [1 .. n -> HeardSources]
        /\ {Heard[i] : i \in 1 .. n} = HeardSources
    BY <1>1, <1>2, SortedIs
  <1> HIDE DEF n
  <1>4. Len(Heard) = n /\ DOMAIN Heard = 1 .. n
    BY <1>3, FunctionIsSeq
  <1> QED  BY <1>3, <1>4 DEF Accounted

\* A report that is not given up is ready to be completed.
LEMMA BlocksReady ==
    ASSUME TypeOK, Accounted, QueueOK, IsDraft(draft), NEW t, ReportBlocks(t), UNCHANGED queue
    PROVE  AbandonReport(t) \/ (Ready' /\ IsDraft(draft'))
  <1> DEFINE kind == draft.kind
             srtp == scenario.srtp
             apps == size_of_apps(Outgoing)
             size == size_of_compound_packet(srtp, kind, Len(Heard), queue.items, apps, queue.byes)
             blocks == [i \in DOMAIN Heard |-> ReportBlock(Heard[i])]
             w0 == Writer(size)
             w == ReportPacket(w0, srtp, kind, Us, our, blocks)
  <1> SUFFICES ASSUME ~(size = 0 \/ ~w.ok) PROVE Ready' /\ IsDraft(draft')
    BY DEF ReportBlocks
  <1>0. w.ok /\ size # 0
    OBVIOUS
  <1>1. draft' = [draft EXCEPT !.w = w, !.owed = owed, !.hooked = queue.hooked, !.apps = Outgoing]
    BY DEF ReportBlocks
  <1>2. PICK n \in Nat : /\ Len(Heard) = n /\ DOMAIN Heard = 1 .. n
                         /\ {Heard[i] : i \in 1 .. n} = owed
    BY HeardInOrder
  <1>3. srtp \in BOOLEAN
    BY ScenariosAssumption DEF TypeOK
  <1>4. queue.items \in Seq(Item) /\ queue.byes \in {<<>>, <<Us>>}
    BY DEF QueueOK, Queues
  <1>5. apps \in Nat
    BY OutgoingTypes
  <1> HIDE DEF srtp, kind, apps
  <1>6. /\ kind \in {SR, RR} /\ size \in Nat
        /\ ~srtp => size = Base(kind) + 24 * n + (get_sdes_packet_size(queue.items) + apps
                                                   + (IF queue.byes = <<>> THEN 0 ELSE 8))
    <2> DEFINE items == queue.items
               byes == queue.byes
    <2>1. items \in Seq(Item) /\ byes \in {<<>>, <<Us>>} /\ size # 0
      BY <1>0, <1>4
    <2>2. size = size_of_compound_packet(srtp, kind, n, items, apps, byes)
      BY <1>2
    <2> HIDE DEF items, byes, size
    <2>3. Reserves(size, srtp, kind, n, items, apps, byes)
      BY <1>3, <1>5, <2>1, <2>2, CompoundSize
    <2> QED  BY <2>3 DEF Reserves, items, byes
  <1> HIDE DEF size
  <1>7. IsWriter(w0) /\ w0.ok /\ w0.ptr = 0 /\ w0.size = size
    BY <1>6 DEF Writer, IsWriter
  <1>8. DOMAIN blocks = 1 .. n /\ Len(blocks) = n
    <2> DEFINE V == {blocks[i] : i \in 1 .. n}
    <2>1. blocks \in [1 .. n -> V]
      BY <1>2
    <2> HIDE DEF blocks, V
    <2> QED  BY <2>1, FunctionIsSeq
  <1>9. \A i \in 1 .. n : AboutSource(blocks[i]) /\ blocks[i].ssrc = Heard[i]
    BY <1>2, BlockAbout
  <1> HIDE DEF blocks, w0
  <1>10. ~srtp /\ IsWriter(w) /\ w.size = size /\ ReportAtStart(w, kind, Us, blocks, n)
    <2>1. w = ReportPacket(w0, srtp, kind, Us, our, blocks)
      OBVIOUS
    <2> DEFINE info == our
    <2> HIDE DEF w, info
    <2>2. w = ReportPacket(w0, srtp, kind, Us, info, blocks)
      BY <2>1 DEF info
    <2>3. ReportMade(w, w0, srtp, kind, Us, blocks, n)
      BY <1>3, <1>6, <1>7, <1>8, <2>2, ReportIs
    <2> QED  BY <1>0, <1>7, <2>3 DEF ReportMade
  <1> HIDE DEF w
  <1>11. Begun(w, kind, owed)
    <2>1. owed = {blocks[i].ssrc : i \in 1 .. n}
      BY <1>2, <1>9
    <2> QED  BY <1>6, <1>8, <1>9, <1>10, <2>1 DEF Begun
  <1>12. w.size = w.ptr + (get_sdes_packet_size(queue.items) + apps
                            + (IF queue.byes = <<>> THEN 0 ELSE 8))
    <2>1. w.ptr = Base(kind) + 24 * n
      BY <1>10 DEF ReportAtStart
    <2> QED  BY <1>6, <1>10, <2>1
  <1>13. /\ draft'.w = w /\ draft'.kind = kind /\ draft'.owed = owed /\ draft'.hooked = queue.hooked
         /\ draft'.apps = Outgoing /\ IsDraft(draft')
    BY <1>1 DEF IsDraft, kind
  <1>14. Remaining' = get_sdes_packet_size(queue.items) + apps + (IF queue.byes = <<>> THEN 0 ELSE 8)
    BY <1>13 DEF Remaining, apps
  <1>15. FirstApp' = FirstApp
    BY DEF FirstApp
  <1> QED  BY <1>11, <1>12, <1>13, <1>14, <1>15, OutgoingTypes DEF Ready

\* The APP packets are those that there is room for, unless hooked_app_ has changed.
LEMMA AppsStay ==
    ASSUME QueueOK, Ready, draft.hooked = queue.hooked
    PROVE  AppsToSend = draft.apps
  <1>1. queue.hooked \in BOOLEAN
    BY DEF QueueOK, Queues
  <1> QED  BY <1>1, OutgoingTypes DEF AppsToSend, Ready

\* The report that is sent is complete.
LEMMA SentComplete ==
    ASSUME TypeOK, QueueOK, Ready, ReportsCoverPeriod, NEW t, SendReport(t)
    PROVE  ReportsCoverPeriod'
  <1> DEFINE described == SdesPacket(draft.w, Us, receivers, queue.items)
             applied   == AppPackets(described, Us, AppsToSend)
             w         == ByePacket(applied, queue.byes)
  <1>1. CASE ~w.ok
    <2>1. wire' = wire
      BY <1>1 DEF SendReport
    <2> QED  BY <2>1 DEF ReportsCoverPeriod
  <1>2. CASE w.ok
    <2>1. wire' = [packets |-> read_compound(w), owed |-> draft.owed,
                   switched |-> draft.hooked # queue.hooked]
      BY <1>2 DEF SendReport
    <2> SUFFICES ASSUME draft.hooked = queue.hooked
                 PROVE  Complete(read_compound(w), draft.owed)
      <3> HIDE DEF w
      <3>1. /\ wire'.packets = read_compound(w) /\ wire'.owed = draft.owed
            /\ ~wire'.switched => draft.hooked = queue.hooked
        BY <2>1
      <3> QED  BY <3>1 DEF ReportsCoverPeriod, Complete
    <2>2. AppsToSend = draft.apps
      BY AppsStay
    <2>3. queue.items \in Seq(Item) /\ queue.byes \in {<<>>, <<Us>>} /\ Described(queue.items)
      BY DEF QueueOK, Queues
    <2> DEFINE tail == IF queue.byes = <<>> THEN 0 ELSE 8
               w0 == draft.w
               kind == draft.kind
               apps == draft.apps
               items == queue.items
               byes == queue.byes
               sources == draft.owed
    <2>4. /\ Begun(w0, kind, sources) /\ apps \in Seq(App)
          /\ w0.size = w0.ptr + (get_sdes_packet_size(items) + size_of_apps(apps) + tail)
      BY DEF Ready, Remaining
    <2>5. w = ByePacket(AppPackets(SdesPacket(w0, Us, receivers, items), Us, apps), byes)
      BY <2>2
    <2>6. tail = (IF byes = <<>> THEN 0 ELSE 8)
      OBVIOUS
    <2> HIDE DEF w0, kind, apps, items, byes, sources, tail, w
    <2>7. items \in Seq(Item) /\ Described(items) /\ byes \in {<<>>, <<Us>>}
      BY <2>3 DEF items, byes
    <2>8. Complete(read_compound(w), sources)
      BY <1>2, <2>4, <2>5, <2>6, <2>7, SentIsRead
    <2> QED  BY <2>8 DEF sources
  <1> QED  BY <1>1, <1>2

\* Where nothing of a report changes and nobody starts to send one.
LEMMA ReportingStays ==
    ASSUME Reporting, UNCHANGED <<queue, draft, wire>>,
           \A t \in {"runner", "app"} : pc'[t] = "send" => pc[t] = "send"
    PROVE  Reporting'
  BY DEF Reporting, QueueOK, DraftOK, ReportsCoverPeriod, Ready, Remaining, FirstApp

\* Who has packet_mutex_ is alone between the report and its end.
LEMMA Alone ==
    ASSUME ControlOK, NEW t \in {"runner", "app"},
           pc[t] \in {"role", "blocks", "send"} \/ Free("packet"),
           NEW u \in {"runner", "app"}, u # t
    PROVE  pc[u] # "send"
  <1>1. lock["packet"] \in {t, Nobody}
    BY DEF ControlOK, Free
  <1>2. u # Nobody /\ (pc[u] = "send" => lock["packet"] = u)
    BY DEF ControlOK, Nobody
  <1> QED  BY <1>1, <1>2
LEMMA NobodySends ==
    ASSUME ControlOK, Free("packet"), NEW u \in {"runner", "app"}
    PROVE  pc[u] # "send"
  BY DEF ControlOK, Free, Nobody

\* A step of generate_report() keeps the report on its way, or sends a complete one.
LEMMA ReportReporting ==
    ASSUME TypeOK, Accounted, Reporting, NEW t \in {"runner", "app"}, ReportStep(t)
    PROVE  Reporting'
  <1>0. ControlOK /\ t \in Threads
    BY DEF TypeOK, Threads
  <1>a. ASSUME NEW l, Goto(t, l) PROVE pc'[t] = l /\ \A u \in Threads \ {t} : pc'[u] = pc[u]
    BY <1>0, <1>a, Gone
  <1>b. AfterReport(t) # "send"
    BY DEF AfterReport
  <1>c. IsDraft(draft) /\ QueueOK /\ ReportsCoverPeriod
    BY DEF Reporting, DraftOK
  <1>d. IsDraft(NoDraft)
    BY DEF IsDraft, NoDraft
  <1>1. CASE NoParticipants(t)
    <2>1. UNCHANGED <<queue, draft, wire>> /\ Goto(t, AfterReport(t))
      BY <1>1 DEF NoParticipants, local
    <2>2. \A u \in {"runner", "app"} : pc'[u] = "send" => pc[u] = "send"
      BY <1>a, <1>b, <2>1 DEF Threads
    <2> QED  BY <2>1, <2>2, ReportingStays
  <1>2. CASE SenderRole(t) \/ ReceiverRole(t)
    <2>1. /\ UNCHANGED <<queue, wire>> /\ \E l : l # "send" /\ Goto(t, l)
          /\ pc[t] = "role" \/ Free("packet")
      BY <1>2 DEF SenderRole, ReceiverRole, Lock, local
    <2>2. IsDraft(draft')
      <3> DEFINE sr == our.role = "SENDER" /\ our.sent
                 kind == IF draft.sr THEN SR ELSE IF our.role = "RECEIVER" \/ ~our.sent THEN RR ELSE 0
      <3>1. draft' = [draft EXCEPT !.sr = sr] \/ draft' = [draft EXCEPT !.kind = kind]
        BY <1>2 DEF SenderRole, ReceiverRole
      <3> HIDE DEF sr, kind
      <3> QED  BY <1>c, <3>1 DEF IsDraft
    <2>3. \A u \in {"runner", "app"} : pc'[u] # "send"
      BY <1>0, <1>a, <2>1, Alone DEF Threads
    <2> QED  BY <1>c, <2>1, <2>2, <2>3 DEF Reporting, DraftOK, QueueOK, ReportsCoverPeriod
  <1>3. CASE ReportBlocks(t)
    <2>1. /\ UNCHANGED <<queue, wire>> /\ pc[t] = "blocks"
          /\ (AbandonReport(t) \/ Goto(t, "send"))
      BY <1>3 DEF ReportBlocks
    <2>2. \A u \in {"runner", "app"} : u # t => pc'[u] # "send"
      BY <1>0, <1>a, <2>1, Alone DEF Threads, AbandonReport
    <2>3. AbandonReport(t) \/ (Ready' /\ IsDraft(draft'))
      BY <1>3, <1>c, <2>1, BlocksReady
    <2>4. QueueOK' /\ ReportsCoverPeriod'
      BY <1>c, <2>1 DEF QueueOK, ReportsCoverPeriod
    <2>5. CASE AbandonReport(t)
      <3>1. draft' = NoDraft /\ pc'[t] # "send"
        BY <1>a, <1>b, <2>5 DEF AbandonReport
      <3> QED  BY <1>d, <2>2, <2>4, <3>1 DEF Reporting, DraftOK
    <2> QED  BY <2>2, <2>3, <2>4, <2>5 DEF Reporting, DraftOK
  <1>4. CASE SendReport(t)
    <2>1. pc[t] = "send" /\ AbandonReport(t)
      BY <1>4 DEF SendReport
    <2>2. Ready
      BY <2>1 DEF Reporting, DraftOK
    <2>3. ReportsCoverPeriod'
      BY <1>4, <1>c, <2>2, SentComplete
    <2>4. draft' = NoDraft /\ \A u \in {"runner", "app"} : pc'[u] # "send"
      BY <1>0, <1>a, <1>b, <2>1, Alone DEF AbandonReport, Threads
    <2>5. QueueOK'
      <3> DEFINE apps == queue'.apps
                 byes == queue'.byes
      <3>1. \E a \in {queue.apps, Tail(queue.apps)}, b \in {queue.byes, <<>>} :
               /\ queue' = [queue EXCEPT !.apps = a, !.byes = b]
               /\ a = queue.apps \/ queue.apps # <<>>
        BY <1>4 DEF SendReport
      <3>2. PICK a \in {queue.apps, Tail(queue.apps)}, b \in {queue.byes, <<>>} :
               /\ queue' = [queue EXCEPT !.apps = a, !.byes = b]
               /\ a = queue.apps \/ queue.apps # <<>>
        BY <3>1
      <3>3. queue \in Queues
        BY <1>c DEF QueueOK
      <3>4. a \in Seq(App)
        <4> DEFINE q == queue.apps
        <4>1. q \in Seq(App) /\ a \in {q, Tail(q)}
          BY <3>2, <3>3 DEF Queues
        <4> HIDE DEF q
        <4>2. a = q \/ q # <<>>
          BY <3>2 DEF q
        <4> QED  BY <4>1, <4>2, HeadTailProperties
      <3>5. b \in {<<>>, <<Us>>}
        BY <3>2, <3>3 DEF Queues
      <3>6. queue' \in Queues /\ queue'.items = queue.items
        BY <3>2, <3>3, <3>4, <3>5 DEF Queues
      <3> QED  BY <1>c, <3>6 DEF QueueOK
    <2> QED  BY <1>d, <2>3, <2>4, <2>5 DEF Reporting, DraftOK
  <1> QED  BY <1>1, <1>2, <1>3, <1>4 DEF ReportStep

\* The application changes what waits when nobody sends, or only what comes of hooks.
LEMMA QueueChanges ==
    ASSUME Reporting, queue' \in Queues, Described(queue'.items), UNCHANGED <<draft, wire>>,
           \/ \A t \in {"runner", "app"} : pc'[t] # "send"
           \/ /\ queue'.items = queue.items /\ queue'.apps = queue.apps
              /\ queue'.byes = queue.byes /\ UNCHANGED pc
    PROVE  Reporting'
  <1>1. QueueOK' /\ ReportsCoverPeriod' /\ IsDraft(draft')
    BY DEF Reporting, QueueOK, ReportsCoverPeriod, DraftOK
  <1>2. CASE \A t \in {"runner", "app"} : pc'[t] # "send"
    BY <1>1, <1>2 DEF Reporting, DraftOK
  <1>3. CASE /\ queue'.items = queue.items /\ queue'.apps = queue.apps
             /\ queue'.byes = queue.byes /\ UNCHANGED pc
    <2>1. Ready => Ready'
      BY <1>3 DEF Ready, Remaining, FirstApp
    <2> QED  BY <1>1, <1>3, <2>1 DEF Reporting, DraftOK
  <1> QED  BY <1>2, <1>3

\* Neither the processor nor the reader has to do with reports, nor has the runner
\* between them.
LEMMA OthersReporting ==
    ASSUME TypeOK, Reporting, ProcessorStep \/ ReaderStep \/ (RunnerStep /\ ~ReportStep("runner"))
    PROVE  Reporting'
  <1>0. ControlOK
    BY DEF TypeOK
  <1>1. CASE ProcessorStep
    <2>1. UNCHANGED <<queue, draft, wire>> /\ (UNCHANGED pc \/ \E l : Goto("processor", l))
      BY <1>1 DEF ProcessorStep, RtpPacket, init_new_participant, init_participant_seq, Probation,
                  UpdateSeq, Statistics, Processed, Dereference, local, control
    <2>2. \A t \in {"runner", "app"} : pc'[t] = pc[t]
      BY <1>0, <2>1, Gone DEF Threads
    <2> QED  BY <2>1, <2>2, ReportingStays
  <1>2. CASE ReaderStep
    <2>1. UNCHANGED <<queue, draft, wire>> /\ (UNCHANGED pc \/ \E l : Goto("reader", l))
      BY <1>2 DEF ReaderStep, Receive, EndOfCompound, NextPacket, AddUnknown, SenderReport, CallHook,
                  HoldReport, StoreReport, LookUpBye, EraseBye, EndOfBye, Advance, Return,
                  Dereference, local, control
    <2>2. \A t \in {"runner", "app"} : pc'[t] = pc[t]
      BY <1>0, <2>1, Gone DEF Threads
    <2> QED  BY <2>1, <2>2, ReportingStays
  <1>3. CASE RunnerStep /\ ~ReportStep("runner")
    <2>1. /\ UNCHANGED <<queue, draft, wire>>
          /\ UNCHANGED pc \/ \E l : l # "send" /\ Goto("runner", l)
      BY <1>3 DEF RunnerStep, Wake, Exit, Timeouts, remove_timeout_ssrc, Sleep, Dereference,
                  local, control
    <2>2. \A t \in {"runner", "app"} : pc'[t] = "send" => pc[t] = "send"
      BY <1>0, <2>1, Gone DEF Threads
    <2> QED  BY <2>1, <2>2, ReportingStays
  <1> QED  BY <1>1, <1>2, <1>3

\* The application leaves a report that is being sent alone.
LEMMA AppReporting ==
    ASSUME TypeOK, Accounted, Reporting, AppStep
    PROVE  Reporting'
  <1>0. ControlOK /\ queue \in Queues /\ Described(queue.items) /\ scenario \in Scenarios
    BY DEF TypeOK, Reporting, QueueOK
  <1>1. CASE ReportStep("app")
    BY <1>1, ReportReporting
  <1>2. CASE \/ update_sender_stats \/ TakePacket
             \/ \E k \in Kinds, s \in Peers : GetPacket(k, s)
             \/ \E k \in scenario.hooks : install_hook(k)
             \/ Deactivate \/ JoinRunner \/ Unmap \/ cleanup_participants
    <2>1. /\ UNCHANGED <<queue, draft, wire>>
          /\ UNCHANGED pc \/ \E l : l # "send" /\ Goto("app", l)
      BY <1>2 DEF update_sender_stats, TakePacket, GetPacket, install_hook, Deactivate, JoinRunner,
                  Unmap, cleanup_participants, Dereference, local, control
    <2>2. \A t \in {"runner", "app"} : pc'[t] = "send" => pc[t] = "send"
      BY <1>0, <2>1, Gone DEF Threads
    <2> QED  BY <2>1, <2>2, ReportingStays
  <1>3. ASSUME NEW length \in scenario.appLengths, send_app_packet(length) PROVE Reporting'
    <2> DEFINE app == [subtype |-> 1, length |-> length]
               apps == Append(queue.apps, app)
    <2>1. /\ queue' = [queue EXCEPT !.apps = apps] /\ UNCHANGED <<draft, wire, pc>> /\ Free("packet")
      BY <1>3 DEF send_app_packet, control
    <2>2. app \in App
      <3>1. length \in Nat
        BY <1>0, ScenariosAssumption
      <3> QED  BY <3>1 DEF App
    <2> HIDE DEF app
    <2>3. apps \in Seq(App)
      <3> DEFINE q == queue.apps
      <3>1. q \in Seq(App)
        BY <1>0 DEF Queues
      <3> HIDE DEF q
      <3>2. Append(q, app) \in Seq(App)
        BY <2>2, <3>1, AppendProperties
      <3> QED  BY <3>2 DEF q
    <2> HIDE DEF apps
    <2>4. queue' \in Queues /\ queue'.items = queue.items
      BY <1>0, <2>1, <2>3 DEF Queues
    <2>5. \A t \in {"runner", "app"} : pc'[t] # "send"
      BY <1>0, <2>1, NobodySends
    <2> QED  BY <1>0, <2>1, <2>4, <2>5, QueueChanges
  <1>4. ASSUME NEW length \in scenario.appLengths, install_send_app_hook(length) PROVE Reporting'
    <2> DEFINE app == [subtype |-> 2, length |-> length]
               apps == Append(queue.appHooks, app)
    <2>1. queue' = [queue EXCEPT !.hooked = TRUE, !.appHooks = apps] /\ UNCHANGED <<draft, wire, pc>>
      BY <1>4 DEF install_send_app_hook, control
    <2>2. app \in App
      <3>1. length \in Nat
        BY <1>0, ScenariosAssumption
      <3> QED  BY <3>1 DEF App
    <2> HIDE DEF app
    <2>3. apps \in Seq(App)
      <3> DEFINE q == queue.appHooks
      <3>1. q \in Seq(App)
        BY <1>0 DEF Queues
      <3> HIDE DEF q
      <3>2. Append(q, app) \in Seq(App)
        BY <2>2, <3>1, AppendProperties
      <3> QED  BY <3>2 DEF q
    <2> HIDE DEF apps
    <2>4. /\ queue' \in Queues /\ queue'.items = queue.items /\ queue'.apps = queue.apps
          /\ queue'.byes = queue.byes
      BY <1>0, <2>1, <2>3 DEF Queues
    <2> QED  BY <1>0, <2>1, <2>4, QueueChanges
  <1>5. CASE remove_send_app_hook
    <2> DEFINE apps == Tail(queue.appHooks)
    <2>1. /\ queue' = [queue EXCEPT !.appHooks = apps] /\ queue.appHooks # <<>>
          /\ UNCHANGED <<draft, wire, pc>>
      BY <1>5 DEF remove_send_app_hook, control
    <2>2. apps \in Seq(App)
      <3> DEFINE q == queue.appHooks
      <3>1. q \in Seq(App) /\ q # <<>>
        BY <1>0, <2>1 DEF Queues
      <3> HIDE DEF q
      <3>2. Tail(q) \in Seq(App)
        BY <3>1, HeadTailProperties
      <3> QED  BY <3>2 DEF q
    <2> HIDE DEF apps
    <2>3. /\ queue' \in Queues /\ queue'.items = queue.items /\ queue'.apps = queue.apps
          /\ queue'.byes = queue.byes
      BY <1>0, <2>1, <2>2 DEF Queues
    <2> QED  BY <1>0, <2>1, <2>3, QueueChanges
  <1>6. CASE remove_all_hooks
    <2> DEFINE none == <<>>
    <2>1. queue' = [queue EXCEPT !.hooked = FALSE, !.appHooks = none] /\ UNCHANGED <<draft, wire, pc>>
      BY <1>6 DEF remove_all_hooks, control
    <2>2. none \in Seq(App)
      OBVIOUS
    <2> HIDE DEF none
    <2>3. /\ queue' \in Queues /\ queue'.items = queue.items /\ queue'.apps = queue.apps
          /\ queue'.byes = queue.byes
      BY <1>0, <2>1, <2>2 DEF Queues
    <2> QED  BY <1>0, <2>1, <2>3, QueueChanges
  <1>7. ASSUME NEW items \in scenario.items, send_sdes_packet(items) PROVE Reporting'
    <2> DEFINE set == set_sdes_items(items)
    <2>1. queue' = [queue EXCEPT !.items = set] /\ UNCHANGED <<draft, wire, pc>> /\ Free("packet")
      BY <1>7 DEF send_sdes_packet, control
    <2>2. set \in Seq(Item) /\ Described(set)
      <3>1. items \in Seq(Item)
        BY <1>0, ScenariosAssumption
      <3> QED  BY <3>1, SdesItemsDescribed
    <2> HIDE DEF set
    <2>3. queue' \in Queues /\ queue'.items = set
      BY <1>0, <2>1, <2>2 DEF Queues
    <2>4. \A t \in {"runner", "app"} : pc'[t] # "send"
      BY <1>0, <2>1, NobodySends
    <2> QED  BY <2>1, <2>2, <2>3, <2>4, QueueChanges
  <1>8. CASE Stop
    <2>1. /\ queue' = [queue EXCEPT !.byes = <<Us>>] /\ UNCHANGED <<draft, wire>>
          /\ Goto("app", "report") /\ Free("packet")
      BY <1>8 DEF Stop
    <2>2. queue' \in Queues /\ queue'.items = queue.items
      BY <1>0, <2>1 DEF Queues
    <2>3. \A t \in {"runner", "app"} : pc'[t] # "send"
      BY <1>0, <2>1, NobodySends, Gone DEF Threads
    <2> QED  BY <1>0, <2>1, <2>2, <2>3, QueueChanges
  <1> QED  BY <1>1, <1>2, <1>3, <1>4, <1>5, <1>6, <1>7, <1>8 DEF AppStep

\* What a peer reads of each compound packet is a report with a block for each source heard
\* since the last one and for no other, the description of this session with its CNAME, and
\* then APP packets and a BYE only (rtcp.cc:1842), for all sources, items and APP packets, unless
\* hooked_app_ has changed in between (rtcp.cc:1970).
THEOREM ReportsAreComplete == Spec => []ReportsCoverPeriod
  <1>1. Init => Reporting
    <2> SUFFICES ASSUME Init PROVE Reporting
      OBVIOUS
    <2>1. /\ queue = [items |-> <<[type |-> CNAME, length |-> 3]>>, byes |-> <<>>, apps |-> <<>>,
                      hooked |-> FALSE, appHooks |-> <<>>]
          /\ draft = NoDraft /\ wire.packets = <<>>
          /\ \A t \in {"runner", "app"} : pc[t] # "send"
      BY DEF Init, Threads
    <2> DEFINE it == [type |-> CNAME, length |-> 3]
               items == <<it>>
    <2>2. it \in Item /\ it.type # 0
      BY DEF Item, Octet, CNAME
    <2> HIDE DEF it
    <2>3. items \in Seq(Item) /\ Described(items)
      <3>1. Len(items) = 1 /\ items[1] = it
        OBVIOUS
      <3>2. items \in Seq(Item)
        BY <2>2
      <3> HIDE DEF items
      <3>3. \A i \in 1 .. 1 : i = 1
        OBVIOUS
      <3> QED  BY <2>2, <3>1, <3>2, <3>3 DEF Described
    <2> HIDE DEF items
    <2>4. queue = [items |-> items, byes |-> <<>>, apps |-> <<>>, hooked |-> FALSE, appHooks |-> <<>>]
      BY <2>1 DEF items, it
    <2>5. <<>> \in Seq(App)
      OBVIOUS
    <2>6. QueueOK
      BY <2>3, <2>4, <2>5 DEF QueueOK, Queues
    <2>7. IsDraft(draft)
      BY <2>1 DEF IsDraft, NoDraft
    <2> QED  BY <2>1, <2>6, <2>7 DEF Reporting, DraftOK, ReportsCoverPeriod
  <1>2. TypeOK /\ Accounted /\ Reporting /\ [Next]_vars => Reporting'
    <2> SUFFICES ASSUME TypeOK, Accounted, Reporting, [Next]_vars PROVE Reporting'
      OBVIOUS
    <2>1. CASE UNCHANGED vars
      BY <2>1, ReportingStays DEF vars, local, control
    <2>2. CASE RunnerStep
      BY <2>2, ReportReporting, OthersReporting
    <2> QED  BY <2>1, <2>2, OthersReporting, AppReporting DEF Next
  <1>3. Reporting => ReportsCoverPeriod
    BY DEF Reporting
  <1> QED  BY <1>1, <1>2, <1>3, AccountInvariant, PTL DEF Spec
=============================================================================
